------------------------------ MODULE Funds ------------------------------
(***************************************************************************)
(* The arithmetic of the wallet service (apps/wallet).  The columns        *)
(* balance and lockedBalance are numeric(30,10): every stored amount is a  *)
(* whole number of units of 10^-10 of its currency, so an amount is a      *)
(* natural number of units here.                                           *)
(*                                                                         *)
(* The code computes with Big, which is exact, and every result leaves Big *)
(* through toNumber(), as a double.  Up to some amount (about 2^53 units)  *)
(* every whole number of units survives that; beyond it only some do, and  *)
(* the others become the nearest of those.  One change of the distance     *)
(* between the amounts that survive stands for all the later ones.         *)
(***************************************************************************)
EXTENDS Integers

CONSTANTS Whole,   \* 100 percent, in the smallest step of a percentage
          Exact,   \* up to this many units every amount is a double of its own
          Spacing  \* beyond it only the multiples of Spacing are

ASSUME FundsAssumption ==
  /\ Whole \in Nat \ {0}
  /\ Spacing \in Nat \ {0}
  /\ \E n \in 0 .. Exact : Exact = Spacing * n
  /\ Exact \in Nat

USD == "USD"

\* The key of a wallet row and the two columns that hold money.
Opened(u, k) == [userId |-> u, currency |-> k, balance |-> 0, locked |-> 0]

\* The whole number nearest to k / d, halves away from zero.
Round(k, d) == (2 * k + d) \div (2 * d)

(* toNumber() of k parts, each one unit / Whole, and its way into the      *)
(* column, which keeps whole units.                                        *)
Grain(k) == IF k <= Exact * Whole THEN 1 ELSE Spacing

ToNumber(k) == Grain(k) * Round(k, Grain(k) * Whole)

\* The amounts a column can hold once it has been through toNumber().
Stored(n) == ToNumber(n * Whole) = n

\* Mutant: what is reserved already counts as available.
AvailableIgnoringLocked(w) == w.balance

Available(w) == w.balance - w.locked

(* A reservation asks for a percentage of what is available, exactly: so   *)
(* many parts.  The code tests that value (amountToUse.lte(0)).            *)
ShareOf(available, percent) == available * percent

ValidPercent(percent) == percent > 0 /\ percent <= Whole

==========================================================================
