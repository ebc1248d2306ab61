--------------------------- MODULE VipCalculator ---------------------------
(***************************************************************************)
(* businessAutomation: the three VIP (value averaging) calculators.  Each  *)
(* reads a net asset value per line and buys shares so that their value    *)
(* follows a target.  "plain" is vipCalculator.py, "cagr" and "funds"      *)
(* (FundsIndia) are its variants.                                          *)
(*                                                                         *)
(* Money and shares are counted in units of 1/Unit, which each value in    *)
(* the file divides: every quotient is then a whole number of units and    *)
(* the arithmetic of the model is exact.  The average installment, which   *)
(* the plain and the cagr calculator compute from the return expected, is  *)
(* a number given.  A value of 0 stands for every line that float() or the *)
(* division by it refuses: a blank one, a word, 0 itself.  Negative values *)
(* are left out.                                                           *)
(***************************************************************************)
EXTENDS Integers, Sequences

CONSTANTS Navs,         \* the values in the file, 0 for a line that is refused
          Unit,         \* units to the rupee, and to the share
          MaxLines,     \* bound on the lines of the file
          initInvest, minInvest, maxInvest, installmentCount,
          Averages,     \* values of avgInvstRet tried
          Growths       \* funds: factors by which the target grows, tried

VARIABLES
    variant, average, growth,    \* the program and its parameters, fixed
    navs,                        \* lines still to be read
    count, amount, target,       \* target: valAvg, currTargetPV
    shareOwn, totalInvst,        \* in units
    row,                         \* the row printed: [nav, bought, invested]
    vpc                          \* "loop", "summary", "done", or the error that
                                 \* ended it: "badLine" or "noShares"

vars == <<variant, average, growth, navs, count, amount, target, shareOwn,
          totalInvst, row, vpc>>

NoRow == [nav |-> 0, bought |-> 0, invested |-> 0]

Init ==
    /\ variant \in {"plain", "cagr", "funds"}
    /\ average \in Averages /\ growth \in Growths
    /\ navs \in UNION {[1 .. n -> Navs] : n \in 0 .. MaxLines}
    /\ count = 0 /\ amount = initInvest /\ target = 0
    /\ shareOwn = 0 /\ totalInvst = 0
    /\ row = NoRow
    /\ vpc = "loop"

(* What the shares should be worth after the next installment. *)
Target ==
    IF variant = "funds" THEN growth * target + initInvest
                         ELSE (count + 1) * amount

(* The shares that so much money buys at a positive nav. *)
Shares(money, nav) == money * (Unit \div nav)

(* Mutant: the shares bought are not reduced with the money. *)
Purchase_Uncapped(nav, value) ==
    LET need == Shares(value, nav) - shareOwn
        cost == nav * need
    IN CASE need < 0 -> [nav |-> nav, bought |-> Shares(minInvest, nav),
                         invested |-> Unit * minInvest]
         [] need >= 0 /\ cost > Unit * maxInvest ->
               [nav |-> nav, bought |-> need, invested |-> Unit * maxInvest]
         [] OTHER -> [nav |-> nav, bought |-> need, invested |-> cost]

(* What is missing at the target, or the upper limit where that costs more.  *)
(* The lower limit is paid where there are too many shares already; "funds"  *)
(* alone also raises a smaller purchase to it.                               *)
Purchase(nav, value) ==
    LET need == Shares(value, nav) - shareOwn
        cost == nav * need
        Of(money) == [nav |-> nav, bought |-> Shares(money, nav), invested |-> Unit * money]
    IN CASE need < 0 -> Of(minInvest)
         [] need >= 0 /\ cost > Unit * maxInvest -> Of(maxInvest)
         [] need >= 0 /\ cost < Unit * minInvest /\ variant = "funds" -> Of(minInvest)
         [] OTHER -> [nav |-> nav, bought |-> need, invested |-> cost]

(* A line that is no number, or 0: float() or the division throws, and the   *)
(* program ends without its summary.                                         *)
BadLine ==
    /\ vpc = "loop" /\ navs # <<>> /\ Head(navs) = 0
    /\ navs' = Tail(navs)
    /\ count' = count + 1
    /\ vpc' = "badLine"
    /\ UNCHANGED <<variant, average, growth, amount, target, shareOwn, totalInvst, row>>

(* One line of the file; the loop is left when the installments are over and *)
(* the target is not reached.                                                *)
Installment ==
    /\ vpc = "loop" /\ navs # <<>> /\ Head(navs) # 0
    /\ navs' = Tail(navs)
    /\ count' = count + 1
    /\ target' = Target
    /\ row' = Purchase(Head(navs), target')
    /\ shareOwn' = shareOwn + row'.bought
    /\ totalInvst' = totalInvst + row'.invested
    /\ amount' = IF variant = "funds" THEN amount ELSE average
    /\ vpc' = IF totalInvst' < Unit * target' /\ count' >= installmentCount
              THEN "summary" ELSE "loop"
    /\ UNCHANGED <<variant, average, growth>>

EndOfFile ==
    /\ vpc = "loop" /\ navs = <<>>
    /\ vpc' = "summary"
    /\ UNCHANGED <<variant, average, growth, navs, count, amount, target, shareOwn,
                   totalInvst, row>>

(* The average cost divides by the shares owned. *)
printSummary ==
    /\ vpc = "summary"
    /\ vpc' = IF shareOwn = 0 THEN "noShares" ELSE "done"
    /\ UNCHANGED <<variant, average, growth, navs, count, amount, target, shareOwn,
                   totalInvst, row>>

Next == Installment \/ BadLine \/ EndOfFile \/ printSummary

Spec == Init /\ [][Next]_vars

-----------------------------------------------------------------------------
(* Properties *)

(* Every row: what was paid is what the shares bought cost, and no more than *)
(* the upper limit.  A purchase that met no limit brings the value of all    *)
(* shares exactly to the target; one that is left below the target spent the *)
(* upper limit.  Less than the lower limit ("the minimum amount to be        *)
(* invested", vipCalculator-cagr.py:126) is paid by the plain and the cagr   *)
(* calculator only, and then exactly what the target needs.                  *)
(* The calculator stops before the last installment only at the end of the   *)
(* file, or at a line it refuses; the average cost is printed unless no      *)
(* money was spent.                                                          *)
ValueAveraged ==
    /\ row # NoRow =>
          /\ row.nav * row.bought = row.invested
          /\ row.invested \in 0 .. Unit * maxInvest
          /\ row.invested \notin {Unit * minInvest, Unit * maxInvest} =>
                row.nav * shareOwn = Unit * target
          /\ row.nav * shareOwn < Unit * target => row.invested = Unit * maxInvest
          /\ row.invested < Unit * minInvest =>
                variant # "funds" /\ row.nav * shareOwn = Unit * target
    /\ vpc \in {"summary", "done"} => count >= installmentCount \/ navs = <<>>
    /\ vpc = "noShares" => totalInvst = 0
=============================================================================
