------------------------------ MODULE Contest ------------------------------
(***************************************************************************)
(* Three small solutions that read their cases from stdin: the coins of    *)
(* CodeWar2014/Problem3/Solution3.c (and the two searches of Main.java),   *)
(* the strikes of BandhAnalysis/Solution1.cpp, and the improbability drive *)
(* of CodeWar2014/Solution1.cxx.                                           *)
(***************************************************************************)
EXTENDS Integers, Sequences, FiniteSets

CONSTANTS CoinLines,       \* inputs tried for the coins; NoNumber: an empty line
          NoNumber,
          MaxCases,        \* bound on the lines of an input
          Days, Params,    \* strikes: numbers of days, and bandh parameters
          Drives           \* numbers tried for the drive

VARIABLES
    task,         \* "coins", "bandh" or "drive"
    lines,        \* lines read so far
    var,          \* the number last read
    solution,     \* coins: <<n, m, o>>, kept from line to line
    shown,        \* the numbers printed last: <<n, m, o>>, or one number
    daysCount, parties, index, workingSet   \* strikes

vars == <<task, lines, var, solution, shown, daysCount, parties, index, workingSet>>
bandh == <<daysCount, parties, index, workingSet>>

None == <<0, 0, 0>>

Init ==
    /\ task \in {"coins", "bandh", "drive"}
    /\ lines = <<>> /\ var = 0 /\ solution = None /\ shown = None
    /\ IF task = "bandh"
       THEN /\ daysCount \in Days
            /\ parties \in UNION {[1 .. n -> Params] : n \in 1 .. 2}
       ELSE daysCount = 0 /\ parties = <<>>
    /\ index = 1 /\ workingSet = {}

-----------------------------------------------------------------------------
(* Coins: n of 4, m of 1/2 and o of 1/4, N coins worth N in all *)

Pays(N, n, m) == 16 * n + 2 * m + (N - n - m) = 4 * N

(* Both loops, in the order they are run; N - n is never negative. *)
Candidates(N, step) ==
    {p \in (1 .. N - 1) \X (1 .. N) :
        p[2] < N - p[1] /\ p[2] % step = 0 /\ Pays(N, p[1], p[2])}

Later(p, q) == p[1] > q[1] \/ (p[1] = q[1] /\ p[2] > q[2])
LastOf(S) == CHOOSE p \in S : \A q \in S \ {p} : Later(p, q)
FirstOf(S) == CHOOSE p \in S : \A q \in S \ {p} : Later(q, p)
Coins(N, p) == <<p[1], p[2], N - p[1] - p[2]>>

(* Solution3.c: the last one found, or what was there before. *)
find_solution(N) ==
    LET S == Candidates(N, 1)
    IN IF S = {} THEN solution ELSE Coins(N, LastOf(S))

(* Main.java: the first one; the optimised search tries multiples of 3. *)
findAllCombinationsOfNIntoThreeBins(N) ==
    LET S == Candidates(N, 1) IN IF S = {} THEN None ELSE Coins(N, FirstOf(S))

(* Mutant: multiples of 2 are tried. *)
Optimized_ByTwo(N) ==
    LET S == Candidates(N, 2) IN IF S = {} THEN None ELSE Coins(N, FirstOf(S))

Optimized(N) ==
    LET S == Candidates(N, 3) IN IF S = {} THEN None ELSE Coins(N, FirstOf(S))

(* One line: sscanf leaves var alone when there is no number. *)
CoinLine(line) ==
    /\ task = "coins" /\ Len(lines) < MaxCases
    /\ var' = IF line = NoNumber THEN var ELSE line
    /\ solution' = find_solution(var')
    /\ shown' = solution'
    /\ lines' = Append(lines, var')
    /\ UNCHANGED <<task, bandh>>

-----------------------------------------------------------------------------
(* Strikes: processOneTestCase *)

(* Mutant: only Sundays are left out. *)
BandhDay_Sunday ==
    /\ task = "bandh" /\ parties # <<>>
    /\ LET condVal == index * Head(parties) IN
          /\ condVal <= daysCount
          /\ workingSet' = IF condVal % 7 > 0 THEN workingSet \cup {condVal} ELSE workingSet
    /\ index' = index + 1
    /\ UNCHANGED <<task, lines, var, solution, shown, daysCount, parties>>

(* One turn of the while loop: a day of the first party left. *)
BandhDay ==
    /\ task = "bandh" /\ parties # <<>>
    /\ LET condVal == index * Head(parties)
           rd == condVal % 7
       IN /\ condVal <= daysCount
          /\ workingSet' = IF rd > 0 /\ rd < 6 THEN workingSet \cup {condVal} ELSE workingSet
    /\ index' = index + 1
    /\ UNCHANGED <<task, lines, var, solution, shown, daysCount, parties>>

NextParty ==
    /\ task = "bandh" /\ parties # <<>>
    /\ index * Head(parties) > daysCount
    /\ lines' = Append(lines, Head(parties))
    /\ parties' = Tail(parties)
    /\ index' = 1
    /\ shown' = <<Cardinality(workingSet)>>
    /\ UNCHANGED <<task, var, solution, daysCount, workingSet>>

-----------------------------------------------------------------------------
(* The drive: two calls of get_next_prime in one expression, in the order    *)
(* the compiler chooses                                                      *)

(* pow, for whole numbers. *)
pow(b, e) ==
    LET to[k \in 0 .. e] == IF k = 0 THEN 1 ELSE b * to[k - 1]
    IN to[e]

(* The greatest n for which either product is exact: a double holds 3 to the *)
(* 33rd, and not the 34th.  What is printed beyond is not followed.          *)
Exact == 34

DriveLine(n) ==
    /\ task = "drive" /\ lines = <<>>
    /\ lines' = <<n>> /\ var' = n
    /\ shown' \in IF n = 1 THEN {<<4>>}
                 ELSE IF n > Exact THEN {<<NoNumber>>}
                 ELSE {<<pow(2, n - 1) * 3>>, <<pow(3, n - 1) * 2>>}
    /\ UNCHANGED <<task, solution, bandh>>

Next ==
    \/ \E line \in CoinLines : CoinLine(line)
    \/ BandhDay \/ NextParty
    \/ \E n \in Drives : DriveLine(n)

Spec == Init /\ [][Next]_vars

-----------------------------------------------------------------------------
(* Properties *)

Solvable(N) == \E n, m \in 1 .. N : n + m < N /\ Pays(N, n, m)

(* A line that has a solution is answered with one, N coins worth N and at   *)
(* least one of each kind, whatever lines came before.  Until a line has one *)
(* the others are answered that they have none; what such a line is answered *)
(* after that is the solution of an earlier line, against the question, and  *)
(* nothing is claimed of it.  The faster search of Main.java agrees with the *)
(* slow one.                                                                 *)
CoinsRight ==
    task = "coins" /\ lines # <<>> =>
       LET line == lines[Len(lines)] IN
       /\ Solvable(line) =>
             /\ shown[1] + shown[2] + shown[3] = line
             /\ Pays(line, shown[1], shown[2])
             /\ \A k \in 1 .. 3 : shown[k] >= 1
       /\ (\A k \in 1 .. Len(lines) : ~Solvable(lines[k])) => shown = None
       /\ Optimized(line) = findAllCombinationsOfNIntoThreeBins(line)

(* The days lost are the working days some party called a strike on, each    *)
(* counted once.                                                             *)
DaysRight ==
    task = "bandh" /\ lines # <<>> =>
       shown[1] = Cardinality({d \in 1 .. daysCount :
                  d % 7 \notin {0, 6} /\ \E k \in 1 .. Len(lines) : d % lines[k] = 0})

(* The distance printed for n has n arrangements of its prime factors,       *)
(* whichever prime the compiler asks for first, as long as doubles are       *)
(* exact.  It need not be the smallest, which is what question1 asks for: 6  *)
(* is answered 96 and 30 would do.                                           *)
Factorial(n) ==
    LET f[k \in 0 .. n] == IF k = 0 THEN 1 ELSE k * f[k - 1]
    IN f[n]
Exponent(k, p) ==
    LET e[j \in 0 .. k] == IF j = 0 \/ j % p # 0 THEN 0 ELSE 1 + e[j \div p]
    IN e[k]
Arrangements(k) ==
    Factorial(Exponent(k, 2) + Exponent(k, 3))
       \div (Factorial(Exponent(k, 2)) * Factorial(Exponent(k, 3)))
DriveRight ==
    task = "drive" /\ lines # <<>> /\ var <= Exact => Arrangements(shown[1]) = var

ContestRight == CoinsRight /\ DaysRight /\ DriveRight
=============================================================================
