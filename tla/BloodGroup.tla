----------------------------- MODULE BloodGroup -----------------------------
(***************************************************************************)
(* CodeWar2013/bloodgroup.c: which blood groups a child can have.          *)
(*                                                                         *)
(* A marker set is a pair of alleles; the lists of marker sets without     *)
(* repetition are sets.  The arguments of a line are kept from one line to *)
(* the next, as in the code: a field that a line does not set still has    *)
(* its old value.  The first line is what follows the number of lines on   *)
(* its own line, usually nothing.  As committed the file does not compile: *)
(* parent_blood_group_print uses a member that does not exist.  With the   *)
(* one that was meant, output_req, it never returns.                       *)
(***************************************************************************)
EXTENDS Integers, Sequences

CONSTANTS Lines,     \* the input lines tried: up to three words for father,
                     \* mother and child, each a group and an rh or "?"
          MaxLines   \* bound on the lines read

Groups == {"A", "AB", "B", "O"}

blood_group_table ==
    [A  |-> {<<"A", "A">>, <<"A", "O">>},
     AB |-> {<<"A", "B">>},
     B  |-> {<<"B", "B">>, <<"B", "O">>},
     O  |-> {<<"O", "O">>}]

(* Indexed by "+" and "-". *)
rrh_factor_table ==
    [f \in {"+", "-"} |-> IF f = "+" THEN {<<"+", "+">>, <<"+", "-">>, <<"-", "+">>}
                                     ELSE {<<"-", "-">>}]

VARIABLES
    input_args,    \* the three arguments: [blood_group, rh_factor, output_req]
    line,          \* the line last read
    lines,         \* lines read
    pc,
    out            \* what the last line printed

vars == <<input_args, line, lines, pc, out>>

Empty == [blood_group |-> "", rh_factor |-> "", output_req |-> FALSE]

Init ==
    /\ input_args = <<Empty, Empty, Empty>>
    /\ line = <<>> /\ lines = 0
    /\ pc = "read"
    /\ out = {}

(* One word of a line: "?" asks for the argument; the letter O is skipped. *)
Word(old, w) ==
    IF w.group = "?" THEN [old EXCEPT !.output_req = TRUE]
    ELSE [old EXCEPT !.blood_group = IF w.group = "O" THEN @ ELSE w.group,
                     !.rh_factor = w.rh]

process_each_input_line ==
    /\ pc = "read" /\ lines < MaxLines
    /\ line' \in Lines
    /\ input_args' = [i \in 1 .. 3 |-> IF i <= Len(line') THEN Word(input_args[i], line'[i])
                                                         ELSE input_args[i]]
    /\ lines' = lines + 1
    /\ pc' = IF input_args'[3].output_req THEN "child" ELSE "parent"
    /\ out' = {}

-----------------------------------------------------------------------------
(* An allele of each parent, the father's first: his first allele with both  *)
(* of hers, then his second one.                                             *)
FatherFirst(f, m) == {<<f[i], m[j]>> : i, j \in 1 .. 2}

(* The same with the mother's first. *)
MotherFirst(f, m) == {<<m[i], f[j]>> : i, j \in 1 .. 2}

(* Mutant: the mother's allele never comes first. *)
get_all_possible_bmsets_Father(f, m) == FatherFirst(f, m)

get_all_possible_bmsets(f, m) == FatherFirst(f, m) \cup MotherFirst(f, m)

get_all_possible_rhasets(f, m) == FatherFirst(f, m) \cup MotherFirst(f, m)

(* Every combination of the marker sets of both parents. *)
outlist(fathers, mothers) ==
    UNION {get_all_possible_bmsets(f, m) : f \in fathers, m \in mothers}

outlist_rrh(fathers, mothers) ==
    UNION {get_all_possible_rhasets(f, m) : f \in fathers, m \in mothers}

(* The names the tables give to some marker sets; a pair that no entry lists *)
(* in this order has none.                                                   *)
get_blood_group_name_from_table(sets) ==
    {g \in Groups : blood_group_table[g] \cap sets # {}}

get_rrh_factor_name_from_table(sets) ==
    {f \in {"+", "-"} : rrh_factor_table[f] \cap sets # {}}

(* Both parents are in the tables: every combination of their marker sets,   *)
(* and every combination of the names found.                                 *)
child_blood_group_print ==
    /\ pc = "child"
    /\ \A i \in 1 .. 2 : input_args[i].blood_group # "" /\ input_args[i].rh_factor # ""
    /\ LET bm(i) == blood_group_table[input_args[i].blood_group]
           rh(i) == rrh_factor_table[input_args[i].rh_factor]
       IN out' = get_blood_group_name_from_table(outlist(bm(1), bm(2)))
                    \X get_rrh_factor_name_from_table(outlist_rrh(rh(1), rh(2)))
    /\ pc' = "read"
    /\ UNCHANGED <<input_args, line, lines>>

(* A parent that is not in the tables: the entry behind the last is used. *)
OutOfTable ==
    /\ pc = "child"
    /\ \E i \in 1 .. 2 : input_args[i].blood_group = "" \/ input_args[i].rh_factor = ""
    /\ pc' = "crash"
    /\ UNCHANGED <<input_args, line, lines, out>>

(* Its loop over the table does not advance its index; with a parent that is *)
(* not in the tables it follows the entry behind the last before that.       *)
parent_blood_group_print ==
    /\ pc = "parent"
    /\ pc' \in {"loop", "crash"}
    /\ UNCHANGED <<input_args, line, lines, out>>

Next == \/ process_each_input_line
        \/ child_blood_group_print \/ OutOfTable
        \/ parent_blood_group_print

Spec == Init /\ [][Next]_vars

-----------------------------------------------------------------------------
(* Properties *)

(* The genetic rule: A and B are both dominant over O, and + over -; a child *)
(* has one allele of either parent, a parent any genotype with its group.    *)
Group(x, y) ==
    IF {x, y} = {"A", "B"} THEN "AB"
    ELSE IF "A" \in {x, y} THEN "A" ELSE IF "B" \in {x, y} THEN "B" ELSE "O"
Rh(x, y) == IF "+" \in {x, y} THEN "+" ELSE "-"
Gametes(g) == {x \in {"A", "B", "O"} : \E y \in {"A", "B", "O"} : Group(x, y) = g}
RhGametes(f) == {x \in {"+", "-"} : \E y \in {"+", "-"} : Rh(x, y) = f}

ParentsGiven ==
    Len(line) >= 2 /\ {line[1].group, line[2].group} \subseteq Groups \ {"O"}

(* A line that gives both parents, neither of group O, is answered with the  *)
(* groups the genetic rule allows their children, no more and no fewer,      *)
(* whatever lines came before and although the tables list a pair in one     *)
(* order only and the order of the pairs that are built is that of the       *)
(* parents.  Nothing is claimed of an O parent: the letter is skipped, and   *)
(* the line is answered for the group an earlier line left there.            *)
ChildrenMendelian ==
    out # {} /\ ParentsGiven =>
        out = {<<Group(x, y), Rh(r, s)>> :
                  x \in Gametes(line[1].group), y \in Gametes(line[2].group),
                  r \in RhGametes(line[1].rh), s \in RhGametes(line[2].rh)}
=============================================================================
