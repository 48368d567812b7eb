--------------------------- MODULE MultileaderLines ---------------------------
(***************************************************************************)
(* The leaders of a MULTILEADER.  The C shim flattens the record's nodes:  *)
(* a list of roots, and a list of the lines that have points, each with    *)
(* the number of its root; the lines are counted first, then copied into   *)
(* an array of that size, each with a buffer of its own.  The conversion   *)
(* hangs every line under its root again.  Any allocation may fail.        *)
(* Left out: nodes or lines that are counted but were not stored, which    *)
(* the shim's passes do not look for.  The DWG decoder takes such a count  *)
(* back, or gives the whole drawing up (DWG_ERR_OUTOFMEM); the DXF         *)
(* importer leaves one where the memory for another node cannot be had.    *)
(***************************************************************************)
EXTENDS Naturals, Sequences, FiniteSets, Functions

CONSTANT Multileaders  \* sequences of nodes, a node a sequence of lines: see LineType

(* A line: how many points it has, and whether they are there.             *)
LineType == [points : Nat, stored : BOOLEAN]

VARIABLES
  nodes,    \* ctx.leaders of the record
  lines,    \* the shim's array of lines, NoArray before and when it cannot be had
  next,     \* the line of the array the conversion is at
  leaders,  \* the model's leaders, each the sequence of its lines; own: their overrides
  stage,    \* "roots", "count", "copy", "attach", "done"; short: whether an allocation failed
  place     \* the node and the line of it that the shim's second pass is at

vars == <<nodes, lines, next, leaders, stage, place>>

NoArray == [size |-> 0, copied |-> <<>>]

(* The lines by the numbers of their node and of their own, and those with *)
(* points, which both of the shim's passes look for.                       *)
Line(p) == nodes[p[1]][p[2]]
HasPoints(p) == Line(p).points > 0 /\ Line(p).stored
LinesOf(r) == {p \in {r} \X DOMAIN nodes[r] : HasPoints(p)}
AllLines == UNION {LinesOf(r) : r \in DOMAIN nodes}

Init ==
  /\ nodes \in Multileaders
  /\ lines = NoArray /\ next = 1 /\ place = <<1, 1>>
  /\ leaders = [roots |-> <<>>, own |-> <<>>]
  /\ stage = [at |-> "roots", short |-> FALSE]

At(s) == stage.at = s
GoOn(s) == stage' = [stage EXCEPT !.at = s]
GoOnShort(s) == stage' = [at |-> s, short |-> TRUE]

(* `uncad_multileader_get_roots`, and a leader with no lines for each root.*)
GetRoots ==
  /\ At("roots")
  /\ \/ /\ leaders' = [leaders EXCEPT !.roots = [r \in DOMAIN nodes |-> <<>>]]
        /\ GoOn("count")
     \/ /\ nodes # <<>> /\ UNCHANGED leaders
        /\ GoOnShort("count")
  /\ UNCHANGED <<nodes, lines, next, place>>

(* `uncad_multileader_get_lines`: the array is as large as there are lines *)
(* with points.                                                            *)
CountLines ==
  LET total == Cardinality(AllLines) IN
  /\ At("count")
  /\ \/ total = 0 /\ GoOn("done") /\ UNCHANGED lines
     \/ total > 0 /\ GoOnShort("done") /\ UNCHANGED lines
     \/ total > 0 /\ GoOn("copy") /\ lines' = [lines EXCEPT !.size = total]
  /\ UNCHANGED <<nodes, next, leaders, place>>

(* One line of the second pass: without points it is passed over, without  *)
(* a buffer for them too.                                                  *)
InNode == place[1] \in DOMAIN nodes /\ place[2] \in DOMAIN nodes[place[1]]

CopyLine ==
  /\ At("copy") /\ InNode
  /\ \/ ~HasPoints(place) /\ UNCHANGED <<lines, stage>>
     \/ HasPoints(place) /\ UNCHANGED lines /\ GoOnShort("copy")
     \/ /\ HasPoints(place) /\ UNCHANGED stage
        /\ lines' = [lines EXCEPT !.copied = Append(@, place)]
  /\ place' = <<place[1], place[2] + 1>>
  /\ UNCHANGED <<nodes, next, leaders>>

EndNode ==
  /\ At("copy") /\ place[1] \in DOMAIN nodes /\ ~InNode
  /\ place' = <<place[1] + 1, 1>>
  /\ UNCHANGED <<nodes, lines, next, leaders, stage>>

HandOver ==
  /\ At("copy") /\ place[1] \notin DOMAIN nodes
  /\ GoOn("attach")
  /\ UNCHANGED <<nodes, lines, next, leaders, place>>

(* A slip: the lines are taken to come one to each root.                   *)
AttachInTurn ==
  /\ At("attach") /\ next <= Len(lines.copied)
  /\ leaders' = IF next \in DOMAIN leaders.roots
                THEN [leaders EXCEPT !.roots[next] = Append(@, lines.copied[next]),
                                     !.own = Append(@, lines.copied[next])]
                ELSE leaders
  /\ next' = next + 1
  /\ UNCHANGED <<nodes, lines, stage, place>>

(* A line goes under the root of its number, where there is one; its       *)
(* overrides are kept with it, or not at all.                              *)
AttachLine ==
  LET line == lines.copied[next] IN
  /\ At("attach") /\ next <= Len(lines.copied)
  /\ leaders' = IF line[1] \in DOMAIN leaders.roots
                THEN [leaders EXCEPT !.roots[line[1]] = Append(@, line), !.own = Append(@, line)]
                ELSE leaders
  /\ next' = next + 1
  /\ UNCHANGED <<nodes, lines, stage, place>>

FreeLines ==
  /\ At("attach") /\ next > Len(lines.copied)
  /\ GoOn("done") /\ lines' = NoArray
  /\ UNCHANGED <<nodes, next, leaders, place>>

Next == GetRoots \/ CountLines \/ CopyLine \/ EndNode \/ HandOver \/ AttachLine \/ FreeLines

Spec == Init /\ [][Next]_vars
-----------------------------------------------------------------------------
Stages == {"roots", "count", "copy", "attach", "done"}

TypeOK ==
  /\ lines.copied \in Seq(Nat \X Nat) /\ lines.size \in Nat /\ next \in Nat \ {0} /\ place \in Nat \X Nat
  /\ leaders.roots \in Seq(Seq(Nat \X Nat)) /\ leaders.own \in Seq(Nat \X Nat)
  /\ stage \in [at : Stages, short : BOOLEAN]

(* Lines in the record's order, none twice.                                *)
Before(p, q) == p[1] < q[1] \/ (p[1] = q[1] /\ p[2] < q[2])
InOrder(kept) == \A j, k \in DOMAIN kept : j < k => Before(kept[j], kept[k])

(* What is kept of each root is its own lines in the record's order, all   *)
(* of them unless an allocation failed, and the overrides kept are those   *)
(* of the lines kept; the copies never run past the array counted for them.*)
LinesHangUnderTheirLeader ==
  /\ Len(lines.copied) <= lines.size
  /\ \A r \in DOMAIN leaders.roots : InOrder(leaders.roots[r]) /\ Range(leaders.roots[r]) \subseteq LinesOf(r)
  /\ InOrder(leaders.own)
  /\ Range(leaders.own) = UNION {Range(leaders.roots[r]) : r \in DOMAIN leaders.roots}
  /\ At("done") /\ ~stage.short => DOMAIN leaders.roots = DOMAIN nodes /\ Range(leaders.own) = AllLines
=============================================================================
