----------------------------- MODULE DagBuilder -----------------------------
(***************************************************************************)
(* The definition of an orchestration in the making                        *)
(* (config/orchestration.go, config/path.go) and the builder that turns    *)
(* structured statements into its paths (config/dagbld).                   *)
(*                                                                         *)
(* A name is a positive number and NoName the empty one; NoCond is the     *)
(* empty constraint.  A definition is a record of its activities, in       *)
(* order, its paths and its start activity.                                *)
(***************************************************************************)
EXTENDS Naturals, SequencesExt

NoName == 0
NoCond == 0
None == [type |-> "none"]

Link(s, t, c) == [source |-> s, target |-> t, constraint |-> c]
Act(n, t) == [name |-> n, type |-> t]
Empty == [acts |-> <<>>, paths |-> <<>>, start |-> NoName]

-----------------------------------------------------------------------------
(***************************************************************************)
(* The statements.  AddNopActivity gives an if and a switch two nops of    *)
(* their own, named after the id of the statement.                         *)
(***************************************************************************)
S(n) == [type |-> "simple", name |-> n]
Goto(n) == [type |-> "goto", name |-> n]
Block(s) == [type |-> "block", stmts |-> s]
If(k, c, th, el) == [type |-> "if", id |-> k, cases |-> <<[cond |-> c, stmt |-> th]>>, else |-> el]
Switch(k, cs) == [type |-> "switch", id |-> k, cases |-> cs]

Ingress(s) == 2 * s.id
Egress(s) == 2 * s.id + 1

\* In: where a statement begins.  A goto begins nowhere.
RECURSIVE In(_)
In(s) ==
  CASE s.type = "simple" -> [name |-> s.name, type |-> "simple"]
    [] s.type = "goto"   -> [name |-> NoName, type |-> "goto"]
    [] s.type = "block"  -> In(s.stmts[1])
    [] OTHER             -> [name |-> Ingress(s), type |-> "simple"]

\* Out: the activity a statement ends with, or where its goto leads.
RECURSIVE Out(_)
Out(s) ==
  CASE s.type \in {"simple", "goto"} -> [name |-> s.name, type |-> s.type]
    [] s.type = "block"              -> Out(Last(s.stmts))
    [] OTHER                         -> [name |-> Egress(s), type |-> "simple"]

\* Mutated Branch: a jump is made whatever the condition.
BranchJumpsAnyway(from, s, cond, jump, egress, inner) ==
  IF jump THEN <<Link(from, Out(s).name, NoCond)>>
  ELSE <<Link(from, In(s).name, cond)>>
         \o (IF Out(s).type = "goto" THEN <<>> ELSE <<Link(Out(s).name, egress, NoCond)>>)
         \o inner

\* A branch of an if or a switch, with the paths inside; jump is what the code
\* takes for a goto.
Branch(from, s, cond, jump, egress, inner) ==
  IF jump THEN <<Link(from, Out(s).name, cond)>>
  ELSE <<Link(from, In(s).name, cond)>>
         \o (IF Out(s).type = "goto" THEN <<>> ELSE <<Link(Out(s).name, egress, NoCond)>>)
         \o inner

\* Paths.  The first statement of a block is not asked whether it is a goto, and
\* what follows a goto is left out.  Then is a goto if it begins with one, a case
\* or an else only if it is one.
RECURSIVE PathsOf(_)
PathsOf(s) ==
  CASE s.type \in {"simple", "goto"} -> <<>>
    [] s.type = "block" ->
         LET stop == SelectInSeq(Tail(s.stmts), LAMBDA t : t.type = "goto")
             upto == IF stop = 0 THEN Len(s.stmts) ELSE stop + 1
             at(i) == IF s.stmts[i].type = "goto" THEN Out(s.stmts[i]).name ELSE In(s.stmts[i]).name
         IN PathsOf(s.stmts[1])
            \o FlattenSeq([i \in 1..(upto - 1) |->
                 <<Link(Out(s.stmts[i]).name, at(i + 1), NoCond)>> \o PathsOf(s.stmts[i + 1])])
    [] OTHER ->
         FlattenSeq([i \in 1..Len(s.cases) |->
             LET c == s.cases[i]
                 jump == IF s.type = "if" THEN In(c.stmt).type = "goto" ELSE c.stmt.type = "goto"
             IN Branch(Ingress(s), c.stmt, c.cond, jump, Egress(s), PathsOf(c.stmt))])
         \o (IF s.type = "switch" \/ s.else = None THEN <<>>
             ELSE Branch(Ingress(s), s.else, NoCond, s.else.type = "goto", Egress(s), PathsOf(s.else)))

\* The nops, in the order in which they are added: Go builds the inner statements
\* before the statement they are given to.
RECURSIVE NopsOf(_)
NopsOf(s) ==
  CASE s.type \in {"none", "simple", "goto"} -> <<>>
    [] s.type = "block" -> FlattenSeq([i \in 1..Len(s.stmts) |-> NopsOf(s.stmts[i])])
    [] OTHER -> FlattenSeq([i \in 1..Len(s.cases) |-> NopsOf(s.cases[i].stmt)])
                \o (IF s.type = "if" THEN NopsOf(s.else) ELSE <<>>)
                \o <<Act(Ingress(s), "nop"), Act(Egress(s), "nop")>>

-----------------------------------------------------------------------------
NamesOf(o) == {o.acts[i].name : i \in 1..Len(o.acts)}

AddNops(o, s) == [o EXCEPT !.acts = @ \o NopsOf(s)]

\* AddActivity: the name must be new, and a request comes first.  The start
\* activity is the last one added, whatever its type.
AddActivity(o, a) ==
  IF a.name \in NamesOf(o) \/ (a.type = "request" /\ o.start # NoName) THEN o
  ELSE [o EXCEPT !.acts = Append(@, a), !.start = a.name]

\* UnmarshalJSON ignores the errors of AddActivity; UnmarshalYAML takes every
\* activity and sets no start activity.
FromJSON(acts, paths) ==
  FoldLeft(AddActivity, [Empty EXCEPT !.paths = paths], acts)
FromYAML(acts, paths) == [acts |-> acts, paths |-> paths, start |-> NoName]

\* removeDups: the first of equal paths stays.
RemoveDups(ps) ==
  FoldLeft(LAMBDA kept, p : IF Contains(kept, p) THEN kept ELSE Append(kept, p), <<>>, ps)

\* AddPath, for one path after the other up to the first it refuses.
Refused(o, p) ==
  NoName \in {p.source, p.target} \/ ~{p.source, p.target} \subseteq NamesOf(o)

AddPaths(o, ps) ==
  LET bad == SelectInSeq(ps, LAMBDA p : Refused(o, p))
  IN [err |-> bad # 0,
      def |-> [o EXCEPT !.paths = @ \o (IF bad = 0 THEN ps ELSE SubSeq(ps, 1, bad - 1))]]

\* Mutated Optimize: the nops nothing leads to stay.
OptimizeNothing(o) == [panic |-> FALSE, acts |-> o.acts, paths |-> o.paths]

(***************************************************************************)
(* Optimize removes the nops nothing leads to, while it ranges over the    *)
(* list as it was: the last activity takes the place of the removed one,   *)
(* which is not visited again, and keeps its old place in the array the    *)
(* loop reads.  A removal at a place the list no longer has panics.        *)
(***************************************************************************)
Optimize(o) ==
  LET Orphan(st, a) == a.type = "nop" /\ \A i \in 1..Len(st.paths) : st.paths[i].target # a.name
      \* array: what the loop reads; size: how much of it is still the list.
      Turn(st, i) ==
        IF st.panic \/ ~Orphan(st, st.array[i]) THEN st
        ELSE IF i > st.size THEN [st EXCEPT !.panic = TRUE]
        ELSE [st EXCEPT !.array[i] = st.array[st.size], !.size = @ - 1,
                        !.paths = SelectSeq(@, LAMBDA p : p.source # st.array[i].name)]
      end == FoldLeftDomain(LAMBDA st, i : Turn(st, i),
               [array |-> o.acts, size |-> Len(o.acts), paths |-> o.paths, panic |-> FALSE], o.acts)
  IN [panic |-> end.panic, acts |-> SubSeq(end.array, 1, end.size), paths |-> end.paths]

\* Build.
Build(o, s, optimize) ==
  LET added == AddPaths(o, RemoveDups(PathsOf(s)))
      opt == Optimize(added.def)
  IN CASE added.err -> [result |-> "error", def |-> added.def]
       [] ~added.err /\ optimize /\ opt.panic -> [result |-> "panic", def |-> added.def]
       [] ~added.err /\ optimize /\ ~opt.panic ->
            [result |-> "ok", def |-> [added.def EXCEPT !.acts = opt.acts, !.paths = opt.paths]]
       [] OTHER -> [result |-> "ok", def |-> added.def]
=============================================================================
