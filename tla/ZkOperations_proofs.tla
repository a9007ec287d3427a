------------------------- MODULE ZkOperations_proofs -------------------------
(***************************************************************************)
(* Proofs about ZkOperations, for every tree, every set of calls and every *)
(* interleaving: a call under way has exactly one owner, it is answered    *)
(* once, what it is told was true at some time during the call, and it     *)
(* touches no node outside of its path.                                    *)
(***************************************************************************)
EXTENDS ZkOperations, FiniteSetTheorems, SequenceTheorems, TLAPS

-----------------------------------------------------------------------------
(* Sequences.                                                              *)

In(q, c)    == \E k \in 1..Len(q) : q[k].call = c
Distinct(q) == \A i, j \in 1..Len(q) : q[i].call = q[j].call => i = j

LEMMA Appended ==
  ASSUME NEW S, NEW q \in Seq(S), NEW e \in S
  PROVE  /\ Append(q, e) \in Seq(S) /\ Len(Append(q, e)) = Len(q) + 1
         /\ \A k \in 1..Len(q) : Append(q, e)[k] = q[k]
         /\ Append(q, e)[Len(q) + 1] = e
         /\ \A c : In(Append(q, e), c) <=> In(q, c) \/ c = e.call
         /\ Distinct(q) /\ ~In(q, e.call) => Distinct(Append(q, e))
<1>1. /\ Append(q, e) \in Seq(S) /\ Len(Append(q, e)) = Len(q) + 1 /\ Len(q) \in Nat
      /\ \A k \in 1..Len(q) : Append(q, e)[k] = q[k]
      /\ Append(q, e)[Len(q) + 1] = e
      /\ \A k \in 1..Len(Append(q, e)) : k = Len(q) + 1 \/ k \in 1..Len(q)
  OBVIOUS
<1> DEFINE p == Append(q, e)
<1> HIDE DEF p
<1>2. /\ Len(p) = Len(q) + 1 /\ Len(q) \in Nat
      /\ \A k \in 1..Len(q) : p[k] = q[k] /\ k \in 1..Len(p)
      /\ p[Len(q) + 1] = e /\ Len(q) + 1 \in 1..Len(p)
      /\ \A k \in 1..Len(p) : k = Len(q) + 1 \/ k \in 1..Len(q)
  BY <1>1 DEF p
<1>3. \A c : In(p, c) <=> In(q, c) \/ c = e.call
  BY <1>2 DEF In
<1>4. Distinct(q) /\ ~In(q, e.call) => Distinct(p)
  BY <1>2 DEF In, Distinct
<1> QED
  BY <1>1, <1>3, <1>4 DEF p

LEMMA Removed ==
  ASSUME NEW S, NEW q \in Seq(S), q # <<>>, Distinct(q)
  PROVE  /\ Head(q) \in S /\ Tail(q) \in Seq(S) /\ In(q, Head(q).call)
         /\ Len(Tail(q)) = Len(q) - 1 /\ Head(q) = q[1] /\ 1 \in 1..Len(q)
         /\ \A k \in 1..Len(Tail(q)) : Tail(q)[k] = q[k + 1] /\ k + 1 \in 1..Len(q)
         /\ Distinct(Tail(q))
         /\ \A c : In(Tail(q), c) <=> In(q, c) /\ c # Head(q).call
<1> DEFINE p == Tail(q)
<1>1. /\ Head(q) \in S /\ p \in Seq(S) /\ Len(q) \in Nat /\ Len(q) > 0
      /\ Len(p) = Len(q) - 1 /\ Head(q) = q[1] /\ 1 \in 1..Len(q)
      /\ \A k \in 1..Len(p) : p[k] = q[k + 1] /\ k + 1 \in 1..Len(q)
  OBVIOUS
<1> HIDE DEF p
<1>2. Distinct(p)
  <2> SUFFICES ASSUME NEW i \in 1..Len(p), NEW j \in 1..Len(p), p[i].call = p[j].call
               PROVE  i = j
    BY DEF Distinct
  <2>1. /\ i + 1 \in 1..Len(q) /\ j + 1 \in 1..Len(q)
        /\ q[i + 1].call = q[j + 1].call
    BY <1>1
  <2>2. i + 1 = j + 1
    BY <2>1 DEF Distinct
  <2> QED
    BY <2>2
<1>3. ASSUME NEW c PROVE In(p, c) <=> In(q, c) /\ c # q[1].call
  <2>1. ASSUME In(p, c) PROVE In(q, c) /\ c # q[1].call
    <3>1. PICK k \in 1..Len(p) : p[k].call = c
      BY <2>1 DEF In
    <3>2. q[k + 1].call = c /\ k + 1 \in 1..Len(q) /\ k + 1 # 1
      BY <1>1, <3>1
    <3> QED
      BY <1>1, <3>2 DEF In, Distinct
  <2>2. ASSUME In(q, c), c # q[1].call PROVE In(p, c)
    <3>1. PICK k \in 1..Len(q) : q[k].call = c
      BY <2>2 DEF In
    <3>2. k - 1 \in 1..Len(p) /\ p[k - 1] = q[k]
      BY <1>1, <2>2, <3>1
    <3> QED
      BY <3>1, <3>2 DEF In
  <2> QED
    BY <2>1, <2>2
<1>4. In(q, q[1].call)
  BY <1>1 DEF In
<1> QED
  BY <1>1, <1>2, <1>3, <1>4 DEF p

(* The functors hold the calls themselves.                                 *)
Queued(q, c) == \E k \in 1..Len(q) : q[k] = c
Different(q) == \A i, j \in 1..Len(q) : q[i] = q[j] => i = j

LEMMA FunctorAppended ==
  ASSUME NEW q \in Seq(Nat), NEW e \in Nat
  PROVE  /\ Append(q, e) \in Seq(Nat)
         /\ \A k \in 1..Len(Append(q, e)) : Append(q, e)[k] = e \/ Queued(q, Append(q, e)[k])
         /\ \A c : Queued(Append(q, e), c) <=> Queued(q, c) \/ c = e
         /\ Different(q) /\ ~Queued(q, e) => Different(Append(q, e))
<1> DEFINE p == Append(q, e)
<1>2. /\ p \in Seq(Nat) /\ Len(p) = Len(q) + 1 /\ Len(q) \in Nat
      /\ \A k \in 1..Len(q) : p[k] = q[k] /\ k \in 1..Len(p)
      /\ p[Len(q) + 1] = e /\ Len(q) + 1 \in 1..Len(p)
      /\ \A k \in 1..Len(p) : k = Len(q) + 1 \/ k \in 1..Len(q)
  OBVIOUS
<1> HIDE DEF p
<1>3. \A c : Queued(p, c) <=> Queued(q, c) \/ c = e
  BY <1>2 DEF Queued
<1>4. Different(q) /\ ~Queued(q, e) => Different(p)
  BY <1>2 DEF Queued, Different
<1>5. \A k \in 1..Len(p) : p[k] = e \/ Queued(q, p[k])
  BY <1>2 DEF Queued
<1> QED
  BY <1>2, <1>3, <1>4, <1>5 DEF p

LEMMA FunctorRemoved ==
  ASSUME NEW q \in Seq(Nat), q # <<>>, Different(q)
  PROVE  /\ Head(q) \in Nat /\ Tail(q) \in Seq(Nat) /\ Queued(q, Head(q))
         /\ \A k \in 1..Len(Tail(q)) : Queued(q, Tail(q)[k])
         /\ Different(Tail(q))
         /\ \A c : Queued(Tail(q), c) <=> Queued(q, c) /\ c # Head(q)
<1> DEFINE p == Tail(q)
<1>1. /\ Head(q) \in Nat /\ p \in Seq(Nat) /\ Len(q) \in Nat /\ Len(q) > 0
      /\ Len(p) = Len(q) - 1 /\ Head(q) = q[1] /\ 1 \in 1..Len(q)
      /\ \A k \in 1..Len(p) : p[k] = q[k + 1] /\ k + 1 \in 1..Len(q)
  OBVIOUS
<1> HIDE DEF p
<1>2. Different(p)
  <2> SUFFICES ASSUME NEW i \in 1..Len(p), NEW j \in 1..Len(p), p[i] = p[j]
               PROVE  i = j
    BY DEF Different
  <2>1. /\ i + 1 \in 1..Len(q) /\ j + 1 \in 1..Len(q)
        /\ q[i + 1] = q[j + 1]
    BY <1>1
  <2>2. i + 1 = j + 1
    BY <2>1 DEF Different
  <2> QED
    BY <2>2
<1>3. ASSUME NEW c PROVE Queued(p, c) <=> Queued(q, c) /\ c # q[1]
  <2>1. ASSUME Queued(p, c) PROVE Queued(q, c) /\ c # q[1]
    <3>1. PICK k \in 1..Len(p) : p[k] = c
      BY <2>1 DEF Queued
    <3>2. q[k + 1] = c /\ k + 1 \in 1..Len(q) /\ k + 1 # 1
      BY <1>1, <3>1
    <3> QED
      BY <1>1, <3>2 DEF Queued, Different
  <2>2. ASSUME Queued(q, c), c # q[1] PROVE Queued(p, c)
    <3>1. PICK k \in 1..Len(q) : q[k] = c
      BY <2>2 DEF Queued
    <3>2. k - 1 \in 1..Len(p) /\ p[k - 1] = q[k]
      BY SMTT(30), <1>1, <2>2, <3>1
    <3> QED
      BY <3>1, <3>2 DEF Queued
  <2> QED
    BY <2>1, <2>2
<1>4. Queued(q, q[1]) /\ \A k \in 1..Len(p) : Queued(q, p[k])
  BY <1>1 DEF Queued
<1> QED
  BY <1>1, <1>2, <1>3, <1>4 DEF p
-----------------------------------------------------------------------------
(* Paths.                                                                  *)

LEMMA PrefixIs ==
  ASSUME NEW p \in Seq(Names), NEW n \in 0..Len(p)
  PROVE  /\ SubSeq(p, 1, n) \in Seq(Names) /\ Len(SubSeq(p, 1, n)) = n
         /\ \A i \in 1..n : SubSeq(p, 1, n)[i] = p[i]
<1>1. n \in Int /\ Len(p) \in Nat /\ \A i \in 1..n : p[i] \in Names
  OBVIOUS
<1>2. /\ SubSeq(p, 1, n) \in Seq(Names)
      /\ Len(SubSeq(p, 1, n)) = IF 1 <= n THEN n - 1 + 1 ELSE 0
      /\ \A i \in 1..(n - 1 + 1) : SubSeq(p, 1, n)[i] = p[1 + i - 1]
  BY <1>1, SubSeqProperties
<1> QED
  BY <1>1, <1>2

LEMMA PrefixOfPrefix ==
  ASSUME NEW p \in Seq(Names), NEW n \in 0..Len(p), NEW m \in 0..n
  PROVE  SubSeq(SubSeq(p, 1, n), 1, m) = SubSeq(p, 1, m)
<1> DEFINE s == SubSeq(p, 1, n)
<1>1. /\ s \in Seq(Names) /\ Len(s) = n /\ \A i \in 1..n : s[i] = p[i]
  BY PrefixIs
<1>2. m \in 0..Len(p) /\ n \in Nat /\ Len(p) \in Nat
  OBVIOUS
<1>3. /\ SubSeq(p, 1, m) \in Seq(Names) /\ Len(SubSeq(p, 1, m)) = m
      /\ \A i \in 1..m : SubSeq(p, 1, m)[i] = p[i]
  BY <1>2, PrefixIs
<1> HIDE DEF s
<1>4. /\ SubSeq(s, 1, m) \in Seq(Names) /\ Len(SubSeq(s, 1, m)) = m
      /\ \A i \in 1..m : SubSeq(s, 1, m)[i] = s[i]
  BY <1>1, PrefixIs
<1>5. \A i \in 1..m : SubSeq(s, 1, m)[i] = SubSeq(p, 1, m)[i]
  BY <1>1, <1>2, <1>3, <1>4
<1>6. SubSeq(s, 1, m) = SubSeq(p, 1, m)
  BY <1>3, <1>4, <1>5, SeqEqual
<1> QED
  BY <1>6 DEF s

LEMMA BelowTransitive ==
  ASSUME NEW p \in Seq(Names), NEW q \in Seq(Names), NEW r \in Seq(Names),
         Below(p, q), Below(q, r)
  PROVE  Below(p, r)
<1>1. /\ Len(p) < Len(q) /\ SubSeq(q, 1, Len(p)) = p
      /\ Len(q) < Len(r) /\ SubSeq(r, 1, Len(q)) = q
      /\ Len(p) \in Nat /\ Len(q) \in Nat /\ Len(r) \in Nat
  BY DEF Below
<1>2. SubSeq(SubSeq(r, 1, Len(q)), 1, Len(p)) = SubSeq(r, 1, Len(p))
  BY <1>1, PrefixOfPrefix
<1> QED
  BY <1>1, <1>2 DEF Below

LEMMA ParentIs ==
  ASSUME NEW q \in Seq(Names), q # <<>>
  PROVE  /\ Parent(q) \in Seq(Names) /\ Len(Parent(q)) = Len(q) - 1
         /\ Below(Parent(q), q) /\ Below(<<>>, q)
<1>1. Len(q) \in Nat /\ Len(q) > 0 /\ Len(q) - 1 \in 0..Len(q) /\ 0 \in 0..Len(q)
  OBVIOUS
<1>2. Parent(q) \in Seq(Names) /\ Len(Parent(q)) = Len(q) - 1
  BY <1>1, PrefixIs DEF Parent
<1>3. Below(Parent(q), q)
  BY <1>1, <1>2 DEF Below, Parent
<1>4. Below(<<>>, q)
  <2>1. SubSeq(q, 1, 0) = <<>>
    BY SubSeqEmpty
  <2> QED
    BY <1>1, <2>1 DEF Below
<1> QED
  BY <1>2, <1>3, <1>4

\* From a node above q to the next one below it, and to the one above it.
LEMMA AboveIs ==
  ASSUME NEW p \in Seq(Names), NEW q \in Seq(Names), Below(p, q)
  PROVE  /\ p # Parent(q) => /\ SubSeq(Parent(q), 1, Len(p) + 1) \in Seq(Names)
                             /\ Below(SubSeq(Parent(q), 1, Len(p) + 1), q)
         /\ p # <<>> => Parent(p) \in Seq(Names) /\ Below(Parent(p), q)
<1>1. /\ Len(p) < Len(q) /\ SubSeq(q, 1, Len(p)) = p /\ q # <<>>
      /\ Len(p) \in Nat /\ Len(q) \in Nat
  BY DEF Below
<1>2. /\ Parent(q) = SubSeq(q, 1, Len(q) - 1) /\ Len(Parent(q)) = Len(q) - 1
      /\ Parent(q) \in Seq(Names)
  BY <1>1, ParentIs DEF Parent
<1>3. ASSUME p # Parent(q)
      PROVE  /\ SubSeq(Parent(q), 1, Len(p) + 1) \in Seq(Names)
             /\ Below(SubSeq(Parent(q), 1, Len(p) + 1), q)
  <2>1. Len(p) # Len(q) - 1
    BY <1>1, <1>2, <1>3
  <2>2. Len(p) + 1 \in 0..(Len(q) - 1) /\ Len(q) - 1 \in 0..Len(q)
    BY <1>1, <2>1
  <2>3. SubSeq(SubSeq(q, 1, Len(q) - 1), 1, Len(p) + 1) = SubSeq(q, 1, Len(p) + 1)
    BY <2>2, PrefixOfPrefix
  <2>4. Len(p) + 1 \in 0..Len(q)
    BY <1>1
  <2>5. /\ SubSeq(q, 1, Len(p) + 1) \in Seq(Names)
        /\ Len(SubSeq(q, 1, Len(p) + 1)) = Len(p) + 1
    BY <2>4, PrefixIs
  <2> QED
    BY <1>1, <1>2, <2>2, <2>3, <2>5 DEF Below
<1>4. ASSUME p # <<>> PROVE Parent(p) \in Seq(Names) /\ Below(Parent(p), q)
  BY <1>4, ParentIs, BelowTransitive
<1> QED
  BY <1>3, <1>4

LEMMA AboveInTree ==
  ASSUME NEW q \in Paths, NEW p \in Seq(Names), Below(p, q), p # <<>>
  PROVE  p \in Paths
<1>1. q \in Seq(Names) /\ Len(p) \in 1..Len(q) /\ SubSeq(q, 1, Len(p)) = p
  BY OperationsAssumption DEF Below
<1> QED
  BY <1>1, OperationsAssumption
-----------------------------------------------------------------------------
(* The inductive invariant: types, where a request or a job may come from, *)
(* and the one place where each call under way is.                         *)

TreeOk(t) == DOMAIN t \subseteq Paths /\ \A p \in DOMAIN t : t[p] \in 0..MaxVersion
Rcs    == {"ZOK", "ZNONODE", "ZNODEEXISTS", "ZBADARGUMENTS", "ZBADVERSION", "ZNOTEMPTY",
           "ZCONNECTIONLOSS"}
Codes  == {"Succeed", "NotExist", "Existed", "NotEmpty", "Error", "LostConnection"}
Stages == {"idle", "once", "dir", "leaf", "rmr"}
Entry  == [call : Nat, op : Ops]
Answer == [call : Nat, op : Ops, rc : Rcs]
Frames == [path : Seq(Names), listed : BOOLEAN, todo : SUBSET Seq(Names)]
Jobs   == [call : Nat, stage : Stages, at : Seq(Names), stack : Seq(Frames)]

Typed ==
    /\ TreeOk(tree) /\ connected \in BOOLEAN /\ others \in Nat /\ call \in Seq(Requests)
    /\ sent \in Seq(Entry) /\ answers \in Seq(Answer) /\ functors \in Seq(Nat)
    /\ job \in [Workers -> Jobs] /\ told \in Seq(Seq(Codes)) /\ Len(told) = Len(call)

(* The recursive deletion of p: its stack starts at p and stays below.     *)
StackOk(p, s) ==
    /\ s \in Seq(Frames) /\ s # <<>> /\ s[1].path = p
    /\ \A k \in 1..Len(s) : /\ k # 1 => Below(p, s[k].path)
                            /\ \A q \in s[k].todo : Below(p, q)
(* The requests and the jobs that a call makes. *)
Serves(op, of) ==
    op = of \/ (op = "create" /\ of = "mkpath") \/ (op = "delete" /\ of = "rmr")
RequestOk(e) == e.call \in Calls /\ ~call[e.call].sync /\ Serves(e.op, call[e.call].op)
FunctorOk(c) == c \in Calls /\ ~call[c].sync /\ call[c].op \in {"mkpath", "rmr"}
StageOk(w, j) ==
    \/ j.stage = "once" /\ w = "user" /\ call[j.call].op # "rmr"
    \/ j.stage = "leaf" /\ w = "user" /\ call[j.call].op = "mkpath"
    \/ j.stage = "dir" /\ call[j.call].op = "mkpath" /\ (j.at = <<>> \/ Below(j.at, Path(j.call)))
    \/ j.stage = "rmr" /\ call[j.call].op = "rmr" /\ StackOk(Path(j.call), j.stack)
JobOk(w, j) ==
    \/ j = NoJob
    \/ j.call \in Calls /\ StageOk(w, j) /\ (call[j.call].sync <=> w = "user")
Requested ==
    /\ \A k \in 1..Len(sent) : RequestOk(sent[k])
    /\ \A k \in 1..Len(answers) : RequestOk(answers[k])
    /\ \A k \in 1..Len(functors) : FunctorOk(functors[k])
    /\ \A w \in Workers : JobOk(w, job[w])

Places == {"sent", "answers", "functors"} \cup Workers
At(x, c) ==
    \/ x = "sent" /\ In(sent, c)
    \/ x = "answers" /\ In(answers, c)
    \/ x = "functors" /\ Queued(functors, c)
    \/ x \in Workers /\ job[x].call = c
OnlyAt(x, c) == \A y \in Places : At(y, c) <=> y = x
Nowhere(c)   == \A y \in Places : ~At(y, c)
OneOf(c) == \/ told[c] = <<>> /\ \E x \in Places : OnlyAt(x, c)
            \/ told[c] # <<>> /\ Nowhere(c)
Owned == /\ Distinct(sent) /\ Distinct(answers) /\ Different(functors)
         /\ \A c \in Calls : OneOf(c)

(* What a return code for a request op says of the facts F. *)
RcTrue(op, rc, F) ==
    /\ rc = "ZOK" => (op \in Creates \cup Deletes => "gone" \in F) /\ "here" \in F
    /\ rc = "ZNODEEXISTS" => "here" \in F
    /\ rc = "ZNONODE" => (IF op \in Creates THEN "orphan" ELSE "gone") \in F
    /\ rc = "ZNOTEMPTY" => "full" \in F /\ "here" \in F
(* An answer under way is true of what was seen, which is up to date; the  *)
(* second thread is asked to delete a node that was there.                 *)
Known == \A k \in 1..Len(answers) :
             RcTrue(answers[k].op, answers[k].rc, seen[answers[k].call])
Seen == \A c \in Calls : told[c] = <<>> => Facts(tree, Path(c)) \subseteq seen[c]
Posted(c) == Queued(functors, c) \/ job["second"].call = c
Here == \A c \in Calls : Posted(c) /\ call[c].op = "rmr" => "here" \in seen[c]
Witnessed == Known /\ Seen /\ Here

IInv == Typed /\ Requested /\ Owned /\ Witnessed /\ ToldOnce
-----------------------------------------------------------------------------
(* The servers.                                                            *)

(* A request op touches only its path p. *)
Touched(t, u, op, p, v) ==
    /\ \A q \in DOMAIN t \ DOMAIN u : q = p /\ op \in Deletes /\ v \in {AnyVersion, t[q]}
    /\ \A q \in DOMAIN u \ DOMAIN t : q = p /\ op \in Creates
(* What p is that a request op may be for: only the root and the paths of
   the tree are created. *)
PathOk(op, p) == p \in Seq(Names) /\ (op \in Creates => p \in Paths \/ p = <<>>)

LEMMA TreeChanges ==
  ASSUME NEW t, TreeOk(t), NEW p
  PROVE  /\ TreeOk(Without(t, p)) /\ DOMAIN Without(t, p) = DOMAIN t \ {p}
         /\ p \in Paths => \A v \in 0..MaxVersion :
                TreeOk(With(t, p, v)) /\ DOMAIN With(t, p, v) = DOMAIN t \cup {p}
<1>1. DOMAIN t \subseteq Paths /\ \A q \in DOMAIN t : t[q] \in 0..MaxVersion
  BY DEF TreeOk
<1>2. TreeOk(Without(t, p)) /\ DOMAIN Without(t, p) = DOMAIN t \ {p}
  BY <1>1 DEF TreeOk, Without
<1>3. ASSUME NEW v \in 0..MaxVersion, p \in Paths
      PROVE  TreeOk(With(t, p, v)) /\ DOMAIN With(t, p, v) = DOMAIN t \cup {p}
  BY <1>1, <1>3 DEF TreeOk, With
<1> QED
  BY <1>2, <1>3

\* The servers answer a request for p, change nothing but p, and what they
\* answer is true of the tree that they find and leave.
LEMMA ServerStep ==
  ASSUME NEW t, TreeOk(t), NEW op \in Ops, NEW p, PathOk(op, p), NEW v
  PROVE  /\ ServerRc(t, op, p, v) \in Rcs /\ TreeOk(ServerTree(t, op, p, v))
         /\ Touched(t, ServerTree(t, op, p, v), op, p, v)
         /\ RcTrue(op, ServerRc(t, op, p, v), Facts(t, p) \cup Facts(ServerTree(t, op, p, v), p))
<1> DEFINE rc == ServerRc(t, op, p, v)
           u == ServerTree(t, op, p, v)
<1>1. \A x, y : x \in Creates => x \notin Deletes /\ x \notin Reads
  BY DEF Creates, Deletes, Reads
<1>2. Touched(t, t, op, p, v)
  BY DEF Touched
<1>3. CASE op \in Creates
  <2>1. rc = IF p = <<>> THEN "ZBADARGUMENTS" ELSE IF p \in DOMAIN t THEN "ZNODEEXISTS"
             ELSE IF Len(p) > 1 /\ Parent(p) \notin DOMAIN t THEN "ZNONODE" ELSE "ZOK"
    BY <1>3 DEF ServerRc
  <2>2. u = IF rc # "ZOK" THEN t ELSE With(t, p, 0)
    BY <1>1, <1>3 DEF ServerTree
  <2>3. CASE rc = "ZOK"
    <3>1. u = With(t, p, 0) /\ p \in Paths /\ 0 \in 0..MaxVersion
      BY <1>3, <2>1, <2>2, <2>3, OperationsAssumption DEF PathOk
    <3>2. TreeOk(With(t, p, 0)) /\ DOMAIN With(t, p, 0) = DOMAIN t \cup {p}
      BY <3>1, TreeChanges
    <3>3. TreeOk(u) /\ Touched(t, u, op, p, v) /\ "here" \in Facts(u, p)
      BY <1>3, <3>1, <3>2 DEF Touched, Facts
    <3>4. RcTrue(op, rc, Facts(t, p) \cup Facts(u, p))
      <4>1. "gone" \in Facts(t, p)
        BY <2>1, <2>3 DEF Facts
      <4> QED
        BY <2>3, <3>3, <4>1 DEF RcTrue
    <3> QED
      BY <2>3, <3>3, <3>4 DEF Rcs
  <2>4. CASE rc # "ZOK"
    <3>1. u = t
      BY <2>2, <2>4
    <3>2. RcTrue(op, rc, Facts(t, p))
      <4>1. rc = "ZNODEEXISTS" => "here" \in Facts(t, p)
        BY <2>1 DEF Facts
      <4>2. rc = "ZNONODE" => "orphan" \in Facts(t, p)
        BY <2>1 DEF Facts
      <4>3. rc # "ZNOTEMPTY"
        BY <2>1
      <4> QED
        BY <1>3, <2>4, <4>1, <4>2, <4>3 DEF RcTrue
    <3>3. rc \in Rcs
      BY <2>1 DEF Rcs
    <3> QED
      BY <1>2, <3>1, <3>2, <3>3
  <2> QED
    BY <2>3, <2>4
<1>4. CASE op \notin Creates
  <2>1. rc = IF p \notin DOMAIN t THEN "ZNONODE"
             ELSE IF op \notin Reads /\ v \notin {AnyVersion, t[p]} THEN "ZBADVERSION"
             ELSE IF op \in Deletes /\ Children(t, p) # {} THEN "ZNOTEMPTY" ELSE "ZOK"
    BY <1>4 DEF ServerRc
  <2>2. u = IF rc # "ZOK" \/ op \in Reads THEN t
            ELSE IF op \in Deletes THEN Without(t, p)
            ELSE With(t, p, IF t[p] < MaxVersion THEN t[p] + 1 ELSE t[p])
    BY <1>4 DEF ServerTree
  <2>3. rc \in Rcs /\ (rc = "ZOK" => p \in DOMAIN t)
    BY <2>1 DEF Rcs
  <2>4. CASE u = t
    <3>1. ASSUME op \notin Deletes PROVE RcTrue(op, rc, Facts(t, p))
      BY <1>4, <2>1, <3>1 DEF RcTrue, Facts
    <3>2. ASSUME op \in Deletes PROVE rc # "ZOK" \/ Without(t, p) = t
      BY <2>2, <2>4, <3>2 DEF Deletes, Reads
    <3>3. ASSUME op \in Deletes PROVE rc # "ZOK"
      <4>1. DOMAIN Without(t, p) = DOMAIN t \ {p}
        BY TreeChanges
      <4> QED
        BY <2>3, <3>2, <3>3, <4>1
    <3>4. ASSUME op \in Deletes PROVE RcTrue(op, rc, Facts(t, p))
      BY <1>4, <2>1, <3>3, <3>4 DEF RcTrue, Facts
    <3> QED
      BY <1>2, <2>3, <2>4, <3>1, <3>4
  <2>5. CASE u # t /\ op \in Deletes
    <3>1. rc = "ZOK" /\ u = Without(t, p)
      BY <2>2, <2>5
    <3>2. TreeOk(Without(t, p)) /\ DOMAIN Without(t, p) = DOMAIN t \ {p}
      BY TreeChanges
    <3>3. v \in {AnyVersion, t[p]}
      BY <2>1, <2>5, <3>1 DEF Deletes, Reads
    <3>4. TreeOk(u) /\ Touched(t, u, op, p, v) /\ "gone" \in Facts(u, p)
      BY <2>5, <3>1, <3>2, <3>3 DEF Touched, Facts
    <3>5. RcTrue(op, rc, Facts(t, p) \cup Facts(u, p))
      <4>1. "here" \in Facts(t, p)
        BY <2>3, <3>1 DEF Facts
      <4> QED
        BY <3>1, <3>4, <4>1 DEF RcTrue
    <3> QED
      BY <2>3, <3>4, <3>5
  <2>6. CASE u # t /\ op \notin Deletes
    <3> DEFINE n == IF t[p] < MaxVersion THEN t[p] + 1 ELSE t[p]
    <3>1. rc = "ZOK" /\ u = With(t, p, n)
      BY <2>2, <2>6
    <3>2. p \in DOMAIN t
      BY <2>3, <3>1
    <3>3. t[p] \in 0..MaxVersion /\ p \in Paths /\ MaxVersion \in Nat
      BY <3>2, OperationsAssumption DEF TreeOk
    <3>4. n \in 0..MaxVersion
      BY <3>3
    <3> HIDE DEF n
    <3>5. TreeOk(With(t, p, n)) /\ DOMAIN With(t, p, n) = DOMAIN t \cup {p}
      BY <3>3, <3>4, TreeChanges
    <3>6. TreeOk(u) /\ Touched(t, u, op, p, v) /\ "here" \in Facts(u, p)
      BY <3>1, <3>2, <3>5 DEF Touched, Facts
    <3>7. RcTrue(op, rc, Facts(t, p) \cup Facts(u, p))
      BY <1>4, <2>6, <3>1, <3>6 DEF RcTrue
    <3> QED
      BY <2>3, <3>6, <3>7
  <2> QED
    BY <2>4, <2>5, <2>6
<1> QED
  BY <1>3, <1>4

LEMMA ServerTouches ==
  ASSUME NEW t, TreeOk(t), NEW op \in Ops, NEW p, PathOk(op, p), NEW v
  PROVE  TreeOk(ServerTree(t, op, p, v)) /\ Touched(t, ServerTree(t, op, p, v), op, p, v)
BY ServerStep

\* So does a blocking call, or it is lost.
LEMMA OutcomeIs ==
  ASSUME Typed, NEW op \in Ops, NEW p, PathOk(op, p), NEW v,
         NEW o \in Outcomes(op, p, v)
  PROVE  /\ o.rc \in Rcs \cup {"lost"} /\ TreeOk(o.tree) /\ o.connected \in BOOLEAN
         /\ Touched(tree, o.tree, op, p, v) /\ RcTrue(op, o.rc, Facts(tree, p) \cup Facts(o.tree, p))
<1>0. TreeOk(tree) /\ connected \in BOOLEAN
  BY DEF Typed
<1> DEFINE u == ServerTree(tree, op, p, v)
<1>1. /\ ServerRc(tree, op, p, v) \in Rcs /\ TreeOk(u)
      /\ Touched(tree, u, op, p, v) /\ RcTrue(op, ServerRc(tree, op, p, v), Facts(tree, p) \cup Facts(u, p))
  BY <1>0, ServerStep
<1>2. Touched(tree, tree, op, p, v)
  BY DEF Touched
<1>3. \A F : RcTrue(op, "lost", F) /\ RcTrue(op, "ZCONNECTIONLOSS", F)
  BY DEF RcTrue
<1>4. \/ o.rc = "lost" /\ o.tree = tree /\ o.connected = FALSE
      \/ o.rc = ServerRc(tree, op, p, v) /\ o.tree = u /\ o.connected = TRUE
      \/ o.rc = "ZCONNECTIONLOSS" /\ o.tree \in {tree, u} /\ o.connected = FALSE
  BY DEF Outcomes
<1> HIDE DEF u
<1>5. CASE o.rc = "lost" /\ o.tree = tree /\ o.connected = FALSE
  BY <1>0, <1>2, <1>3, <1>5
<1>6. CASE o.rc = ServerRc(tree, op, p, v) /\ o.tree = u /\ o.connected = TRUE
  BY <1>1, <1>6
<1>7. CASE o.rc = "ZCONNECTIONLOSS" /\ o.tree \in {tree, u} /\ o.connected = FALSE
  <2>1. TreeOk(o.tree) /\ Touched(tree, o.tree, op, p, v)
    BY <1>0, <1>1, <1>2, <1>7
  <2> QED
    BY <1>3, <1>7, <2>1 DEF Rcs
<1> QED
  BY <1>4, <1>5, <1>6, <1>7
-----------------------------------------------------------------------------
(* The stack of a recursive deletion.                                      *)

LEMMA StackIs ==
  ASSUME NEW s \in Seq(Frames), s # <<>>
  PROVE  /\ Len(s) \in Nat /\ Len(s) > 0 /\ Len(s) \in 1..Len(s) /\ Top(s) = s[Len(s)]
         /\ \A k \in 1..Len(s) : s[k] \in Frames
         /\ Pop(s) \in Seq(Frames) /\ Len(Pop(s)) = Len(s) - 1
         /\ \A k \in 1..(Len(s) - 1) : k \in 1..Len(s) /\ Pop(s)[k] = s[k]
<1>1. /\ Len(s) \in Nat /\ Len(s) > 0 /\ Len(s) \in 1..Len(s)
      /\ \A k \in 1..Len(s) : s[k] \in Frames
  OBVIOUS
<1>2. \A i \in 1..(Len(s) - 1) : s[i] \in Frames
  BY <1>1
<1>3. /\ Pop(s) \in Seq(Frames)
      /\ Len(Pop(s)) = IF 1 <= Len(s) - 1 THEN Len(s) - 1 - 1 + 1 ELSE 0
      /\ \A i \in 1..(Len(s) - 1 - 1 + 1) : Pop(s)[i] = s[1 + i - 1]
  BY <1>1, <1>2, SubSeqProperties DEF Pop
<1>4. Len(Pop(s)) = Len(s) - 1
  <2>1. CASE Len(s) = 1
    BY <1>3, <2>1
  <2>2. CASE Len(s) # 1
    <3>1. \A n \in Nat : n > 0 /\ n # 1 => 1 <= n - 1 /\ n - 1 - 1 + 1 = n - 1
      OBVIOUS
    <3>2. 1 <= Len(s) - 1 /\ Len(s) - 1 - 1 + 1 = Len(s) - 1
      BY <1>1, <2>2, <3>1
    <3> QED
      BY <1>3, <3>2
  <2> QED
    BY <2>1, <2>2
<1>5. \A k \in 1..(Len(s) - 1) : k \in 1..Len(s) /\ Pop(s)[k] = s[k]
  BY <1>1, <1>3
<1> QED
  BY <1>1, <1>3, <1>4, <1>5 DEF Top

LEMMA FrameIs ==
  ASSUME NEW p \in Seq(Names)
  PROVE  Frame(p) \in Frames /\ Frame(p).path = p /\ Frame(p).todo = {}
BY DEF Frame, Frames

LEMMA FrameAbove ==
  ASSUME NEW p, NEW s \in Seq(Frames), s = <<>> \/ StackOk(p, s), NEW f \in Frames,
         IF s = <<>> THEN f.path = p ELSE Below(p, f.path), \A q \in f.todo : Below(p, q)
  PROVE  StackOk(p, Append(s, f))
<1> DEFINE r == Append(s, f)
<1>1. /\ r \in Seq(Frames) /\ r # <<>> /\ Len(r) = Len(s) + 1 /\ Len(s) \in Nat
      /\ r[Len(s) + 1] = f /\ \A k \in 1..Len(s) : r[k] = s[k]
  BY AppendProperties
<1> HIDE DEF r
<1>2. CASE s = <<>>
  <2>1. Len(s) = 0 /\ Len(r) = 1 /\ r[1] = f
    BY <1>1, <1>2
  <2> QED
    BY <1>1, <1>2, <2>1 DEF StackOk, r
<1>3. CASE s # <<>>
  <2>1. /\ Len(s) # 0 /\ s[1].path = p
        /\ \A k \in 1..Len(s) : /\ k # 1 => Below(p, s[k].path)
                                /\ \A q \in s[k].todo : Below(p, q)
    BY <1>3 DEF StackOk
  <2>2. r[1].path = p
    BY <1>1, <2>1
  <2>3. ASSUME NEW k \in 1..Len(r)
        PROVE  (k # 1 => Below(p, r[k].path)) /\ \A q \in r[k].todo : Below(p, q)
    <3>1. CASE k = Len(s) + 1
      BY <1>1, <1>3, <3>1
    <3>2. CASE k # Len(s) + 1
      <4>1. k \in 1..Len(s) /\ r[k] = s[k]
        BY <1>1, <3>2
      <4> QED
        BY <2>1, <4>1
    <3> QED
      BY <3>1, <3>2
  <2> QED
    BY <1>1, <2>2, <2>3 DEF StackOk, r
<1> QED
  BY <1>2, <1>3

LEMMA StackSteps ==
  ASSUME NEW p \in Seq(Names), NEW s, StackOk(p, s)
  PROVE  /\ s \in Seq(Frames) /\ s # <<>> /\ Len(s) \in Nat /\ Top(s) \in Frames
         /\ IF Len(s) = 1 THEN Top(s).path = p ELSE Below(p, Top(s).path)
         /\ \A q \in Top(s).todo : q \in Seq(Names) /\ Below(p, q)
         /\ Len(s) # 1 => StackOk(p, Pop(s))
         /\ \A f \in Frames : f.path = Top(s).path /\ (\A q \in f.todo : Below(p, q))
                                 => StackOk(p, Append(Pop(s), f))
<1>1. /\ s \in Seq(Frames) /\ s # <<>> /\ s[1].path = p
      /\ \A k \in 1..Len(s) : /\ k # 1 => Below(p, s[k].path)
                              /\ \A q \in s[k].todo : Below(p, q)
  BY DEF StackOk
<1>2. /\ Len(s) \in Nat /\ Len(s) > 0 /\ Len(s) \in 1..Len(s) /\ Top(s) = s[Len(s)]
      /\ \A k \in 1..Len(s) : s[k] \in Frames
      /\ Pop(s) \in Seq(Frames) /\ Len(Pop(s)) = Len(s) - 1
      /\ \A k \in 1..(Len(s) - 1) : k \in 1..Len(s) /\ Pop(s)[k] = s[k]
  BY <1>1, StackIs
<1>3. Top(s) \in Frames /\ IF Len(s) = 1 THEN Top(s).path = p ELSE Below(p, Top(s).path)
  BY <1>1, <1>2
<1>4. \A q \in Top(s).todo : q \in Seq(Names) /\ Below(p, q)
  BY <1>1, <1>2, <1>3 DEF Frames
<1>5. ASSUME Len(s) # 1 PROVE StackOk(p, Pop(s))
  <2>1. Pop(s) # <<>> /\ 1 \in 1..(Len(s) - 1)
    BY <1>2, <1>5
  <2>2. Pop(s)[1].path = p
    BY <1>1, <1>2, <2>1
  <2>3. \A k \in 1..Len(Pop(s)) : /\ k # 1 => Below(p, Pop(s)[k].path)
                                  /\ \A q \in Pop(s)[k].todo : Below(p, q)
    BY <1>1, <1>2
  <2> QED
    BY <1>2, <2>1, <2>2, <2>3 DEF StackOk
<1>6. ASSUME NEW f \in Frames, f.path = Top(s).path, \A q \in f.todo : Below(p, q)
      PROVE  StackOk(p, Append(Pop(s), f))
  <2>1. CASE Len(s) = 1
    <3>1. Pop(s) = <<>>
      BY <1>2, <2>1
    <3> QED
      BY <1>2, <1>3, <1>6, <2>1, <3>1, FrameAbove
  <2>2. CASE Len(s) # 1
    <3>1. Pop(s) # <<>>
      BY <1>2, <2>2
    <3> QED
      BY <1>2, <1>3, <1>5, <1>6, <2>2, <3>1, FrameAbove
  <2> QED
    BY <2>1, <2>2
<1> QED
  BY <1>1, <1>2, <1>3, <1>4, <1>5, <1>6

\* What is found below p, or below a node that is below p, is below p.
LEMMA ChildrenBelow ==
  ASSUME NEW t, TreeOk(t), NEW p \in Seq(Names), NEW n \in Seq(Names), n = p \/ Below(p, n),
         NEW q \in Children(t, n)
  PROVE  q \in Seq(Names) /\ Below(p, q)
<1>1. q \in Seq(Names) /\ q # <<>> /\ Parent(q) = n
  BY OperationsAssumption DEF TreeOk, Children
<1>2. Below(n, q)
  BY <1>1, ParentIs
<1> QED
  BY <1>1, <1>2, BelowTransitive
-----------------------------------------------------------------------------
(* What the servers execute of the requests under way at a loss.           *)

\* A set of natural numbers that is not empty has a least member.
LEMMA LeastIs ==
  ASSUME NEW S, S \subseteq Nat, S # {}
  PROVE  \E x \in S : \A y \in S : x <= y
<1> DEFINE T == {0..x : x \in S}
           R == StrictSubsetOrdering(Nat)
<1>1. T \subseteq FiniteSubsetsOf(Nat) /\ T # {}
  <2>1. ASSUME NEW x \in S PROVE (0..x) \in SUBSET Nat /\ IsFiniteSet(0..x)
    BY FS_Interval
  <2>2. T # {}
    OBVIOUS
  <2> QED
    BY <2>1, <2>2 DEF FiniteSubsetsOf
<1>2. IsWellFoundedOn(R, FiniteSubsetsOf(Nat))
  BY FS_StrictSubsetOrderingWellFounded
<1>3. PICK u \in T : \A v \in T : ~(<<v, u>> \in R)
  <2> HIDE DEF R, T
  <2> QED
    BY <1>1, <1>2, WFMin
<1>4. PICK x \in S : u = 0..x
  BY <1>3
<1>5. \A y \in S : x <= y
  <2> SUFFICES ASSUME NEW y \in S, y < x PROVE FALSE
    OBVIOUS
  <2>1. 0..y \subseteq 0..x /\ x \in 0..x /\ x \notin 0..y
    OBVIOUS
  <2>2. (0..y) \in SUBSET Nat /\ (0..x) \in SUBSET Nat /\ (0..y) # (0..x) /\ (0..y) \in T
    BY <2>1
  <2> QED
    BY <1>3, <1>4, <2>1, <2>2 DEF StrictSubsetOrdering
<1> QED
  BY <1>5

\* A call under way asks for a node of the tree, never for the root.
LEMMA CallIs ==
  ASSUME Typed, NEW c \in Calls
  PROVE  /\ Len(call) \in Nat /\ c \in Nat /\ c # 0 /\ c <= Len(call) /\ call[c] \in Requests
         /\ call[c].op \in Ops /\ call[c].sync \in BOOLEAN
         /\ Path(c) = call[c].path /\ Path(c) \in Paths /\ Path(c) \in Seq(Names) /\ Path(c) # <<>>
         /\ \A op : PathOk(op, Path(c))
<1>1. /\ Len(call) \in Nat /\ c \in Nat /\ c # 0 /\ c <= Len(call) /\ call[c] \in Requests
  BY DEF Typed, Calls
<1>2. call[c].op \in Ops /\ call[c].sync \in BOOLEAN /\ call[c].path \in Paths
  BY <1>1, OperationsAssumption
<1>3. Path(c) = call[c].path
  BY DEF Path
<1> QED
  BY <1>1, <1>2, <1>3, OperationsAssumption DEF PathOk

(* The nodes that the first k requests may have deleted and created. *)
Within(u, k) ==
    /\ TreeOk(u)
    /\ \A q \in DOMAIN tree \ DOMAIN u :
           \E i \in 1..k : sent[i].op \in Deletes /\ q = Path(sent[i].call)
    /\ \A q \in DOMAIN u \ DOMAIN tree :
           \E i \in 1..k : sent[i].op \in Creates /\ q = Path(sent[i].call)

LEMMA ExecutedIs ==
  ASSUME Typed, Requested, NEW n \in 0..Len(sent)
  PROVE  Within(Executed(n), n)
<1> DEFINE After(u, k) == ServerTree(u, sent[k].op, call[sent[k].call].path, call[sent[k].call].version)
           Def(f, m) == f = [k \in 0..m |-> IF k = 0 THEN tree ELSE After(f[k - 1], k)]
           t == CHOOSE f : Def(f, n)
<1>0. n \in Nat /\ n <= Len(sent) /\ Len(sent) \in Nat
  BY DEF Typed
<1>1. \A k \in 1..n : /\ sent[k].op \in Ops
                      /\ PathOk(sent[k].op, call[sent[k].call].path)
                      /\ call[sent[k].call].path = Path(sent[k].call)
  <2> SUFFICES ASSUME NEW k \in 1..n
               PROVE  /\ sent[k].op \in Ops /\ PathOk(sent[k].op, call[sent[k].call].path)
                      /\ call[sent[k].call].path = Path(sent[k].call)
    OBVIOUS
  <2>1. k \in 1..Len(sent) /\ sent[k] \in Entry
    BY <1>0 DEF Typed
  <2>2. sent[k].call \in Calls
    BY <2>1 DEF Requested, RequestOk
  <2> QED
    BY <2>1, <2>2, CallIs DEF Entry
<1>2. \A m \in 0..n : \E f : Def(f, m)
  <2> DEFINE S == {m \in 0..n : ~\E f : Def(f, m)}
  <2> SUFFICES ASSUME S # {} PROVE FALSE
    OBVIOUS
  <2>1. PICK m \in S : \A i \in S : m <= i
    <3>1. S \subseteq Nat
      OBVIOUS
    <3> HIDE DEF S
    <3> QED
      BY <3>1, LeastIs
  <2>2. CASE m = 0
    <3>1. Def([k \in 0..0 |-> tree], 0)
      OBVIOUS
    <3> QED
      BY <2>1, <2>2, <3>1
  <2>3. CASE m # 0
    <3>1. m \in Nat /\ m - 1 \in 0..n /\ m \in 1..n /\ ~(m <= m - 1)
      BY <1>0, <2>1, <2>3
    <3>2. PICK f : Def(f, m - 1)
      <4>1. m - 1 \notin S
        <5> HIDE DEF S
        <5> QED
          BY <2>1, <3>1
      <4> QED
        BY <3>1, <4>1
    <3> DEFINE g == [k \in 0..m |-> IF k = m THEN After(f[m - 1], m) ELSE f[k]]
    <3> HIDE DEF After
    <3>3. \A k \in 0..m : g[k] = IF k = 0 THEN tree ELSE After(g[k - 1], k)
      <4> SUFFICES ASSUME NEW k \in 0..m PROVE g[k] = IF k = 0 THEN tree ELSE After(g[k - 1], k)
        OBVIOUS
      <4>1. CASE k = 0
        <5>1. k \in 0..(m - 1) /\ k # m
          BY <2>3, <3>1, <4>1
        <5> QED
          BY <3>2, <4>1, <5>1
      <4>2. CASE k # 0 /\ k = m
        <5>1. k - 1 \in 0..m /\ k - 1 # m
          BY <3>1, <4>2
        <5> QED
          BY <4>2, <5>1
      <4>3. CASE k # 0 /\ k # m
        <5>1. k - 1 \in 0..m /\ k - 1 # m /\ k \in 0..(m - 1)
          BY <3>1, <4>3
        <5>2. g[k] = f[k] /\ g[k - 1] = f[k - 1]
          BY <4>3, <5>1
        <5> QED
          BY <3>2, <4>3, <5>1, <5>2
      <4> QED
        BY <4>1, <4>2, <4>3
    <3>4. g = [k \in 0..m |-> g[k]]
      OBVIOUS
    <3> HIDE DEF g
    <3>5. Def(g, m)
      BY <3>3, <3>4
    <3> QED
      BY <2>1, <3>5
  <2> QED
    BY <2>2, <2>3
<1>3. Def(t, n)
  <2> HIDE DEF Def
  <2> QED
    BY <1>0, <1>2
<1>4. Executed(n) = t[n]
  BY DEF Executed
<1> HIDE DEF t
<1>5. /\ t[0] = tree
      /\ \A k \in 1..n : k - 1 \in 0..n /\ t[k] = After(t[k - 1], k)
  <2> HIDE DEF After
  <2>1. \A k \in 0..n : t[k] = IF k = 0 THEN tree ELSE After(t[k - 1], k)
    BY <1>3
  <2> QED
    BY <1>0, <2>1
<1>6. ASSUME NEW k \in 1..n, Within(t[k - 1], k - 1) PROVE Within(t[k], k)
  <2>1. /\ TreeOk(t[k]) /\ Touched(t[k - 1], t[k], sent[k].op, call[sent[k].call].path,
                                   call[sent[k].call].version)
    BY <1>1, <1>5, <1>6, ServerTouches DEF Within
  <2>2. k \in 1..k /\ \A i \in 1..(k - 1) : i \in 1..k
    BY <1>0
  <2>3. ASSUME NEW q \in DOMAIN tree \ DOMAIN t[k]
        PROVE  \E i \in 1..k : sent[i].op \in Deletes /\ q = Path(sent[i].call)
    <3>1. CASE q \in DOMAIN t[k - 1]
      BY <1>1, <2>1, <2>2, <3>1 DEF Touched
    <3>2. CASE q \notin DOMAIN t[k - 1]
      BY <1>6, <2>2, <3>2 DEF Within
    <3> QED
      BY <3>1, <3>2
  <2>4. ASSUME NEW q \in DOMAIN t[k] \ DOMAIN tree
        PROVE  \E i \in 1..k : sent[i].op \in Creates /\ q = Path(sent[i].call)
    <3>1. CASE q \notin DOMAIN t[k - 1]
      BY <1>1, <2>1, <2>2, <3>1 DEF Touched
    <3>2. CASE q \in DOMAIN t[k - 1]
      BY <1>6, <2>2, <3>2 DEF Within
    <3> QED
      BY <3>1, <3>2
  <2> QED
    BY <2>1, <2>3, <2>4 DEF Within
<1>7. Within(t[0], 0)
  BY <1>5 DEF Within, Typed
<1>8. \A k \in 0..n : Within(t[k], k)
  <2> DEFINE S == {k \in 0..n : ~Within(t[k], k)}
  <2> SUFFICES ASSUME S # {} PROVE FALSE
    OBVIOUS
  <2>1. PICK k \in S : \A i \in S : k <= i
    <3>1. S \subseteq Nat
      OBVIOUS
    <3> HIDE DEF S
    <3> QED
      BY <3>1, LeastIs
  <2>2. k \in 1..n /\ k - 1 \in 0..n /\ ~(k <= k - 1)
    BY <1>0, <1>7, <2>1
  <2>3. k - 1 \notin S
    <3> HIDE DEF S
    <3> QED
      BY <2>1, <2>2
  <2> QED
    BY <1>6, <2>1, <2>2, <2>3
<1> QED
  BY <1>0, <1>4, <1>8
-----------------------------------------------------------------------------
(* What a step of a thread does.                                           *)

(* A code told for the call r, when the facts F were true. *)
CodeOk(ec, r, F) == ec \in Codes /\ (ec \in {"Error", "LostConnection"} \/ Supports(ec, r) \subseteq F)
(* Only a recursive deletion of the second thread tells two codes. *)
ToldOk(ecs, c, F) ==
    \/ \E ec : ecs = <<ec>> /\ CodeOk(ec, call[c], F)
    \/ ecs = <<"Error", "Error">> /\ call[c].op = "rmr" /\ ~call[c].sync
(* What the tree becomes on behalf of the call c. *)
TreeStep(c) ==
    /\ TreeOk(tree') /\ connected' \in BOOLEAN
    /\ \A q \in DOMAIN tree \ DOMAIN tree' :
           /\ call[c].op \in Deletes
           /\ \/ q = Path(c) /\ call[c].version \in {AnyVersion, tree[q]}
              \/ call[c].op = "rmr" /\ Below(Path(c), q)
    /\ \A q \in DOMAIN tree' \ DOMAIN tree :
           /\ call[c].op \in Creates
           /\ q = Path(c) \/ (call[c].op = "mkpath" /\ Below(q, Path(c)))
(* The thread goes on with its call, answers it or sends a request for it. *)
Keeps(w, c) ==
    /\ told' = told /\ sent' = sent
    /\ \E j \in Jobs : j.call = c /\ JobOk(w, j) /\ job' = [job EXCEPT ![w] = j]
Tells(w, c) ==
    /\ sent' = sent /\ job' = [job EXCEPT ![w] = NoJob]
    /\ \E ecs : Tell(c, ecs) /\ ToldOk(ecs, c, Now(c))
Sends(w, c) ==
    /\ told' = told /\ job' = [job EXCEPT ![w] = NoJob] /\ w = "second"
    /\ \E op \in Ops : Submit(c, op) /\ Serves(op, call[c].op)
WorkerEffect(w, c) ==
    /\ UNCHANGED <<call, answers, functors, others>> /\ TreeStep(c)
    /\ Keeps(w, c) \/ Tells(w, c) \/ Sends(w, c)

\* Whatever a completion or a synchronous call tells for a return code that is
\* true of the facts F is true of them.
LEMMA CodesAreTrue ==
  ASSUME NEW op, NEW r, NEW rc, NEW F, RcTrue(op, rc, F),
         op \in Creates <=> r.op \in Creates, op \in Deletes <=> r.op \in Deletes
  PROVE  /\ CodeOk(Found(rc), r, F) /\ CodeOk(Made(rc), r, F) /\ CodeOk(Gone(rc), r, F)
         /\ CodeOk(OrLost(rc, Found(rc)), r, F) /\ CodeOk(OrLost(rc, Made(rc)), r, F)
         /\ CodeOk(OrLost(rc, Gone(rc)), r, F)
<1>1. CodeOk("Error", r, F) /\ CodeOk("LostConnection", r, F)
  BY DEF CodeOk, Codes
<1>2. rc = "ZOK" => CodeOk("Succeed", r, F)
  <2>1. Supports("Succeed", r) \subseteq {"here", "gone"}
    BY DEF Supports
  <2>2. "gone" \in Supports("Succeed", r) => r.op \in Creates \cup Deletes
    BY DEF Supports, Deletes
  <2>3. rc = "ZOK" => Supports("Succeed", r) \subseteq F
    BY <2>1, <2>2 DEF RcTrue
  <2> QED
    BY <2>3 DEF CodeOk, Codes
<1>3. rc = "ZNONODE" => CodeOk("NotExist", r, F)
  BY DEF CodeOk, Codes, RcTrue, Supports
<1>4. CodeOk(Found(rc), r, F)
  BY <1>1, <1>2, <1>3 DEF Found
<1>5. CodeOk(Made(rc), r, F)
  <2>1. rc = "ZNODEEXISTS" => CodeOk("Existed", r, F)
    BY DEF CodeOk, Codes, RcTrue, Supports
  <2> QED
    BY <1>4, <2>1 DEF Made
<1>6. CodeOk(Gone(rc), r, F)
  <2>1. rc = "ZNOTEMPTY" => CodeOk("NotEmpty", r, F)
    BY DEF CodeOk, Codes, RcTrue, Supports
  <2> QED
    BY <1>4, <2>1 DEF Gone
<1> QED
  BY <1>1, <1>4, <1>5, <1>6 DEF OrLost

\* The call of a thread is nowhere else, and is not answered yet.
LEMMA WorkerCall ==
  ASSUME Typed, Requested, Owned, NEW w \in Workers, job[w].stage # "idle"
  PROVE  /\ job[w] \in Jobs /\ job[w].call \in Calls /\ StageOk(w, job[w])
         /\ (call[job[w].call].sync <=> w = "user")
         /\ told[job[w].call] = <<>> /\ OnlyAt(w, job[w].call)
<1>1. job[w] # NoJob
  BY DEF NoJob
<1>2. JobOk(w, job[w]) /\ job[w] \in Jobs
  BY DEF Requested, Typed
<1>3. /\ job[w].call \in Calls /\ StageOk(w, job[w])
      /\ (call[job[w].call].sync <=> w = "user")
  BY <1>1, <1>2 DEF JobOk
<1>4. At(w, job[w].call) /\ w \in Places
  BY DEF At, Places
<1>5. OneOf(job[w].call)
  BY <1>3 DEF Owned
<1>6. told[job[w].call] = <<>> /\ OnlyAt(w, job[w].call)
  BY <1>4, <1>5, Zenon DEF OneOf, Nowhere, OnlyAt
<1> QED
  BY <1>2, <1>3, <1>6

\* What its blocking call finds and leaves there is seen.
LEMMA MoreFacts ==
  ASSUME NEW op, NEW rc, NEW F, NEW G, RcTrue(op, rc, F), F \subseteq G
  PROVE  RcTrue(op, rc, G)
BY DEF RcTrue

LEMMA NowIs ==
  ASSUME Typed, Requested, Owned, Witnessed, NEW w \in Workers, job[w].stage # "idle"
  PROVE  LET c == job[w].call
         IN  Facts(tree, Path(c)) \cup Facts(tree', Path(c)) \subseteq Now(c)
<1> DEFINE c == job[w].call
<1>1. c \in Calls /\ told[c] = <<>>
  BY WorkerCall
<1>2. Facts(tree, Path(c)) \subseteq seen[c]
  BY <1>1 DEF Witnessed, Seen
<1> QED
  BY <1>2 DEF Now

\* A thread that goes on with its job in another way.
LEMMA OtherJob ==
  ASSUME Typed, NEW w \in Workers, NEW s \in Stages, NEW a \in Seq(Names), NEW k \in Seq(Frames)
  PROVE  LET j == [call |-> job[w].call, stage |-> s, at |-> a, stack |-> k]
         IN /\ j \in Jobs
            /\ (s = job[w].stage /\ a = job[w].at) => [job[w] EXCEPT !.stack = k] = j
            /\ (s = job[w].stage /\ k = job[w].stack) => [job[w] EXCEPT !.at = a] = j
            /\ (a = job[w].at /\ k = job[w].stack) => [job[w] EXCEPT !.stage = s] = j
<1>1. job[w] \in Jobs
  BY DEF Typed
<1>2. job[w] = [call |-> job[w].call, stage |-> job[w].stage, at |-> job[w].at,
                stack |-> job[w].stack] /\ job[w].call \in Nat
  BY <1>1 DEF Jobs
<1> DEFINE j == [call |-> job[w].call, stage |-> s, at |-> a, stack |-> k]
<1>3. j \in Jobs
  BY <1>2 DEF Jobs
<1>4. (s = job[w].stage /\ a = job[w].at) => [job[w] EXCEPT !.stack = k] = j
  BY <1>2
<1>5. (s = job[w].stage /\ k = job[w].stack) => [job[w] EXCEPT !.at = a] = j
  BY <1>2
<1>6. (a = job[w].at /\ k = job[w].stack) => [job[w] EXCEPT !.stage = s] = j
  BY <1>2
<1> QED
  BY <1>3, <1>4, <1>5, <1>6

\* The jobs that JobOk lets a thread go on with.
LEMMA KeepsJob ==
  ASSUME Typed, Requested, Owned, NEW w \in Workers, job[w].stage # "idle",
         NEW j \in Jobs, j.call = job[w].call, StageOk(w, j), Work(w, j), sent' = sent
  PROVE  Keeps(w, job[w].call)
<1>1. JobOk(w, j)
  BY WorkerCall, Zenon DEF JobOk
<1> QED
  BY <1>1 DEF Keeps, Work

LEMMA DirJobIs ==
  ASSUME Typed, NEW c \in Calls, call[c].op = "mkpath", NEW w
  PROVE  DirJob(c) \in Jobs /\ DirJob(c).call = c /\ StageOk(w, DirJob(c))
<1>1. c \in Nat /\ Path(c) \in Seq(Names) /\ Path(c) # <<>>
  BY CallIs
<1>2. Parent(Path(c)) \in Seq(Names) /\ Below(Parent(Path(c)), Path(c))
  BY <1>1, ParentIs
<1>3. DirJob(c) \in Jobs
  BY <1>1, <1>2 DEF DirJob, DirOf, Jobs, Stages
<1>4. /\ DirJob(c).call = c /\ DirJob(c).stage = "dir" /\ DirJob(c).at = Parent(Path(c))
  BY DEF DirJob, DirOf
<1> QED
  BY <1>2, <1>3, <1>4, call[c].op = "mkpath" DEF StageOk

\* A blocking call for the path of a call, or for a node above or below it.
LEMMA Became ==
  ASSUME Typed, NEW c \in Calls, NEW op \in Ops, NEW p, PathOk(op, p), NEW v,
         NEW o \in Outcomes(op, p, v), Become(o),
         \/ op = call[c].op /\ p = Path(c) /\ v = call[c].version
         \/ call[c].op = "mkpath" /\ op = "create" /\ (p = <<>> \/ Below(p, Path(c)))
         \/ call[c].op = "rmr" /\ op = "children"
         \/ call[c].op = "rmr" /\ op = "delete" /\ p = Path(c) /\ v = call[c].version
         \/ call[c].op = "rmr" /\ op = "delete" /\ Below(Path(c), p)
  PROVE  /\ TreeStep(c) /\ others' = others /\ o.rc \in Rcs \cup {"lost"}
         /\ RcTrue(op, o.rc, Facts(tree, p) \cup Facts(tree', p))
<1>1. tree' = o.tree /\ connected' = o.connected /\ others' = others
  BY DEF Become
<1>2. /\ o.rc \in Rcs \cup {"lost"} /\ TreeOk(o.tree) /\ o.connected \in BOOLEAN
      /\ Touched(tree, o.tree, op, p, v) /\ RcTrue(op, o.rc, Facts(tree, p) \cup Facts(o.tree, p))
  BY OutcomeIs
<1>3. /\ "create" \in Creates /\ "mkpath" \in Creates /\ "delete" \in Deletes /\ "rmr" \in Deletes
      /\ "children" \notin Creates /\ "children" \notin Deletes
      /\ "create" \notin Deletes /\ "delete" \notin Creates
  BY DEF Creates, Deletes
<1>4. \A q \in DOMAIN tree \ DOMAIN tree' :
         q = p /\ op \in Deletes /\ v \in {AnyVersion, tree[q]}
  BY <1>1, <1>2 DEF Touched
<1>5. \A q \in DOMAIN tree' \ DOMAIN tree : q = p /\ op \in Creates /\ q # <<>>
  BY <1>1, <1>2, OperationsAssumption DEF Touched, TreeOk
<1>6. TreeOk(tree') /\ connected' \in BOOLEAN
  BY <1>1, <1>2, Zenon
<1>7. ASSUME NEW q \in DOMAIN tree \ DOMAIN tree'
      PROVE  /\ call[c].op \in Deletes
             /\ \/ q = Path(c) /\ call[c].version \in {AnyVersion, tree[q]}
                \/ call[c].op = "rmr" /\ Below(Path(c), q)
  BY <1>3, <1>4, <1>7
<1>8. ASSUME NEW q \in DOMAIN tree' \ DOMAIN tree
      PROVE  /\ call[c].op \in Creates
             /\ q = Path(c) \/ (call[c].op = "mkpath" /\ Below(q, Path(c)))
  BY <1>3, <1>5, <1>8
<1>9. TreeStep(c)
  BY <1>6, <1>7, <1>8 DEF TreeStep
<1> QED
  BY <1>1, <1>2, <1>9

LEMMA CallOnceStep ==
  ASSUME Typed, Requested, Owned, Witnessed, CallOnce
  PROVE  job["user"].stage # "idle" /\ WorkerEffect("user", job["user"].call)
<1> DEFINE c == job["user"].call
<1>1. job["user"].stage \in {"once", "leaf"} /\ "user" \in Workers /\ job["user"].stage # "idle"
  BY DEF CallOnce, Workers
<1>2. c \in Calls /\ StageOk("user", job["user"])
  BY <1>1, WorkerCall
<1>3. call[c].op \in Ops /\ Path(c) = call[c].path /\ \A op : PathOk(op, Path(c))
  BY <1>2, CallIs
<1>4. PICK o \in Outcomes(call[c].op, Path(c), call[c].version) :
         /\ Become(o)
         /\ IF call[c].op = "mkpath" /\ job["user"].stage = "once" /\ o.rc = "ZNONODE"
            THEN Work("user", DirJob(c))
            ELSE Finish("user", c, <<SyncCode(call[c].op, o.rc)>>)
  BY <1>3 DEF CallOnce
<1>5. UNCHANGED <<call, sent, answers, functors>>
  BY DEF CallOnce
<1>6. TreeStep(c) /\ others' = others /\ RcTrue(call[c].op, o.rc, Now(c))
  <2>1. /\ TreeStep(c) /\ others' = others
        /\ RcTrue(call[c].op, o.rc, Facts(tree, Path(c)) \cup Facts(tree', Path(c)))
    BY <1>2, <1>3, <1>4, Became
  <2> QED
    BY <1>1, <2>1, NowIs, MoreFacts
<1>7. CASE call[c].op = "mkpath" /\ Work("user", DirJob(c))
  <2>1. Keeps("user", c)
    BY <1>1, <1>2, <1>5, <1>7, DirJobIs, KeepsJob
  <2> QED
    BY <1>1, <1>5, <1>6, <2>1 DEF WorkerEffect
<1>8. CASE Finish("user", c, <<SyncCode(call[c].op, o.rc)>>)
  <2>1. CodeOk(SyncCode(call[c].op, o.rc), call[c], Now(c))
    BY <1>6, CodesAreTrue DEF SyncCode, SyncGetNode, SyncGetChildren, SyncIsExist, SyncSet,
                              SyncCreate, SyncDeleteNode
  <2>2. Tells("user", c)
    BY <1>5, <1>8, <2>1 DEF Tells, ToldOk, Finish
  <2> QED
    BY <1>1, <1>5, <1>6, <2>2 DEF WorkerEffect
<1> QED
  BY <1>4, <1>7, <1>8

LEMMA DirDoneStep ==
  ASSUME Typed, Requested, Owned, NEW w \in Workers, job[w].stage = "dir",
         NEW done, NEW alive, DirDone(w, done, alive)
  PROVE  LET c == job[w].call IN Keeps(w, c) \/ Tells(w, c) \/ Sends(w, c)
<1> DEFINE c == job[w].call
<1>0. job[w].stage # "idle"
  OBVIOUS
<1>1. /\ job[w] \in Jobs /\ c \in Calls /\ StageOk(w, job[w]) /\ call[c].op = "mkpath"
  BY <1>0, WorkerCall DEF StageOk
<1>2. CASE Finish(w, c, <<"Error">>) /\ UNCHANGED sent
  <2>1. CodeOk("Error", call[c], Now(c))
    BY DEF CodeOk, Codes
  <2>2. Tells(w, c)
    BY <1>2, <2>1 DEF Tells, ToldOk, Finish
  <2> QED
    BY <2>2
<1>3. CASE w = "user" /\ Work(w, [job[w] EXCEPT !.stage = "leaf"]) /\ UNCHANGED sent
  <2> DEFINE j == [call |-> c, stage |-> "leaf", at |-> job[w].at, stack |-> job[w].stack]
  <2>1. job[w].at \in Seq(Names) /\ job[w].stack \in Seq(Frames) /\ "leaf" \in Stages
    BY <1>1 DEF Jobs, Stages
  <2>2. j \in Jobs /\ [job[w] EXCEPT !.stage = "leaf"] = j
    BY <2>1, OtherJob
  <2>3. j.call = c /\ StageOk(w, j)
    BY <1>1, <1>3 DEF StageOk
  <2> HIDE DEF j
  <2>4. Work(w, j) /\ sent' = sent
    BY <1>3, <2>2, Zenon
  <2> QED
    BY <1>0, <2>2, <2>3, <2>4, KeepsJob
<1>4. CASE w = "second" /\ Submit(c, "create") /\ Work(w, NoJob)
  <2>1. Sends(w, c)
    BY <1>1, <1>4 DEF Sends, Work, Serves, Ops, Creates
  <2> QED
    BY <2>1
<1> QED
  BY <1>2, <1>3, <1>4 DEF DirDone, Workers

LEMMA CreatePersistentDirStep ==
  ASSUME Typed, Requested, Owned, NEW w \in Workers, createPersistentDir(w)
  PROVE  job[w].stage # "idle" /\ WorkerEffect(w, job[w].call)
<1> DEFINE c == job[w].call
           at == job[w].at
           target == Parent(Path(c))
<1>1. job[w].stage = "dir" /\ job[w].stage # "idle"
  BY DEF createPersistentDir
<1>2. /\ job[w] \in Jobs /\ c \in Calls /\ StageOk(w, job[w])
  BY <1>1, WorkerCall
<1>3. at \in Seq(Names) /\ job[w].stack \in Seq(Frames)
  BY <1>2 DEF Jobs
<1>4. call[c].op = "mkpath" /\ (at = <<>> \/ Below(at, Path(c)))
  BY <1>1, <1>2 DEF StageOk
<1>5. Path(c) \in Seq(Names) /\ Path(c) # <<>> /\ Path(c) \in Paths
  BY <1>2, CallIs
<1>6. "create" \in Ops /\ PathOk("create", at)
  BY <1>3, <1>4, <1>5, AboveInTree DEF PathOk, Ops, Creates
<1>7. PICK o \in Outcomes("create", at, AnyVersion) :
         LET ec == createPersistentDirNode(o.rc) IN
         /\ Become(o)
         /\ IF ec = "NotExist"
            THEN Work(w, [job[w] EXCEPT !.at = Above(at)]) /\ UNCHANGED sent
            ELSE IF ec \in {"Succeed", "Existed"} /\ at # target
            THEN /\ Work(w, [job[w] EXCEPT !.at = SubSeq(target, 1, Len(at) + 1)])
                 /\ UNCHANGED sent
            ELSE DirDone(w, ec \in {"Succeed", "Existed"}, o.connected)
  BY DEF createPersistentDir, DirOf
<1>8. UNCHANGED <<call, answers, functors>>
  BY DEF createPersistentDir
<1>9. TreeStep(c) /\ others' = others
  BY <1>2, <1>4, <1>6, <1>7, Became
<1>10. ASSUME NEW a \in Seq(Names), a = <<>> \/ Below(a, Path(c)),
              Work(w, [job[w] EXCEPT !.at = a]), sent' = sent
       PROVE  Keeps(w, c)
  <2> DEFINE j == [call |-> c, stage |-> job[w].stage, at |-> a, stack |-> job[w].stack]
  <2>1. job[w].stage \in Stages
    BY <1>2 DEF Jobs
  <2>2. j \in Jobs /\ [job[w] EXCEPT !.at = a] = j
    BY <1>3, <1>10, <2>1, OtherJob
  <2>3. j.call = c /\ StageOk(w, j)
    BY <1>1, <1>4, <1>10 DEF StageOk
  <2> HIDE DEF j
  <2>4. Work(w, j)
    BY <1>10, <2>2, Zenon
  <2> QED
    BY <1>1, <1>10, <2>2, <2>3, <2>4, KeepsJob
<1>11. Parent(at) \in Seq(Names) /\ (Parent(at) = <<>> \/ Below(Parent(at), Path(c)))
  <2>1. CASE at = <<>>
    <3>1. SubSeq(at, 1, 0 - 1) = <<>>
      BY <2>1, SubSeqEmpty
    <3> QED
      BY <2>1, <3>1 DEF Parent
  <2>2. CASE at # <<>>
    BY <1>3, <1>4, <1>5, <2>2, AboveIs
  <2> QED
    BY <2>1, <2>2
<1>12. ASSUME at # target
       PROVE  /\ SubSeq(target, 1, Len(at) + 1) \in Seq(Names)
              /\ Below(SubSeq(target, 1, Len(at) + 1), Path(c))
  <2>1. Below(at, Path(c))
    BY <1>4, <1>5, ParentIs
  <2> QED
    BY <1>3, <1>5, <1>12, <2>1, AboveIs
<1>13. Keeps(w, c) \/ Tells(w, c) \/ Sends(w, c)
  <2>1. CASE Work(w, [job[w] EXCEPT !.at = Above(at)]) /\ UNCHANGED sent
    BY <1>10, <1>11, <2>1 DEF Above
  <2>2. CASE /\ at # target /\ Work(w, [job[w] EXCEPT !.at = SubSeq(target, 1, Len(at) + 1)])
             /\ UNCHANGED sent
    BY <1>10, <1>12, <2>2
  <2>3. CASE \E done : DirDone(w, done, o.connected)
    BY <1>1, <2>3, DirDoneStep
  <2> QED
    BY <1>7, <2>1, <2>2, <2>3
<1> QED
  BY <1>1, <1>8, <1>9, <1>13 DEF WorkerEffect

\* What a thread that deletes recursively is at.
LEMMA Deleting ==
  ASSUME Typed, Requested, Owned, NEW w \in Workers, job[w].stage = "rmr"
  PROVE  /\ job[w].stage # "idle" /\ job[w].call \in Calls /\ call[job[w].call].op = "rmr"
         /\ StackOk(Path(job[w].call), job[w].stack)
         /\ w = "second" => ~call[job[w].call].sync
<1>1. job[w].stage # "idle"
  OBVIOUS
<1>2. job[w].call \in Calls /\ StageOk(w, job[w]) /\ (call[job[w].call].sync <=> w = "user")
  BY <1>1, WorkerCall
<1> QED
  BY <1>1, <1>2 DEF StageOk

LEMMA PushKeeps ==
  ASSUME Typed, Requested, Owned, NEW w \in Workers, job[w].stage = "rmr",
         NEW s, StackOk(Path(job[w].call), s), Push(w, s), sent' = sent
  PROVE  Keeps(w, job[w].call)
<1> DEFINE j == [call |-> job[w].call, stage |-> job[w].stage, at |-> job[w].at, stack |-> s]
<1>1. s \in Seq(Frames) /\ job[w].at \in Seq(Names) /\ job[w].stage \in Stages
  BY DEF StackOk, Typed, Jobs, Stages
<1>2. j \in Jobs /\ [job[w] EXCEPT !.stack = s] = j
  BY <1>1, OtherJob
<1>3. j.call = job[w].call /\ StageOk(w, j) /\ job[w].stage # "idle"
  BY Deleting DEF StageOk
<1> HIDE DEF j
<1>4. Work(w, j)
  BY <1>2, Zenon DEF Push
<1> QED
  BY <1>2, <1>3, <1>4, KeepsJob

LEMMA FailedTells ==
  ASSUME Typed, Requested, Owned, NEW w \in Workers, job[w].stage = "rmr",
         NEW depth, Failed(w, depth), sent' = sent
  PROVE  Tells(w, job[w].call)
<1> DEFINE c == job[w].call
<1>1. call[c].op = "rmr" /\ (w = "second" => ~call[c].sync)
  BY Deleting
<1>2. CodeOk("Error", call[c], Now(c))
  BY DEF CodeOk, Codes
<1>3. \A ecs : ecs = <<"Error">> => ToldOk(ecs, c, Now(c))
  BY <1>2 DEF ToldOk
<1>4. w = "second" => ToldOk(<<"Error", "Error">>, c, Now(c))
  BY <1>1 DEF ToldOk
<1>5. CASE Finish(w, c, <<"Error">>)
  BY <1>3, <1>5 DEF Tells, Finish
<1>6. CASE w = "second" /\ Finish(w, c, <<"Error", "Error">>)
  BY <1>4, <1>6 DEF Tells, Finish
<1> QED
  BY <1>5, <1>6 DEF Failed

LEMMA PopOkIs ==
  ASSUME Typed, Requested, Owned, Witnessed, NEW w \in Workers, job[w].stage = "rmr", PopOk(w),
         sent' = sent, Len(job[w].stack) = 1 => "gone" \in Now(job[w].call)
  PROVE  Keeps(w, job[w].call) \/ Tells(w, job[w].call)
<1> DEFINE c == job[w].call
<1>1. call[c].op = "rmr" /\ c \in Calls /\ StackOk(Path(c), job[w].stack)
  BY Deleting
<1>2. CASE Len(job[w].stack) = 1 /\ Finish(w, c, <<"Succeed">>)
  <2>1. ~call[c].sync => "here" \in Now(c)
    <3>1. ~call[c].sync => w = "second"
      BY WorkerCall, Zenon DEF Workers
    <3>2. w = "second" => Posted(c)
      BY DEF Posted
    <3> QED
      BY <1>1, <3>1, <3>2 DEF Witnessed, Here, Now
  <2>2. Supports("Succeed", call[c]) \subseteq {"here", "gone"}
    BY DEF Supports
  <2>3. Supports("Succeed", call[c]) \subseteq Now(c)
    BY <1>1, <1>2, <2>1, <2>2 DEF Supports
  <2>4. CodeOk("Succeed", call[c], Now(c))
    BY <2>3 DEF CodeOk, Codes
  <2>5. Tells(w, c)
    BY <1>2, <2>4 DEF Tells, ToldOk, Finish
  <2> QED
    BY <2>5
<1>3. CASE Len(job[w].stack) # 1 /\ Push(w, Pop(job[w].stack))
  <2>1. StackOk(Path(c), Pop(job[w].stack))
    BY <1>1, <1>3, CallIs, StackSteps
  <2> QED
    BY <1>3, <2>1, PushKeeps
<1> QED
  BY <1>2, <1>3 DEF PopOk

LEMMA ListChildrenStep ==
  ASSUME Typed, Requested, Owned, Witnessed, NEW w \in Workers, ListChildren(w)
  PROVE  job[w].stage # "idle" /\ WorkerEffect(w, job[w].call)
<1> DEFINE c == job[w].call
           s == job[w].stack
           p == Top(s).path
<1>1. job[w].stage = "rmr" /\ job[w].stage # "idle"
  BY DEF ListChildren
<1>2. c \in Calls /\ call[c].op = "rmr" /\ StackOk(Path(c), s)
  BY <1>1, Deleting
<1>3. Path(c) \in Seq(Names)
  BY <1>2, CallIs
<1>4. /\ s \in Seq(Frames) /\ s # <<>> /\ Len(s) \in Nat /\ Top(s) \in Frames
      /\ IF Len(s) = 1 THEN p = Path(c) ELSE Below(Path(c), p)
      /\ \A f \in Frames : f.path = p /\ (\A q \in f.todo : Below(Path(c), q))
                              => StackOk(Path(c), Append(Pop(s), f))
  BY <1>2, <1>3, StackSteps
<1>5. "children" \in Ops /\ PathOk("children", p) /\ p \in Seq(Names)
  BY <1>4 DEF PathOk, Ops, Reads, Creates, Frames
<1>6. PICK o \in Outcomes("children", p, AnyVersion) :
         /\ Become(o)
         /\ IF o.rc = "ZOK" THEN Push(w, Append(Pop(s), Listed(p)))
            ELSE IF o.rc = "ZNONODE" THEN PopOk(w) ELSE Failed(w, Len(s))
  BY DEF ListChildren
<1>7. UNCHANGED <<call, sent, answers, functors>>
  BY DEF ListChildren
<1>8. TreeStep(c) /\ others' = others /\ RcTrue("children", o.rc, Facts(tree, p) \cup Facts(tree', p))
  BY <1>2, <1>5, <1>6, Became
<1>9. StackOk(Path(c), Append(Pop(s), Listed(p)))
  <2>1. \A q \in Children(tree, p) : q \in Seq(Names) /\ Below(Path(c), q)
    BY <1>3, <1>4, <1>5, ChildrenBelow DEF Typed
  <2>2. Listed(p) \in Frames /\ Listed(p).path = p /\ Listed(p).todo = Children(tree, p)
    BY <1>5, <2>1 DEF Listed, Frames
  <2> QED
    BY <1>4, <2>1, <2>2
<1>10. CASE Push(w, Append(Pop(s), Listed(p)))
  <2>1. Keeps(w, c)
    BY <1>1, <1>7, <1>9, <1>10, PushKeeps
  <2> QED
    BY <1>1, <1>7, <1>8, <2>1 DEF WorkerEffect
<1>11. CASE o.rc = "ZNONODE" /\ PopOk(w)
  <2>1. Len(s) = 1 => "gone" \in Now(c)
    <3>1. "gone" \in Facts(tree, p) \cup Facts(tree', p)
      BY <1>8, <1>11 DEF RcTrue, Creates
    <3> QED
      BY <1>1, <1>4, <3>1, NowIs
  <2>2. Keeps(w, c) \/ Tells(w, c)
    BY <1>1, <1>7, <1>11, <2>1, PopOkIs
  <2> QED
    BY <1>1, <1>7, <1>8, <2>2 DEF WorkerEffect
<1>12. CASE Failed(w, Len(s))
  <2>1. Tells(w, c)
    BY <1>1, <1>7, <1>12, FailedTells
  <2> QED
    BY <1>1, <1>7, <1>8, <2>1 DEF WorkerEffect
<1> QED
  BY <1>6, <1>10, <1>11, <1>12

LEMMA DeleteChildStep ==
  ASSUME Typed, Requested, Owned, NEW w \in Workers, DeleteChild(w)
  PROVE  job[w].stage # "idle" /\ WorkerEffect(w, job[w].call)
<1> DEFINE c == job[w].call
           s == job[w].stack
<1>1. job[w].stage = "rmr" /\ job[w].stage # "idle"
  BY DEF DeleteChild
<1>2. c \in Calls /\ call[c].op = "rmr" /\ StackOk(Path(c), s) /\ Path(c) \in Seq(Names)
  BY <1>1, Deleting, CallIs
<1>3. PICK q \in Top(s).todo :
         Push(w, Append(Append(Pop(s), [Top(s) EXCEPT !.todo = @ \ {q}]), Frame(q)))
  BY DEF DeleteChild, childPath
<1>4. UNCHANGED <<tree, connected, others, faults, call, sent, answers, functors>>
  BY DEF DeleteChild, world
<1>5. /\ Top(s) \in Frames
      /\ \A r \in Top(s).todo : r \in Seq(Names) /\ Below(Path(c), r)
      /\ \A f \in Frames : f.path = Top(s).path /\ (\A r \in f.todo : Below(Path(c), r))
                              => StackOk(Path(c), Append(Pop(s), f))
  BY <1>2, StackSteps
<1> DEFINE f == [Top(s) EXCEPT !.todo = @ \ {q}]
<1>6. f \in Frames /\ f.path = Top(s).path /\ f.todo = Top(s).todo \ {q}
  BY <1>5 DEF Frames
<1> HIDE DEF f
<1>7. StackOk(Path(c), Append(Pop(s), f))
  BY <1>5, <1>6
<1>8. StackOk(Path(c), Append(Append(Pop(s), f), Frame(q)))
  <2>1. Append(Pop(s), f) \in Seq(Frames) /\ Append(Pop(s), f) # <<>>
    BY <1>7 DEF StackOk
  <2>2. Frame(q) \in Frames /\ Frame(q).path = q /\ Frame(q).todo = {} /\ Below(Path(c), q)
    BY <1>5, FrameIs
  <2> QED
    BY <1>7, <2>1, <2>2, FrameAbove
<1>9. Keeps(w, c)
  BY <1>1, <1>3, <1>4, <1>8, PushKeeps DEF f
<1>10. TreeStep(c)
  BY <1>4 DEF TreeStep, Typed
<1> QED
  BY <1>1, <1>4, <1>9, <1>10 DEF WorkerEffect

LEMMA DeleteSelfStep ==
  ASSUME Typed, Requested, Owned, Witnessed, NEW w \in Workers, DeleteSelf(w)
  PROVE  job[w].stage # "idle" /\ WorkerEffect(w, job[w].call)
<1> DEFINE c == job[w].call
           s == job[w].stack
           p == Top(s).path
           v == IF Len(s) = 1 THEN call[c].version ELSE AnyVersion
<1>1. job[w].stage = "rmr" /\ job[w].stage # "idle"
  BY DEF DeleteSelf
<1>2. c \in Calls /\ call[c].op = "rmr" /\ StackOk(Path(c), s) /\ Path(c) \in Seq(Names)
  BY <1>1, Deleting, CallIs
<1>3. UNCHANGED <<call, answers, functors>>
  BY DEF DeleteSelf
<1>4. CASE /\ w = "second" /\ UNCHANGED world
           /\ \/ Submit(c, "delete") /\ Work(w, NoJob)
              \/ Failed(w, 1) /\ UNCHANGED sent
  <2>1. TreeStep(c) /\ others' = others
    BY <1>4 DEF TreeStep, Typed, world
  <2>2. CASE Submit(c, "delete") /\ Work(w, NoJob)
    <3>1. Sends(w, c)
      BY <1>2, <1>4, <2>2 DEF Sends, Work, Serves, Ops, Deletes
    <3> QED
      BY <1>1, <1>3, <2>1, <3>1 DEF WorkerEffect
  <2>3. CASE Failed(w, 1) /\ UNCHANGED sent
    <3>1. Tells(w, c)
      BY <1>1, <2>3, FailedTells
    <3> QED
      BY <1>1, <1>3, <2>1, <3>1 DEF WorkerEffect
  <2> QED
    BY <1>4, <2>2, <2>3
<1>5. CASE \E o \in Outcomes("delete", p, v) :
              LET ec == SyncDeleteNode(o.rc) IN
              /\ Become(o) /\ UNCHANGED sent
              /\ IF Len(s) = 1 THEN Finish(w, c, <<ec>>)
                 ELSE IF ec \in {"Succeed", "NotExist"} THEN PopOk(w) ELSE Failed(w, Len(s))
  <2>1. PICK o \in Outcomes("delete", p, v) :
           LET ec == SyncDeleteNode(o.rc) IN
           /\ Become(o) /\ UNCHANGED sent
           /\ IF Len(s) = 1 THEN Finish(w, c, <<ec>>)
              ELSE IF ec \in {"Succeed", "NotExist"} THEN PopOk(w) ELSE Failed(w, Len(s))
    BY <1>5
  <2>2. Top(s) \in Frames /\ IF Len(s) = 1 THEN p = Path(c) ELSE Below(Path(c), p)
    BY <1>2, StackSteps
  <2>3. "delete" \in Ops /\ PathOk("delete", p)
    BY <2>2 DEF PathOk, Ops, Deletes, Creates, Frames
  <2>4. TreeStep(c) /\ others' = others /\ RcTrue("delete", o.rc, Facts(tree, p) \cup Facts(tree', p))
    BY <1>2, <2>1, <2>2, <2>3, Became
  <2>5. CASE Len(s) = 1 /\ Finish(w, c, <<SyncDeleteNode(o.rc)>>)
    <3>1. RcTrue("delete", o.rc, Now(c))
      BY <1>1, <2>2, <2>4, <2>5, NowIs, MoreFacts
    <3>2. CodeOk(SyncDeleteNode(o.rc), call[c], Now(c))
      BY <1>2, <3>1, CodesAreTrue DEF SyncDeleteNode, Creates, Deletes
    <3>3. Tells(w, c)
      BY <1>2, <2>1, <2>5, <3>2 DEF Tells, ToldOk, Finish
    <3> QED
      BY <1>1, <1>3, <2>4, <3>3 DEF WorkerEffect
  <2>6. CASE Len(s) # 1 /\ PopOk(w)
    <3>1. Keeps(w, c) \/ Tells(w, c)
      BY <1>1, <2>1, <2>6, PopOkIs
    <3> QED
      BY <1>1, <1>3, <2>4, <3>1 DEF WorkerEffect
  <2>7. CASE Failed(w, Len(s))
    <3>1. Tells(w, c)
      BY <1>1, <2>1, <2>7, FailedTells
    <3> QED
      BY <1>1, <1>3, <2>4, <3>1 DEF WorkerEffect
  <2> QED
    BY <2>1, <2>5, <2>6, <2>7
<1> QED
  BY <1>4, <1>5 DEF DeleteSelf

LEMMA WorkerStep ==
  ASSUME Typed, Requested, Owned, Witnessed, CallOnce \/ \E w \in Workers : WorkerNext(w)
  PROVE  \E w \in Workers : job[w].stage # "idle" /\ WorkerEffect(w, job[w].call)
BY CallOnceStep, CreatePersistentDirStep, ListChildrenStep, DeleteChildStep, DeleteSelfStep
   DEF WorkerNext, Workers
-----------------------------------------------------------------------------
(* What every step keeps.                                                  *)

(* The steps of AnswerIsTrue and of TouchesOnly. *)
Truth ==
    \A c \in Calls : \A k \in Answers(c) :
        \/ told'[c][k] \in {"Error", "LostConnection"}
        \/ Supports(told'[c][k], call[c]) \subseteq Now(c)
Touches ==
    others' = others =>
        /\ \A p \in DOMAIN tree \ DOMAIN tree' : \E c \in Calls :
               /\ Underway(c) /\ call[c].op \in Deletes
               /\ \/ /\ p = Path(c)
                     /\ call[c].version \in {AnyVersion, tree[p]} \/ connected' # connected
                  \/ call[c].op = "rmr" /\ Below(Path(c), p)
        /\ \A p \in DOMAIN tree' \ DOMAIN tree : \E c \in Calls :
               /\ Underway(c) /\ call[c].op \in Creates
               /\ p = Path(c) \/ (call[c].op = "mkpath" /\ Below(p, Path(c)))
(* The answers are those there were, or true of what is seen; the second   *)
(* thread is asked for what it was asked for, or for a node that was there. *)
AnswersFrom ==
    /\ \A c \in Calls : c \in Calls' /\ Path(c)' = Path(c)
    /\ \A k \in 1..Len(answers') :
          \/ \E i \in 1..Len(answers) : answers'[k] = answers[i]
          \/ /\ answers'[k].call \in Calls
             /\ RcTrue(answers'[k].op, answers'[k].rc, Now(answers'[k].call))
PostedFrom ==
    \A c \in Calls' : Posted(c)' =>
        /\ c \in Calls /\ call'[c] = call[c]
        /\ Posted(c) \/ call[c].op # "rmr" \/ "here" \in seen[c]
Kept == /\ Typed' /\ Requested' /\ Owned' /\ ToldOnce'
        /\ AnswersFrom /\ PostedFrom /\ Truth /\ Touches
(* The call d is where it was. *)
Same(d) ==
    /\ told'[d] = told[d]
    /\ In(sent', d) <=> In(sent, d)
    /\ In(answers', d) <=> In(answers, d)
    /\ Queued(functors', d) <=> Queued(functors, d)
    /\ \A w \in Workers : (job'[w].call = d) <=> (job[w].call = d)

LEMMA AtIs ==
  ASSUME NEW c
  PROVE  /\ \A y \in Places : y \in {"sent", "answers", "functors", "user", "second"}
         /\ At("sent", c) <=> In(sent, c)
         /\ At("answers", c) <=> In(answers, c)
         /\ At("functors", c) <=> Queued(functors, c)
         /\ At("user", c) <=> job["user"].call = c
         /\ At("second", c) <=> job["second"].call = c
         /\ At("sent", c)' <=> In(sent', c)
         /\ At("answers", c)' <=> In(answers', c)
         /\ At("functors", c)' <=> Queued(functors', c)
         /\ At("user", c)' <=> job'["user"].call = c
         /\ At("second", c)' <=> job'["second"].call = c
<1>1. \A y \in Places : y \in {"sent", "answers", "functors", "user", "second"}
  BY DEF Places, Workers
<1>2. /\ At("sent", c) <=> In(sent, c)
      /\ At("answers", c) <=> In(answers, c)
      /\ At("functors", c) <=> Queued(functors, c)
      /\ At("user", c) <=> job["user"].call = c
      /\ At("second", c) <=> job["second"].call = c
  BY DEF At, Workers
<1>3. (/\ At("sent", c) <=> In(sent, c)
       /\ At("answers", c) <=> In(answers, c)
       /\ At("functors", c) <=> Queued(functors, c)
       /\ At("user", c) <=> job["user"].call = c
       /\ At("second", c) <=> job["second"].call = c)'
  BY DEF At, Workers
<1> QED
  BY <1>1, <1>2, <1>3 DEF In, Queued

LEMMA SameKept ==
  ASSUME NEW d, Same(d), OneOf(d)
  PROVE  OneOf(d)'
<1>1. \A y \in Places : At(y, d)' <=> At(y, d)
  BY AtIs DEF Same, Workers
<1>2. told'[d] = told[d]
  BY DEF Same
<1> QED
  BY <1>1, <1>2 DEF OneOf, OnlyAt, Nowhere

\* A call whose place is known is nowhere else.
LEMMA PlaceIs ==
  ASSUME Owned, NEW c \in Calls, NEW x \in Places, At(x, c)
  PROVE  told[c] = <<>> /\ OnlyAt(x, c)
<1>1. OneOf(c)
  BY DEF Owned
<1> QED
  BY <1>1, Zenon DEF OneOf, Nowhere, OnlyAt

LEMMA OwnedKept ==
  ASSUME Owned, Distinct(sent'), Distinct(answers'), Different(functors'), NEW c,
         \A d \in Calls' : d # c => d \in Calls /\ Same(d), c \in Calls' => OneOf(c)'
  PROVE  Owned'
<1>1. ASSUME NEW d \in Calls' PROVE OneOf(d)'
  <2>1. CASE d = c
    BY <2>1
  <2>2. CASE d # c
    BY <2>2, SameKept DEF Owned
  <2> QED
    BY <2>1, <2>2
<1> QED
  BY <1>1 DEF Owned, Distinct, Different

\* A step of others leaves the second thread what it is asked for.
LEMMA SamePosted ==
  ASSUME Typed, Requested, functors' = functors, job'["second"] = job["second"],
         \A c \in Calls' : c # 0, \A c \in Calls : call'[c] = call[c]
  PROVE  PostedFrom
<1> SUFFICES ASSUME NEW c \in Calls', Posted(c)'
             PROVE  c \in Calls /\ Posted(c)
  BY DEF PostedFrom
<1>1. Posted(c)
  BY DEF Posted, Queued
<1>2. CASE Queued(functors, c)
  BY <1>1, <1>2 DEF Queued, Requested, FunctorOk
<1>3. CASE job["second"].call = c
  <2>1. JobOk("second", job["second"])
    BY DEF Requested, Workers
  <2> QED
    BY <1>1, <1>3, <2>1 DEF JobOk, NoJob
<1> QED
  BY <1>1, <1>2, <1>3 DEF Posted

\* A step that tells nothing.
LEMMA NothingTold ==
  ASSUME Typed, ToldOnce, \A c \in Calls : told'[c] = told[c] /\ call'[c] = call[c],
         \A c \in Calls' : c \in Calls \/ told'[c] = <<>>
  PROVE  Truth /\ ToldOnce'
<1>1. \A c \in Calls : Len(told[c]) \in Nat
  BY DEF Typed, Calls
<1>2. Truth
  BY <1>1 DEF Truth, Answers
<1>3. ASSUME NEW c \in Calls', Len(told'[c]) > 1
      PROVE  told'[c] = <<"Error", "Error">> /\ call'[c].op = "rmr" /\ ~call'[c].sync
  <2>1. c \in Calls
    <3>1. Len(<<>>) = 0
      OBVIOUS
    <3> QED
      BY <1>3, <3>1
  <2> QED
    BY <1>3, <2>1 DEF ToldOnce
<1> QED
  BY <1>2, <1>3 DEF ToldOnce

\* A step that answers the call c.
LEMMA Answering ==
  ASSUME Typed, ToldOnce, call' = call, NEW c \in Calls, told[c] = <<>>, NEW ecs, Tell(c, ecs),
         NEW F, ToldOk(ecs, c, F), F \subseteq Now(c)
  PROVE  /\ told' \in Seq(Seq(Codes)) /\ Len(told') = Len(call') /\ told'[c] # <<>>
         /\ \A d \in Calls : d # c => told'[d] = told[d]
         /\ Truth /\ ToldOnce'
<1>1. told \in Seq(Seq(Codes)) /\ c \in 1..Len(told) /\ Len(told) = Len(call)
  BY DEF Typed, Calls
<1>2. ecs \in Seq(Codes) /\ ecs # <<>>
  <2>1. \A ec \in Codes : <<ec>> \in Seq(Codes) /\ <<ec>> # <<>> /\ <<ec, ec>> \in Seq(Codes)
                          /\ <<ec, ec>> # <<>>
    OBVIOUS
  <2>2. (\E ec \in Codes : ecs = <<ec>>) \/ (\E ec \in Codes : ecs = <<ec, ec>>)
    BY Zenon DEF ToldOk, CodeOk, Codes
  <2> QED
    BY <2>1, <2>2
<1>3. told[c] \o ecs = ecs
  BY <1>2
<1>4. told' = [told EXCEPT ![c] = ecs]
  BY <1>3 DEF Tell
<1>5. /\ told' \in Seq(Seq(Codes)) /\ Len(told') = Len(call') /\ told'[c] = ecs
      /\ \A d \in Calls : d # c => told'[d] = told[d]
  BY <1>1, <1>2, <1>4 DEF Calls
<1>6. Truth
  <2> SUFFICES ASSUME NEW d \in Calls, NEW k \in (Len(told[d]) + 1)..Len(told'[d])
               PROVE  \/ told'[d][k] \in {"Error", "LostConnection"}
                      \/ Supports(told'[d][k], call[d]) \subseteq Now(d)
    BY DEF Truth, Answers
  <2>1. d = c
    <3>1. Len(told[d]) \in Nat
      BY <1>1 DEF Calls
    <3> QED
      BY <1>5, <3>1
  <2>2. Len(told[c]) = 0
    OBVIOUS
  <2>3. k \in 1..Len(ecs)
    BY <1>5, <2>1, <2>2
  <2>4. CASE ecs = <<"Error", "Error">>
    BY SMTT(30), <1>5, <2>1, <2>3, <2>4
  <2>5. CASE \E ec : ecs = <<ec>> /\ CodeOk(ec, call[c], F)
    <3>1. PICK ec : ecs = <<ec>> /\ CodeOk(ec, call[c], F)
      BY <2>5
    <3>2. told'[c][k] = ec
      BY <1>5, <2>3, <3>1
    <3> QED
      BY <2>1, <3>1, <3>2 DEF CodeOk
  <2> QED
    BY <2>4, <2>5 DEF ToldOk
<1>7. ToldOnce'
  <2> SUFFICES ASSUME NEW d \in Calls, Len(told'[d]) > 1
               PROVE  told'[d] = <<"Error", "Error">> /\ call[d].op = "rmr" /\ ~call[d].sync
    BY DEF ToldOnce, Calls
  <2>1. CASE d # c
    BY <1>5, <2>1 DEF ToldOnce
  <2>2. CASE d = c
    <3>1. \A ec : Len(<<ec>>) = 1
      OBVIOUS
    <3>2. Len(ecs) > 1
      BY <1>5, <2>2
    <3>3. ~\E ec : ecs = <<ec>>
      <4> SUFFICES ASSUME NEW ec, ecs = <<ec>> PROVE FALSE
        OBVIOUS
      <4>1. Len(ecs) = 1
        BY <3>1
      <4> QED
        BY <3>2, <4>1
    <3>4. ecs = <<"Error", "Error">> /\ call[c].op = "rmr" /\ ~call[c].sync
      BY <3>3, Zenon DEF ToldOk
    <3> QED
      BY <1>5, <2>2, <3>4
  <2> QED
    BY <2>1, <2>2
<1> QED
  BY <1>2, <1>5, <1>6, <1>7

\* What a call asks for does not change, and new calls are numbered on.
LEMMA CallsSame ==
  ASSUME call' = call
  PROVE  /\ Calls' = Calls /\ \A c : Path(c)' = Path(c)
         /\ \A e : RequestOk(e)' <=> RequestOk(e)
         /\ \A c : FunctorOk(c)' <=> FunctorOk(c)
         /\ \A w, j : JobOk(w, j)' <=> JobOk(w, j)
BY DEF Calls, Path, RequestOk, FunctorOk, JobOk, StageOk

LEMMA JobsAre ==
  ASSUME Typed, NEW w \in Workers, NEW j \in Jobs, job' = [job EXCEPT ![w] = j]
  PROVE  /\ job' \in [Workers -> Jobs] /\ job'[w] = j
         /\ \A v \in Workers : v # w => job'[v] = job[v]
BY DEF Typed

LEMMA NoJobIs == NoJob \in Jobs /\ NoJob.call = 0
BY DEF NoJob, Jobs, Stages

LEMMA WorkerKept ==
  ASSUME Typed, Requested, Owned, ToldOnce, NEW w \in Workers, job[w].stage # "idle",
         NEW c, c = job[w].call, WorkerEffect(w, c)
  PROVE  Kept
<1>1. /\ c \in Calls /\ told[c] = <<>> /\ OnlyAt(w, c)
      /\ (call[c].sync <=> w = "user")
  BY WorkerCall
<1>2. /\ call' = call /\ answers' = answers /\ functors' = functors /\ others' = others
      /\ TreeStep(c) /\ (Keeps(w, c) \/ Tells(w, c) \/ Sends(w, c))
  BY DEF WorkerEffect
<1>3. /\ Calls' = Calls /\ \A d : Path(d)' = Path(d)
      /\ \A e : RequestOk(e)' <=> RequestOk(e)
      /\ \A d : FunctorOk(d)' <=> FunctorOk(d)
      /\ \A v, j : JobOk(v, j)' <=> JobOk(v, j)
  BY <1>2, CallsSame
<1>4. w \in Places /\ c # 0
  BY <1>1, CallIs DEF Places
<1>5. ~In(sent, c) /\ ~In(answers, c) /\ ~Queued(functors, c)
  BY <1>1, AtIs DEF OnlyAt, Places, Workers
<1>6. \A v \in Workers : v # w => job[v].call # c
  BY <1>1, AtIs DEF OnlyAt, Places, Workers
<1>7. PICK j \in Jobs : /\ job' = [job EXCEPT ![w] = j] /\ JobOk(w, j)
                        /\ (Keeps(w, c) /\ j.call = c) \/ (~Keeps(w, c) /\ j = NoJob)
  BY <1>2, NoJobIs, Zenon DEF Keeps, Tells, Sends, JobOk
<1>8. /\ job' \in [Workers -> Jobs] /\ job'[w] = j
      /\ \A v \in Workers : v # w => job'[v] = job[v]
  BY <1>7, JobsAre
<1>9. \A v \in Workers : JobOk(v, job'[v])
  BY <1>7, <1>8 DEF Requested
<1>10. /\ AnswersFrom /\ PostedFrom /\ Touches /\ Distinct(answers') /\ Different(functors')
  <2>1. AnswersFrom
    BY <1>2, <1>3 DEF AnswersFrom
  <2>2. Touches
    BY <1>1, <1>2 DEF Touches, TreeStep, Underway
  <2>3. PostedFrom
    <3>1. ASSUME NEW d \in Calls, Posted(d)' PROVE Posted(d)
      <4>1. Queued(functors, d) \/ job'["second"].call = d
        BY <1>2, <3>1 DEF Posted, Queued
      <4>2. job'["second"].call = d => job["second"].call = d
        BY <1>7, <1>8, <3>1, CallIs, NoJobIs DEF Workers
      <4> QED
        BY <4>1, <4>2 DEF Posted
    <3> QED
      BY <1>2, <1>3, <3>1 DEF PostedFrom
  <2> QED
    BY <1>2, <2>1, <2>2, <2>3 DEF Owned
<1>11. \A d, v : d # c /\ d # 0 /\ v \in Workers => ((job'[v].call = d) <=> (job[v].call = d))
  BY <1>7, <1>8, NoJobIs
<1>12. \A d \in Calls : d # 0
  BY CallIs
<1>13. /\ TreeOk(tree') /\ connected' \in BOOLEAN /\ others' \in Nat /\ call' \in Seq(Requests)
       /\ answers' \in Seq(Answer) /\ functors' \in Seq(Nat) /\ job' \in [Workers -> Jobs]
       /\ sent \in Seq(Entry) /\ told \in Seq(Seq(Codes)) /\ Len(told) = Len(call')
       /\ Distinct(sent)
  BY <1>2, <1>8 DEF TreeStep, Typed, Owned
<1>14. /\ \A k \in 1..Len(sent) : RequestOk(sent[k])
       /\ \A k \in 1..Len(answers') : RequestOk(answers'[k])
       /\ \A k \in 1..Len(functors') : FunctorOk(functors'[k])
  BY <1>2 DEF Requested
<1>15. ASSUME sent' \in Seq(Entry), \A k \in 1..Len(sent') : RequestOk(sent'[k]),
              told' \in Seq(Seq(Codes)), Len(told') = Len(call')
       PROVE  Typed' /\ Requested'
  <2>1. Typed'
    BY <1>13, <1>15 DEF Typed, TreeOk
  <2>2. Requested'
    BY <1>3, <1>9, <1>14, <1>15 DEF Requested
  <2> QED
    BY <2>1, <2>2
<1>16. CASE Keeps(w, c)
  <2>1. told' = told /\ sent' = sent /\ job'[w].call = c
    BY <1>7, <1>8, <1>16 DEF Keeps
  <2>2. \A d \in Calls : Same(d)
    BY <1>2, <1>6, <1>8, <1>11, <1>12, <2>1 DEF Same
  <2>3. Owned'
    BY <1>1, <1>3, <1>10, <1>13, <2>1, <2>2, OwnedKept, SameKept DEF Owned
  <2>4. Truth /\ ToldOnce'
    BY <1>2, <1>3, <2>1, NothingTold
  <2> QED
    BY <1>10, <1>13, <1>14, <1>15, <2>1, <2>3, <2>4 DEF Kept
<1>17. CASE Tells(w, c)
  <2>1. PICK ecs : Tell(c, ecs) /\ ToldOk(ecs, c, Now(c))
    BY <1>17 DEF Tells
  <2>2. /\ told' \in Seq(Seq(Codes)) /\ Len(told') = Len(call') /\ told'[c] # <<>>
        /\ \A d \in Calls : d # c => told'[d] = told[d]
        /\ Truth /\ ToldOnce'
    BY <1>1, <1>2, <2>1, Answering
  <2>3. sent' = sent /\ job'[w].call = 0
    BY <1>8, <1>17, NoJobIs, JobsAre DEF Tells
  <2>4. \A d \in Calls : d # c => Same(d)
    BY <1>2, <1>11, <1>12, <2>2, <2>3 DEF Same
  <2>5. OneOf(c)'
    <3>1. \A v \in Workers : job'[v].call # c
      BY <1>4, <1>6, <1>8, <2>3
    <3>2. Nowhere(c)'
      BY <1>2, <1>5, <2>3, <3>1, AtIs DEF Nowhere, Workers
    <3> QED
      BY <2>2, <3>2 DEF OneOf
  <2>6. Owned'
    BY <1>3, <1>10, <1>13, <2>3, <2>4, <2>5, OwnedKept
  <2> QED
    BY <1>10, <1>13, <1>14, <1>15, <2>2, <2>3, <2>6 DEF Kept
<1>18. CASE Sends(w, c)
  <2>1. told' = told /\ w = "second" /\ job'[w].call = 0
    BY <1>18, NoJobIs, JobsAre DEF Sends
  <2>2. PICK op \in Ops : Submit(c, op) /\ Serves(op, call[c].op)
    BY <1>18 DEF Sends
  <2> DEFINE e == [call |-> c, op |-> op]
  <2>3. e \in Entry /\ e.call = c /\ sent' = Append(sent, e) /\ RequestOk(e)
    BY <1>1, <2>1, <2>2, CallIs DEF Entry, Submit, RequestOk
  <2> HIDE DEF e
  <2>4. /\ sent' \in Seq(Entry) /\ Len(sent') = Len(sent) + 1
        /\ \A k \in 1..Len(sent) : sent'[k] = sent[k]
        /\ sent'[Len(sent) + 1] = e
        /\ \A d : In(sent', d) <=> In(sent, d) \/ d = c
        /\ Distinct(sent')
    BY <1>5, <1>13, <2>3, Appended
  <2>5. \A k \in 1..Len(sent') : RequestOk(sent'[k])
    <3>1. \A k \in 1..Len(sent') : k \in 1..Len(sent) \/ k = Len(sent) + 1
      BY <1>13, <2>4
    <3> QED
      BY <1>14, <2>3, <2>4, <3>1
  <2>6. \A d \in Calls : d # c => Same(d)
    BY <1>2, <1>11, <1>12, <2>1, <2>4 DEF Same
  <2>7. OneOf(c)'
    <3>1. \A v \in Workers : job'[v].call # c
      BY <1>4, <1>6, <1>8, <2>1
    <3>2. OnlyAt("sent", c)' /\ "sent" \in Places
      BY <1>2, <1>5, <2>4, <3>1, AtIs DEF OnlyAt, Workers, Places
    <3> QED
      BY <1>1, <2>1, <3>2 DEF OneOf, Places
  <2>8. Owned'
    BY <1>3, <1>10, <2>4, <2>6, <2>7, OwnedKept
  <2>9. Truth /\ ToldOnce'
    BY <1>2, <1>3, <2>1, NothingTold
  <2> QED
    BY <1>10, <1>13, <1>15, <2>1, <2>4, <2>5, <2>8, <2>9 DEF Kept
<1> QED
  BY <1>2, <1>16, <1>17, <1>18

\* A step that changes no node touches none.
LEMMA NothingTouched ==
  ASSUME tree' = tree
  PROVE  Touches
BY DEF Touches

LEMMA NewCallIs ==
  ASSUME Typed, Requested, ToldOnce, NEW r \in Requests, NewCall(r), NEW n, n = Len(call) + 1
  PROVE  /\ n \in Nat /\ n # 0 /\ n \notin Calls /\ Calls' = Calls \cup {n}
         /\ call' \in Seq(Requests) /\ call'[n] = r /\ \A d \in Calls : call'[d] = call[d]
         /\ told' \in Seq(Seq(Codes)) /\ Len(told') = Len(call') /\ told'[n] = <<>>
         /\ \A d \in Calls : told'[d] = told[d]
         /\ \A e : RequestOk(e) => RequestOk(e)'
         /\ \A d : FunctorOk(d) => FunctorOk(d)'
         /\ \A w, j : JobOk(w, j) => JobOk(w, j)'
         /\ ~In(sent, n) /\ ~In(answers, n) /\ ~Queued(functors, n)
         /\ \A w \in Workers : job[w].call # n
         /\ AnswersFrom /\ Touches /\ Truth /\ ToldOnce'
<1>1. /\ call \in Seq(Requests) /\ told \in Seq(Seq(Codes)) /\ Len(told) = Len(call)
      /\ Len(call) \in Nat /\ <<>> \in Seq(Codes)
  BY DEF Typed
<1>2. call' = Append(call, r) /\ told' = Append(told, <<>>)
  BY DEF NewCall
<1>3. /\ call' \in Seq(Requests) /\ Len(call') = Len(call) + 1 /\ call'[n] = r
      /\ \A d \in 1..Len(call) : call'[d] = call[d]
  BY <1>1, <1>2, AppendProperties
<1>4. /\ told' \in Seq(Seq(Codes)) /\ Len(told') = Len(call) + 1 /\ told'[n] = <<>>
      /\ \A d \in 1..Len(call) : told'[d] = told[d]
  BY <1>1, <1>2, AppendProperties
<1>5. n \in Nat /\ n # 0 /\ n \notin Calls /\ Calls' = Calls \cup {n}
  BY <1>1, <1>3 DEF Calls
<1>6. \A d \in Calls : d \in Calls' /\ call'[d] = call[d] /\ told'[d] = told[d] /\ Path(d)' = Path(d)
  BY <1>3, <1>4, <1>5 DEF Calls, Path
<1>7. \A e : RequestOk(e) => RequestOk(e)'
  BY <1>6 DEF RequestOk
<1>8. \A d : FunctorOk(d) => FunctorOk(d)'
  BY <1>6 DEF FunctorOk
<1>9. \A w, j : JobOk(w, j) => JobOk(w, j)'
  <2> SUFFICES ASSUME NEW w, NEW j, JobOk(w, j) PROVE JobOk(w, j)'
    OBVIOUS
  <2>1. CASE j = NoJob
    BY <2>1 DEF JobOk
  <2>2. CASE j.call \in Calls /\ StageOk(w, j) /\ (call[j.call].sync <=> w = "user")
    <3>1. j.call \in Calls' /\ call'[j.call] = call[j.call] /\ Path(j.call)' = Path(j.call)
      BY <1>6, <2>2
    <3>2. StageOk(w, j)'
      BY <2>2, <3>1 DEF StageOk
    <3> QED
      BY <2>2, <3>1, <3>2 DEF JobOk
  <2> QED
    BY <2>1, <2>2 DEF JobOk
<1>10. ~In(sent, n) /\ ~In(answers, n) /\ ~Queued(functors, n)
  BY <1>5 DEF Requested, RequestOk, FunctorOk, In, Queued
<1>11. \A w \in Workers : job[w].call # n
  BY <1>5, NoJobIs DEF Requested, JobOk
<1>12. AnswersFrom /\ Touches
  <2>1. tree' = tree /\ answers' = answers
    BY DEF NewCall, world
  <2> QED
    BY <1>6, <2>1, NothingTouched DEF AnswersFrom
<1>13. Truth /\ ToldOnce'
  BY <1>4, <1>5, <1>6, NothingTold
<1> QED
  BY <1>1, <1>3, <1>4, <1>5, <1>6, <1>7, <1>8, <1>9, <1>10, <1>11, <1>12, <1>13

LEMMA AsyncKept ==
  ASSUME Typed, Requested, Owned, ToldOnce, NEW r, NEW op, Async(r, op)
  PROVE  Kept
<1>1. PICK n : n = Len(call) + 1
  OBVIOUS
<1>2. /\ r \in Requests /\ r.op = op /\ ~r.sync /\ NewCall(r) /\ Submit(n, op) /\ job' = job
  BY <1>1 DEF Async
<1>3. /\ n \in Nat /\ n # 0 /\ n \notin Calls /\ Calls' = Calls \cup {n}
      /\ call' \in Seq(Requests) /\ call'[n] = r
      /\ told' \in Seq(Seq(Codes)) /\ Len(told') = Len(call') /\ told'[n] = <<>>
      /\ \A d \in Calls : told'[d] = told[d]
      /\ ~In(sent, n) /\ ~In(answers, n) /\ ~Queued(functors, n)
      /\ \A w \in Workers : job[w].call # n
      /\ AnswersFrom /\ Touches /\ Truth /\ ToldOnce'
  BY <1>1, <1>2, NewCallIs
<1>4. /\ \A e : RequestOk(e) => RequestOk(e)'
      /\ \A d : FunctorOk(d) => FunctorOk(d)'
      /\ \A w, j : JobOk(w, j) => JobOk(w, j)'
  BY <1>1, <1>2, NewCallIs
<1>5. UNCHANGED <<tree, connected, others, answers, functors>>
  BY <1>2 DEF NewCall, world
<1> DEFINE e == [call |-> n, op |-> op]
<1>6. e \in Entry /\ e.call = n /\ sent' = Append(sent, e) /\ RequestOk(e)'
  <2>1. op \in Ops
    BY <1>2, OperationsAssumption
  <2> QED
    BY <1>2, <1>3, <2>1 DEF Entry, Submit, RequestOk, Serves
<1> HIDE DEF e
<1>7. /\ sent \in Seq(Entry) /\ Distinct(sent)
      /\ \A k \in 1..Len(sent) : RequestOk(sent[k])
  BY DEF Typed, Owned, Requested
<1>8. /\ sent' \in Seq(Entry) /\ Len(sent') = Len(sent) + 1
      /\ \A k \in 1..Len(sent) : sent'[k] = sent[k]
      /\ sent'[Len(sent) + 1] = e
      /\ \A d : In(sent', d) <=> In(sent, d) \/ d = n
      /\ Distinct(sent')
  BY SMTT(30), <1>3, <1>6, <1>7, Appended
<1>9. Typed'
  BY <1>2, <1>3, <1>5, <1>8 DEF Typed, TreeOk
<1>10. Requested'
  <2>1. \A k \in 1..Len(sent') : k \in 1..Len(sent) \/ k = Len(sent) + 1
    BY <1>7, <1>8
  <2>2. ASSUME NEW k \in 1..Len(sent') PROVE RequestOk(sent[k])'
    BY <1>4, <1>6, <1>7, <1>8, <2>1
  <2> QED
    BY <1>2, <1>4, <1>5, <2>2 DEF Requested
<1>11. \A d \in Calls' : d # n => d \in Calls /\ Same(d)
  BY <1>2, <1>3, <1>5, <1>8 DEF Same
<1>12. OneOf(n)'
  <2>1. OnlyAt("sent", n)' /\ "sent" \in Places
    BY <1>2, <1>3, <1>5, <1>8, AtIs DEF OnlyAt, Places, Workers
  <2> QED
    BY <1>3, <2>1 DEF OneOf, Places
<1>13. Distinct(answers') /\ Different(functors')
  BY <1>5 DEF Owned
<1>14. Owned'
  BY <1>8, <1>11, <1>12, <1>13, OwnedKept
<1>15. PostedFrom
  <2>1. \A d \in Calls' : d # 0
    BY <1>3, CallIs
  <2>2. \A d \in Calls : call'[d] = call[d]
    BY <1>1, <1>2, NewCallIs
  <2> QED
    BY <1>2, <1>5, <2>1, <2>2, SamePosted
<1> QED
  BY <1>3, <1>9, <1>10, <1>14, <1>15 DEF Kept

LEMMA CallSyncKept ==
  ASSUME Typed, Requested, Owned, ToldOnce, NEW r, CallSync(r)
  PROVE  Kept
<1>1. PICK n : n = Len(call) + 1
  OBVIOUS
<1> DEFINE j == [call |-> n, at |-> r.path, stage |-> IF r.op = "rmr" THEN "rmr" ELSE "once",
                 stack |-> IF r.op = "rmr" THEN <<Frame(r.path)>> ELSE <<>>]
<1>2. /\ r \in Requests /\ r.sync /\ job["user"] = NoJob /\ NewCall(r) /\ sent' = sent
      /\ job' = [job EXCEPT !["user"] = j]
  BY <1>1 DEF CallSync
<1>3. /\ n \in Nat /\ n # 0 /\ n \notin Calls /\ Calls' = Calls \cup {n}
      /\ call' \in Seq(Requests) /\ call'[n] = r
      /\ told' \in Seq(Seq(Codes)) /\ Len(told') = Len(call') /\ told'[n] = <<>>
      /\ \A d \in Calls : told'[d] = told[d]
      /\ ~In(sent, n) /\ ~In(answers, n) /\ ~Queued(functors, n)
      /\ \A w \in Workers : job[w].call # n
      /\ AnswersFrom /\ Touches /\ Truth /\ ToldOnce'
  BY <1>1, <1>2, NewCallIs
<1>4. /\ \A e : RequestOk(e) => RequestOk(e)'
      /\ \A d : FunctorOk(d) => FunctorOk(d)'
      /\ \A w, k : JobOk(w, k) => JobOk(w, k)'
  BY <1>1, <1>2, NewCallIs
<1>5. UNCHANGED <<tree, connected, others, answers, functors>>
  BY <1>2 DEF NewCall, world
<1>6. r.path \in Seq(Names) /\ r.op \in Ops
  BY <1>2, OperationsAssumption
<1>7. StackOk(r.path, <<Frame(r.path)>>)
  <2>1. Frame(r.path) \in Frames /\ Frame(r.path).path = r.path /\ Frame(r.path).todo = {}
    BY <1>6, FrameIs
  <2>2. <<>> \in Seq(Frames) /\ Append(<<>>, Frame(r.path)) = <<Frame(r.path)>>
    BY <2>1
  <2>3. StackOk(r.path, Append(<<>>, Frame(r.path)))
    BY <2>1, <2>2, FrameAbove
  <2> QED
    BY <2>2, <2>3
<1>8. /\ j \in Jobs /\ j.call = n /\ j.stage = IF r.op = "rmr" THEN "rmr" ELSE "once"
      /\ r.op = "rmr" => j.stack = <<Frame(r.path)>>
  <2>1. r.op = "rmr" => <<Frame(r.path)>> \in Seq(Frames)
    BY <1>7 DEF StackOk
  <2> QED
    BY <1>3, <1>6, <2>1 DEF Jobs, Stages
<1> HIDE DEF j
<1>9. JobOk("user", j)'
  <2>1. Path(n)' = r.path /\ call'[n].op = r.op
    BY <1>3 DEF Path
  <2>2. StageOk("user", j)'
    <3>1. CASE r.op = "rmr"
      BY <1>7, <1>8, <2>1, <3>1 DEF StageOk
    <3>2. CASE r.op # "rmr"
      BY <1>8, <2>1, <3>2 DEF StageOk
    <3> QED
      BY <3>1, <3>2
  <2> QED
    BY <1>2, <1>3, <1>8, <2>2 DEF JobOk
<1>10. /\ "user" \in Workers /\ job' \in [Workers -> Jobs] /\ job'["user"] = j
       /\ \A v \in Workers : v # "user" => job'[v] = job[v]
  BY <1>2, <1>8, JobsAre DEF Workers
<1>11. Typed'
  BY <1>2, <1>3, <1>5, <1>10 DEF Typed, TreeOk
<1>12. Requested'
  <2>1. ASSUME NEW v \in Workers PROVE JobOk(v, job[v])'
    BY <1>4, <1>9, <1>10 DEF Requested
  <2> QED
    BY <1>2, <1>4, <1>5, <2>1 DEF Requested
<1>13. \A d \in Calls' : d # n => d \in Calls /\ Same(d)
  <2>1. \A d \in Calls : d # 0 /\ d # n
    BY <1>3, CallIs
  <2> QED
    BY <1>2, <1>3, <1>5, <1>8, <1>10, <2>1, NoJobIs DEF Same
<1>14. OneOf(n)'
  <2>1. OnlyAt("user", n)' /\ "user" \in Places
    BY <1>2, <1>3, <1>5, <1>8, <1>10, AtIs DEF OnlyAt, Places, Workers
  <2> QED
    BY <1>3, <2>1 DEF OneOf, Places
<1>15. Distinct(sent') /\ Distinct(answers') /\ Different(functors')
  BY <1>2, <1>5 DEF Owned
<1>16. Owned'
  BY <1>13, <1>14, <1>15, OwnedKept
<1>17. PostedFrom
  <2>1. \A d \in Calls' : d # 0
    BY <1>3, CallIs
  <2>2. \A d \in Calls : call'[d] = call[d]
    BY <1>1, <1>2, NewCallIs
  <2>3. job'["second"] = job["second"]
    BY <1>10 DEF Workers
  <2> QED
    BY <1>5, <2>1, <2>2, <2>3, SamePosted
<1> QED
  BY <1>3, <1>11, <1>12, <1>16, <1>17 DEF Kept

LEMMA ServesIs ==
  ASSUME NEW op, NEW of, Serves(op, of)
  PROVE  /\ op \in Creates <=> of \in Creates
         /\ op \in Deletes <=> of \in Deletes
         /\ op \in {"mkpath", "rmr"} => of = op
BY DEF Serves, Creates, Deletes

LEMMA ServeKept ==
  ASSUME Typed, Requested, Owned, Witnessed, ToldOnce, Serve
  PROVE  Kept
<1>1. PICK e : e = Head(sent)
  OBVIOUS
<1>2. PICK c : c = e.call
  OBVIOUS
<1> DEFINE rc == ServerRc(tree, e.op, call[c].path, call[c].version)
           a == [call |-> c, op |-> e.op, rc |-> rc]
<1>3. /\ sent # <<>> /\ sent' = Tail(sent) /\ answers' = Append(answers, a)
      /\ tree' = ServerTree(tree, e.op, call[c].path, call[c].version)
      /\ UNCHANGED <<connected, others, faults, call, functors, job, told>>
  BY <1>1, <1>2 DEF Serve
<1>4. /\ sent \in Seq(Entry) /\ Distinct(sent) /\ answers \in Seq(Answer) /\ Distinct(answers)
      /\ \A k \in 1..Len(sent) : RequestOk(sent[k])
      /\ \A k \in 1..Len(answers) : RequestOk(answers[k])
  BY DEF Typed, Owned, Requested
<1>5. /\ e \in Entry /\ Tail(sent) \in Seq(Entry) /\ In(sent, c) /\ e = sent[1] /\ 1 \in 1..Len(sent)
      /\ \A k \in 1..Len(Tail(sent)) : Tail(sent)[k] = sent[k + 1] /\ k + 1 \in 1..Len(sent)
      /\ Distinct(Tail(sent))
      /\ \A d : In(Tail(sent), d) <=> In(sent, d) /\ d # c
  BY <1>1, <1>2, <1>3, <1>4, Removed
<1>6. c \in Calls /\ RequestOk(e) /\ Serves(e.op, call[c].op) /\ e.op \in Ops
  BY <1>2, <1>4, <1>5 DEF RequestOk, Entry
<1>7. told[c] = <<>> /\ OnlyAt("sent", c)
  BY <1>5, <1>6, PlaceIs, AtIs DEF Places
<1>8. ~In(answers, c) /\ ~Queued(functors, c) /\ \A w \in Workers : job[w].call # c
  BY <1>7, AtIs DEF OnlyAt, Places, Workers
<1>9. PathOk(e.op, call[c].path) /\ call[c].path = Path(c)
  BY <1>6, CallIs
<1>10. /\ rc \in Rcs /\ TreeOk(tree')
       /\ Touched(tree, tree', e.op, call[c].path, call[c].version)
       /\ RcTrue(e.op, rc, Now(c))
  <2>1. /\ rc \in Rcs /\ TreeOk(tree')
        /\ Touched(tree, tree', e.op, call[c].path, call[c].version)
        /\ RcTrue(e.op, rc, Facts(tree, call[c].path) \cup Facts(tree', call[c].path))
    BY <1>3, <1>6, <1>9, ServerStep DEF Typed
  <2>2. Facts(tree, call[c].path) \cup Facts(tree', call[c].path) \subseteq Now(c)
    BY <1>6, <1>7, <1>9 DEF Witnessed, Seen, Now
  <2> QED
    BY <2>1, <2>2, MoreFacts
<1>11. a \in Answer /\ a.call = c /\ a.op = e.op /\ a.rc = rc
  BY <1>6, <1>10, CallIs DEF Answer
<1> HIDE DEF rc, a
<1>12. /\ answers' \in Seq(Answer) /\ Len(answers') = Len(answers) + 1
       /\ \A k \in 1..Len(answers) : answers'[k] = answers[k]
       /\ answers'[Len(answers) + 1] = a
       /\ \A d : In(answers', d) <=> In(answers, d) \/ d = c
       /\ Distinct(answers')
  BY <1>3, <1>4, <1>8, <1>11, Appended
<1>13. \A k \in 1..Len(answers') : k \in 1..Len(answers) \/ k = Len(answers) + 1
  BY <1>4, <1>12
<1>14. /\ Calls' = Calls /\ \A d : Path(d)' = Path(d)
       /\ \A x : RequestOk(x)' <=> RequestOk(x)
       /\ \A d : FunctorOk(d)' <=> FunctorOk(d)
       /\ \A v, j : JobOk(v, j)' <=> JobOk(v, j)
  BY <1>3, CallsSame
<1>15. Typed'
  BY <1>3, <1>5, <1>10, <1>12 DEF Typed, TreeOk
<1>16. Requested'
  <2>1. \A k \in 1..Len(sent') : RequestOk(sent'[k])
    BY <1>3, <1>4, <1>5
  <2>2. \A k \in 1..Len(answers') : RequestOk(answers'[k])
    <3>1. RequestOk(a)
      BY <1>2, <1>6, <1>11 DEF RequestOk
    <3> QED
      BY <1>4, <1>12, <1>13, <3>1
  <2> QED
    BY <1>3, <1>14, <2>1, <2>2 DEF Requested
<1>17. Owned'
  <2>1. \A d \in Calls' : d # c => d \in Calls /\ Same(d)
    BY <1>3, <1>5, <1>12, <1>14 DEF Same
  <2>2. OnlyAt("answers", c)' /\ "answers" \in Places
    BY <1>3, <1>5, <1>8, <1>12, AtIs DEF OnlyAt, Places, Workers
  <2>3. OneOf(c)'
    BY <1>3, <1>7, <2>2 DEF OneOf, Places
  <2>4. Distinct(sent') /\ Different(functors')
    BY <1>3, <1>5 DEF Owned
  <2> QED
    BY <1>12, <2>1, <2>3, <2>4, OwnedKept
<1>18. Truth /\ ToldOnce'
  BY <1>3, <1>14, NothingTold
<1>19. AnswersFrom
  <2>1. ASSUME NEW k \in 1..Len(answers')
        PROVE  \/ \E i \in 1..Len(answers) : answers'[k] = answers[i]
               \/ /\ answers'[k].call \in Calls
                  /\ RcTrue(answers'[k].op, answers'[k].rc, Now(answers'[k].call))
    <3>1. CASE k \in 1..Len(answers)
      BY <1>12, <3>1
    <3>2. CASE k = Len(answers) + 1
      BY <1>6, <1>10, <1>11, <1>12, <3>2
    <3> QED
      BY <1>13, <3>1, <3>2
  <2> QED
    BY <1>14, <2>1 DEF AnswersFrom
<1>20. Touches
  BY <1>6, <1>7, <1>9, <1>10, ServesIs DEF Touches, Touched, Underway
<1>21. PostedFrom
  BY <1>3, <1>14, CallIs, SamePosted
<1> QED
  BY <1>15, <1>16, <1>17, <1>18, <1>19, <1>20, <1>21 DEF Kept

LEMMA CompleteKept ==
  ASSUME Typed, Requested, Owned, ToldOnce, Witnessed, Complete
  PROVE  Kept
<1>1. PICK a : a = Head(answers)
  OBVIOUS
<1>2. PICK c : c = a.call
  OBVIOUS
<1>3. /\ answers # <<>> /\ answers' = Tail(answers)
      /\ UNCHANGED <<tree, connected, others, faults, call, sent, job>>
  BY DEF Complete, world
<1>4. /\ answers \in Seq(Answer) /\ Distinct(answers) /\ functors \in Seq(Nat) /\ Different(functors)
      /\ \A k \in 1..Len(answers) : RequestOk(answers[k])
      /\ \A k \in 1..Len(functors) : FunctorOk(functors[k])
  BY DEF Typed, Owned, Requested
<1>5. /\ a \in Answer /\ Tail(answers) \in Seq(Answer) /\ In(answers, c)
      /\ a = answers[1] /\ 1 \in 1..Len(answers)
      /\ \A k \in 1..Len(Tail(answers)) : Tail(answers)[k] = answers[k + 1] /\ k + 1 \in 1..Len(answers)
      /\ Distinct(Tail(answers))
      /\ \A d : In(Tail(answers), d) <=> In(answers, d) /\ d # c
  BY <1>1, <1>2, <1>3, <1>4, Removed
<1>6. c \in Calls /\ ~call[c].sync /\ Serves(a.op, call[c].op)
  BY <1>2, <1>4, <1>5 DEF RequestOk
<1>7. told[c] = <<>> /\ OnlyAt("answers", c)
  BY <1>5, <1>6, PlaceIs, AtIs DEF Places
<1>8. ~In(sent, c) /\ ~Queued(functors, c) /\ \A w \in Workers : job[w].call # c
  BY <1>7, AtIs DEF OnlyAt, Places, Workers
<1>9. RcTrue(a.op, a.rc, seen[c])
  BY <1>2, <1>5 DEF Witnessed, Known
<1>10. /\ Calls' = Calls /\ \A d : Path(d)' = Path(d)
       /\ \A x : RequestOk(x)' <=> RequestOk(x)
       /\ \A d : FunctorOk(d)' <=> FunctorOk(d)
       /\ \A v, j : JobOk(v, j)' <=> JobOk(v, j)
  BY <1>3, CallsSame
<1>11. \/ \E ec : Tell(c, <<ec>>) /\ CodeOk(ec, call[c], seen[c]) /\ UNCHANGED functors
       \/ /\ functors' = Append(functors, c) /\ UNCHANGED told
          /\ a.op \in {"mkpath", "rmr"} /\ (call[c].op = "rmr" => "here" \in seen[c])
  <2>1. /\ CodeOk(Found(a.rc), call[c], seen[c]) /\ CodeOk(Made(a.rc), call[c], seen[c])
        /\ CodeOk(Gone(a.rc), call[c], seen[c])
    BY <1>6, <1>9, ServesIs, CodesAreTrue
  <2>2. \/ a.op = "mkpath" /\ createIfNeedCreateParentsCompletion(c, a.rc)
        \/ a.op = "rmr" /\ deleteRecursiveCompletion(c, a.rc)
        \/ Tell(c, <<AsyncCode(a.op, a.rc)>>) /\ UNCHANGED functors
    BY <1>1, <1>2 DEF Complete
  <2>3. CASE a.op = "mkpath" /\ createIfNeedCreateParentsCompletion(c, a.rc)
    <3>1. call[c].op # "rmr"
      BY <1>6, <2>3, ServesIs
    <3> QED
      BY <2>1, <2>3, <3>1 DEF createIfNeedCreateParentsCompletion
  <2>4. CASE a.op = "rmr" /\ deleteRecursiveCompletion(c, a.rc)
    <3>1. a.rc = "ZNOTEMPTY" => "here" \in seen[c]
      BY <1>9 DEF RcTrue
    <3> QED
      BY <2>1, <2>4, <3>1 DEF deleteRecursiveCompletion
  <2>5. CASE Tell(c, <<AsyncCode(a.op, a.rc)>>) /\ UNCHANGED functors
    <3>1. CodeOk(AsyncCode(a.op, a.rc), call[c], seen[c])
      BY <2>1 DEF AsyncCode, getNodeDataCompletion, getChildrenStringCompletion, existCompletion,
                  setCompletion, createCompletion, deleteCompletion
    <3> QED
      BY <2>5, <3>1
  <2> QED
    BY <2>2, <2>3, <2>4, <2>5
<1>12. AnswersFrom /\ Touches
  <2>1. AnswersFrom
    BY <1>3, <1>5, <1>10 DEF AnswersFrom
  <2> QED
    BY <1>3, <2>1, NothingTouched
<1>13. \A k \in 1..Len(answers') : RequestOk(answers'[k])
  BY <1>3, <1>4, <1>5
<1>14. CASE \E ec : Tell(c, <<ec>>) /\ CodeOk(ec, call[c], seen[c]) /\ UNCHANGED functors
  <2>1. PICK ec : Tell(c, <<ec>>) /\ CodeOk(ec, call[c], seen[c]) /\ UNCHANGED functors
    BY <1>14
  <2>2. ToldOk(<<ec>>, c, seen[c]) /\ seen[c] \subseteq Now(c)
    BY <2>1 DEF ToldOk, Now
  <2>3. /\ told' \in Seq(Seq(Codes)) /\ Len(told') = Len(call') /\ told'[c] # <<>>
        /\ \A d \in Calls : d # c => told'[d] = told[d]
        /\ Truth /\ ToldOnce'
    BY <1>3, <1>6, <1>7, <2>1, <2>2, Answering
  <2>4. Typed'
    BY <1>3, <1>5, <2>1, <2>3 DEF Typed, TreeOk
  <2>5. Requested'
    BY <1>3, <1>10, <1>13, <2>1 DEF Requested
  <2>6. \A d \in Calls' : d # c => d \in Calls /\ Same(d)
    BY <1>3, <1>5, <1>10, <2>1, <2>3 DEF Same
  <2>7. OneOf(c)'
    <3>1. Nowhere(c)'
      BY <1>3, <1>5, <1>8, <2>1, AtIs DEF Nowhere, Workers
    <3> QED
      BY <2>3, <3>1 DEF OneOf
  <2>8. Distinct(sent') /\ Distinct(answers') /\ Different(functors')
    BY <1>3, <1>5, <2>1 DEF Owned
  <2>9. Owned'
    BY <2>6, <2>7, <2>8, OwnedKept
  <2>10. PostedFrom
    BY <1>3, <1>10, <2>1, CallIs, SamePosted
  <2> QED
    BY <1>12, <2>3, <2>4, <2>5, <2>9, <2>10 DEF Kept
<1>15. CASE /\ functors' = Append(functors, c) /\ told' = told
            /\ a.op \in {"mkpath", "rmr"} /\ (call[c].op = "rmr" => "here" \in seen[c])
  <2>1. c \in Nat /\ FunctorOk(c)
    BY <1>6, <1>15, ServesIs, CallIs DEF FunctorOk
  <2>2. /\ functors' \in Seq(Nat)
        /\ \A k \in 1..Len(functors') : functors'[k] = c \/ Queued(functors, functors'[k])
        /\ \A d : Queued(functors', d) <=> Queued(functors, d) \/ d = c
        /\ Different(functors')
    BY <1>4, <1>8, <1>15, <2>1, FunctorAppended
  <2>3. \A k \in 1..Len(functors') : FunctorOk(functors'[k])
    BY <1>4, <2>1, <2>2 DEF Queued
  <2>4. Typed'
    BY <1>3, <1>5, <1>15, <2>2 DEF Typed, TreeOk
  <2>5. Requested'
    BY <1>3, <1>10, <1>13, <2>3 DEF Requested
  <2>6. \A d \in Calls' : d # c => d \in Calls /\ Same(d)
    BY <1>3, <1>5, <1>10, <1>15, <2>2 DEF Same
  <2>7. OneOf(c)'
    <3>1. OnlyAt("functors", c)' /\ "functors" \in Places
      BY <1>3, <1>5, <1>8, <2>2, AtIs DEF OnlyAt, Places, Workers
    <3> QED
      BY <1>7, <1>15, <3>1 DEF OneOf, Places
  <2>8. Distinct(sent') /\ Distinct(answers')
    BY <1>3, <1>5 DEF Owned
  <2>9. Owned'
    BY <2>2, <2>6, <2>7, <2>8, OwnedKept
  <2>10. Truth /\ ToldOnce'
    BY <1>3, <1>10, <1>15, NothingTold
  <2>11. PostedFrom
    <3> SUFFICES ASSUME NEW d \in Calls, Posted(d)'
                 PROVE  Posted(d) \/ call[d].op # "rmr" \/ "here" \in seen[d]
      BY <1>3, <1>10 DEF PostedFrom
    <3>1. Queued(functors', d) \/ job["second"].call = d
      BY <1>3 DEF Posted, Queued
    <3> QED
      BY <1>15, <2>2, <3>1 DEF Posted
  <2> QED
    BY <1>12, <2>4, <2>5, <2>9, <2>10, <2>11 DEF Kept
<1> QED
  BY <1>11, <1>14, <1>15

\* What the requests s are answered when the connection is lost.
LEMMA LossIs ==
  ASSUME NEW s \in Seq(Entry), NEW l,
         l = [k \in 1..Len(s) |-> [call |-> s[k].call, op |-> s[k].op, rc |-> "ZCONNECTIONLOSS"]]
  PROVE  /\ l \in Seq(Answer) /\ Len(l) = Len(s)
         /\ \A k \in 1..Len(s) : /\ l[k].call = s[k].call /\ l[k].op = s[k].op
                                 /\ l[k].rc = "ZCONNECTIONLOSS"
<1>1. \A k \in 1..Len(s) : /\ l[k].call = s[k].call /\ l[k].op = s[k].op
                           /\ l[k].rc = "ZCONNECTIONLOSS" /\ l[k] \in Answer
  <2> SUFFICES ASSUME NEW k \in 1..Len(s)
               PROVE  /\ l[k].call = s[k].call /\ l[k].op = s[k].op
                      /\ l[k].rc = "ZCONNECTIONLOSS" /\ l[k] \in Answer
    OBVIOUS
  <2>1. s[k] \in Entry
    OBVIOUS
  <2> QED
    BY <2>1 DEF Entry, Answer, Rcs
<1>2. l \in Seq(Answer) /\ Len(l) = Len(s) /\ Len(s) \in Nat
  <2>1. l = [k \in 1..Len(s) |-> l[k]] /\ Len(s) \in Nat
    OBVIOUS
  <2>2. l \in [1..Len(s) -> Answer]
    BY <1>1, <2>1
  <2>3. l \in Seq(Answer)
    BY ZenonT(40), <2>1, <2>2, SeqDef
  <2>4. Len(l) \in Nat /\ 1..Len(l) = 1..Len(s)
    BY <2>2, <2>3, LenProperties
  <2>5. \A m, n \in Nat : 1..m = 1..n => m = n
    <3> SUFFICES ASSUME NEW m \in Nat, NEW n \in Nat, 1..m = 1..n PROVE m = n
      OBVIOUS
    <3>1. (m = 0 \/ m \in 1..n) /\ (n = 0 \/ n \in 1..m)
      OBVIOUS
    <3>2. (m = 0 \/ m <= n) /\ (n = 0 \/ n <= m)
      BY <3>1
    <3> QED
      BY <3>2
  <2> QED
    BY <2>1, <2>3, <2>4, <2>5
<1> QED
  BY <1>1, <1>2

(* The answers p are those of q, and the losses of the requests s. *)
LossAppended(p, q, s) ==
    \A k \in 1..Len(p) :
        \/ k \in 1..Len(q) /\ p[k] = q[k]
        \/ \E i \in 1..Len(s) : /\ p[k].call = s[i].call /\ p[k].op = s[i].op
                                /\ p[k].rc = "ZCONNECTIONLOSS"

\* The answers that a loss of the connection appends.
LEMMA LossAnswers ==
  ASSUME NEW q \in Seq(Answer), NEW s \in Seq(Entry), NEW l \in Seq(Answer), Len(l) = Len(s),
         \A k \in 1..Len(s) : /\ l[k].call = s[k].call /\ l[k].op = s[k].op
                              /\ l[k].rc = "ZCONNECTIONLOSS",
         NEW p, p = q \o l, Distinct(q), Distinct(s), \A c : ~(In(q, c) /\ In(s, c))
  PROVE  /\ p \in Seq(Answer) /\ Distinct(p)
         /\ \A c : In(p, c) <=> In(q, c) \/ In(s, c)
         /\ LossAppended(p, q, s)
<1>1. \A k \in 1..Len(s) : /\ l[k].call = s[k].call /\ l[k].op = s[k].op
                           /\ l[k].rc = "ZCONNECTIONLOSS"
  OBVIOUS
<1>2. Len(l) = Len(s) /\ Len(s) \in Nat /\ Len(q) \in Nat
  OBVIOUS
<1>3. /\ p \in Seq(Answer) /\ Len(p) = Len(q) + Len(s)
      /\ \A k \in 1..Len(p) : p[k] = IF k <= Len(q) THEN q[k] ELSE l[k - Len(q)]
  BY <1>2, ConcatProperties
<1>4. \A k \in 1..Len(p) :
         \/ k \in 1..Len(q) /\ p[k] = q[k]
         \/ ~(k <= Len(q)) /\ k - Len(q) \in 1..Len(s) /\ p[k] = l[k - Len(q)]
  BY <1>2, <1>3
<1>5. /\ \A k \in 1..Len(q) : k \in 1..Len(p) /\ p[k] = q[k]
      /\ \A i \in 1..Len(s) : i + Len(q) \in 1..Len(p) /\ p[i + Len(q)] = l[i]
  <2>1. \A k \in 1..Len(q) : k \in 1..Len(p) /\ k <= Len(q)
    BY <1>2, <1>3
  <2>2. \A i \in 1..Len(s) : /\ i + Len(q) \in 1..Len(p) /\ ~(i + Len(q) <= Len(q))
                             /\ i + Len(q) - Len(q) = i
    BY <1>2, <1>3
  <2>3. ASSUME NEW i \in 1..Len(s)
        PROVE  i + Len(q) \in 1..Len(p) /\ p[i + Len(q)] = l[i]
    <3>1. PICK k \in 1..Len(p) : k = i + Len(q) /\ ~(k <= Len(q)) /\ k - Len(q) = i
      BY <2>2
    <3>2. p[k] = l[k - Len(q)]
      BY <1>3, <3>1
    <3> QED
      BY <3>1, <3>2
  <2> QED
    BY <1>3, <2>1, <2>3
<1>6. \A c : In(p, c) <=> In(q, c) \/ In(s, c)
  <2> SUFFICES ASSUME NEW c PROVE In(p, c) <=> In(q, c) \/ In(s, c)
    OBVIOUS
  <2>1. In(p, c) => In(q, c) \/ In(s, c)
    <3> SUFFICES ASSUME NEW k \in 1..Len(p), p[k].call = c PROVE In(q, c) \/ In(s, c)
      BY DEF In
    <3>1. CASE k \in 1..Len(q) /\ p[k] = q[k]
      BY <3>1 DEF In
    <3>2. CASE k - Len(q) \in 1..Len(s) /\ p[k] = l[k - Len(q)]
      <4>1. s[k - Len(q)].call = c
        BY <1>1, <3>2
      <4> QED
        BY <3>2, <4>1 DEF In
    <3> QED
      BY <1>4, <3>1, <3>2
  <2>2. In(q, c) => In(p, c)
    BY <1>5 DEF In
  <2>3. In(s, c) => In(p, c)
    <3> SUFFICES ASSUME NEW i \in 1..Len(s), s[i].call = c PROVE In(p, c)
      BY DEF In
    <3>1. i + Len(q) \in 1..Len(p) /\ p[i + Len(q)].call = c
      BY <1>1, <1>5
    <3> QED
      BY <3>1 DEF In
  <2> QED
    BY <2>1, <2>2, <2>3
<1>7. Distinct(p)
  <2> SUFFICES ASSUME NEW i \in 1..Len(p), NEW j \in 1..Len(p), p[i].call = p[j].call PROVE i = j
    BY DEF Distinct
  <2>1. ASSUME NEW x \in 1..Len(p), NEW y \in 1..Len(p), p[x].call = p[y].call,
               x \in 1..Len(q), p[x] = q[x], y - Len(q) \in 1..Len(s), p[y] = l[y - Len(q)]
        PROVE  FALSE
    <3>1. s[y - Len(q)].call = p[y].call /\ q[x].call = p[y].call
      BY <1>1, <2>1
    <3>2. In(s, p[y].call)
      BY <2>1, <3>1 DEF In
    <3>3. In(q, p[y].call)
      BY <2>1, <3>1 DEF In
    <3> QED
      BY <3>2, <3>3
  <2>2. CASE i \in 1..Len(q) /\ p[i] = q[i] /\ j \in 1..Len(q) /\ p[j] = q[j]
    BY <2>2 DEF Distinct
  <2>3. CASE /\ i - Len(q) \in 1..Len(s) /\ p[i] = l[i - Len(q)]
             /\ j - Len(q) \in 1..Len(s) /\ p[j] = l[j - Len(q)]
    <3>1. s[i - Len(q)].call = s[j - Len(q)].call
      BY <1>1, <2>3
    <3>2. i - Len(q) = j - Len(q)
      BY <2>3, <3>1 DEF Distinct
    <3>3. \A x, y, z \in Int : x - z = y - z => x = y
      OBVIOUS
    <3> QED
      BY <1>2, <3>2, <3>3
  <2> QED
    BY <1>4, <2>1, <2>2, <2>3
<1>8. \A k \in 1..Len(p) :
         \/ k \in 1..Len(q) /\ p[k] = q[k]
         \/ \E i \in 1..Len(s) : /\ p[k].call = s[i].call /\ p[k].op = s[i].op
                                 /\ p[k].rc = "ZCONNECTIONLOSS"
  <2> SUFFICES ASSUME NEW k \in 1..Len(p)
               PROVE  \/ k \in 1..Len(q) /\ p[k] = q[k]
                      \/ \E i \in 1..Len(s) : /\ p[k].call = s[i].call /\ p[k].op = s[i].op
                                              /\ p[k].rc = "ZCONNECTIONLOSS"
    OBVIOUS
  <2>1. CASE k \in 1..Len(q) /\ p[k] = q[k]
    BY <2>1
  <2>2. CASE k - Len(q) \in 1..Len(s) /\ p[k] = l[k - Len(q)]
    <3>1. PICK i \in 1..Len(s) : p[k] = l[i]
      BY <2>2
    <3> QED
      BY <1>1, <3>1
  <2> QED
    BY <1>4, <2>1, <2>2
<1> QED
  BY <1>3, <1>6, <1>7, <1>8 DEF LossAppended

LEMMA LoseConnectionKept ==
  ASSUME Typed, Requested, Owned, ToldOnce, LoseConnection
  PROVE  Kept
<1> DEFINE l == [k \in 1..Len(sent) |->
                    [call |-> sent[k].call, op |-> sent[k].op, rc |-> "ZCONNECTIONLOSS"]]
<1>1. /\ connected /\ connected' = FALSE /\ sent' = <<>> /\ answers' = answers \o l
      /\ UNCHANGED <<others, call, functors, job, told>>
  BY DEF LoseConnection
<1>2. PICK n \in 0..Len(sent) : tree' = Executed(n)
  BY DEF LoseConnection
<1>3. /\ sent \in Seq(Entry) /\ Distinct(sent) /\ answers \in Seq(Answer) /\ Distinct(answers)
      /\ \A k \in 1..Len(sent) : RequestOk(sent[k])
      /\ \A k \in 1..Len(answers) : RequestOk(answers[k])
  BY DEF Typed, Owned, Requested
<1>4. \A c : In(sent, c) => c \in Calls /\ told[c] = <<>> /\ OnlyAt("sent", c)
  <2> SUFFICES ASSUME NEW c, In(sent, c) PROVE c \in Calls /\ told[c] = <<>> /\ OnlyAt("sent", c)
    OBVIOUS
  <2>1. c \in Calls
    BY <1>3 DEF In, RequestOk
  <2> QED
    BY <2>1, PlaceIs, AtIs DEF Places
<1>5. \A c : In(sent, c) => ~In(answers, c) /\ ~Queued(functors, c)
                            /\ \A w \in Workers : job[w].call # c
  BY <1>4, AtIs DEF OnlyAt, Places, Workers
<1> HIDE DEF l
<1>6. /\ answers' \in Seq(Answer) /\ Distinct(answers')
      /\ \A c : In(answers', c) <=> In(answers, c) \/ In(sent, c)
      /\ \A k \in 1..Len(answers') :
            \/ k \in 1..Len(answers) /\ answers'[k] = answers[k]
            \/ \E i \in 1..Len(sent) : /\ answers'[k].call = sent[i].call /\ answers'[k].op = sent[i].op
                                       /\ answers'[k].rc = "ZCONNECTIONLOSS"
  <2>1. /\ l \in Seq(Answer) /\ Len(l) = Len(sent)
        /\ \A k \in 1..Len(sent) : /\ l[k].call = sent[k].call /\ l[k].op = sent[k].op
                                   /\ l[k].rc = "ZCONNECTIONLOSS"
    <3>1. \A m : m = [k \in 1..Len(sent) |-> [call |-> sent[k].call, op |-> sent[k].op,
                                              rc |-> "ZCONNECTIONLOSS"]]
               => /\ m \in Seq(Answer) /\ Len(m) = Len(sent)
                  /\ \A k \in 1..Len(sent) : /\ m[k].call = sent[k].call /\ m[k].op = sent[k].op
                                             /\ m[k].rc = "ZCONNECTIONLOSS"
      BY <1>3, LossIs
    <3> QED
      BY <3>1 DEF l
  <2>2. \A c : ~(In(answers, c) /\ In(sent, c))
    BY <1>5
  <2> QED
    <3>1. PICK p : p = answers \o l
      OBVIOUS
    <3>2. /\ p \in Seq(Answer) /\ Distinct(p)
          /\ \A c : In(p, c) <=> In(answers, c) \/ In(sent, c)
          /\ LossAppended(p, answers, sent)
      BY <1>3, <2>1, <2>2, <3>1, LossAnswers
    <3>3. answers' = p
      BY <1>1, <3>1
    <3> QED
      BY <3>2, <3>3 DEF LossAppended
<1>7. /\ Calls' = Calls /\ \A d : Path(d)' = Path(d)
      /\ \A x : RequestOk(x)' <=> RequestOk(x)
      /\ \A d : FunctorOk(d)' <=> FunctorOk(d)
      /\ \A v, j : JobOk(v, j)' <=> JobOk(v, j)
  BY <1>1, CallsSame
<1>8. Within(tree', n)
  BY <1>2, ExecutedIs
<1>9. sent' \in Seq(Entry) /\ Len(sent') = 0 /\ Distinct(sent') /\ \A c : ~In(sent', c)
  <2>1. <<>> \in Seq(Entry) /\ Len(<<>>) = 0 /\ 1..0 = {}
    OBVIOUS
  <2> QED
    BY <1>1, <2>1 DEF Distinct, In
<1>10. Typed'
  BY <1>1, <1>6, <1>8, <1>9 DEF Typed, Within, TreeOk
<1>11. Requested'
  <2>1. \A k \in 1..Len(answers') : RequestOk(answers'[k])
    BY <1>3, <1>6 DEF RequestOk
  <2>2. \A k \in 1..Len(sent') : RequestOk(sent'[k])
    BY <1>9
  <2> QED
    BY <1>1, <1>7, <2>1, <2>2 DEF Requested
<1>12. Owned'
  <2>1. ASSUME NEW d \in Calls' PROVE OneOf(d)'
    <3>1. CASE In(sent, d)
      <4>1. OnlyAt("answers", d)' /\ "answers" \in Places
        BY <1>1, <1>5, <1>6, <1>9, <3>1, AtIs DEF OnlyAt, Places, Workers
      <4> QED
        BY <1>1, <1>4, <3>1, <4>1 DEF OneOf, Places
    <3>2. CASE ~In(sent, d)
      <4>1. Same(d)
        BY <1>1, <1>6, <1>9, <3>2 DEF Same
      <4> QED
        BY <1>7, <4>1, SameKept DEF Owned
    <3> QED
      BY <3>1, <3>2
  <2>2. Different(functors')
    BY <1>1 DEF Owned
  <2> QED
    BY <1>6, <1>9, <2>1, <2>2 DEF Owned, Distinct, Different
<1>13. Truth /\ ToldOnce'
  BY <1>1, <1>7, NothingTold
<1>14. AnswersFrom
  <2>1. \A op, F : RcTrue(op, "ZCONNECTIONLOSS", F)
    BY DEF RcTrue
  <2>2. ASSUME NEW k \in 1..Len(answers')
        PROVE  \/ \E i \in 1..Len(answers) : answers'[k] = answers[i]
               \/ /\ answers'[k].call \in Calls
                  /\ RcTrue(answers'[k].op, answers'[k].rc, Now(answers'[k].call))
    <3>1. CASE k \in 1..Len(answers) /\ answers'[k] = answers[k]
      BY <3>1
    <3>2. CASE \E i \in 1..Len(sent) : /\ answers'[k].call = sent[i].call
                                       /\ answers'[k].rc = "ZCONNECTIONLOSS"
      BY <1>3, <2>1, <3>2 DEF RequestOk
    <3> QED
      BY <1>6, <3>1, <3>2
  <2> QED
    BY <1>7, <2>2 DEF AnswersFrom
<1>15. Touches
  <2>1. connected' # connected
    BY <1>1
  <2>2. \A i \in 1..n : /\ sent[i].call \in Calls /\ told[sent[i].call] = <<>>
                        /\ Serves(sent[i].op, call[sent[i].call].op)
    <3> SUFFICES ASSUME NEW i \in 1..n
                 PROVE  /\ sent[i].call \in Calls /\ told[sent[i].call] = <<>>
                        /\ Serves(sent[i].op, call[sent[i].call].op)
      OBVIOUS
    <3>1. i \in 1..Len(sent)
      BY <1>2, <1>3
    <3>2. In(sent, sent[i].call)
      BY <3>1 DEF In
    <3> QED
      BY <1>3, <1>4, <3>1, <3>2 DEF RequestOk
  <2>3. \A p \in DOMAIN tree \ DOMAIN tree' : \E c \in Calls :
           told[c] = <<>> /\ call[c].op \in Deletes /\ p = Path(c)
    BY <1>8, <2>2, ServesIs DEF Within
  <2>4. \A p \in DOMAIN tree' \ DOMAIN tree : \E c \in Calls :
           told[c] = <<>> /\ call[c].op \in Creates /\ p = Path(c)
    BY <1>8, <2>2, ServesIs DEF Within
  <2> QED
    BY <2>1, <2>3, <2>4 DEF Touches, Underway
<1>16. PostedFrom
  BY <1>1, <1>7, CallIs, SamePosted
<1> QED
  BY <1>10, <1>11, <1>12, <1>13, <1>14, <1>15, <1>16 DEF Kept

\* The steps of others: no call moves.
LEMMA OutsideKept ==
  ASSUME Typed, Requested, Owned, ToldOnce, Reconnect \/ OtherClient
  PROVE  Kept
<1>1. UNCHANGED <<call, sent, answers, functors, job, told>>
  BY DEF Reconnect, OtherClient
<1>2. TreeOk(tree') /\ connected' \in BOOLEAN /\ others' \in Nat /\ Touches
  <2>1. CASE Reconnect
    <3>1. tree' = tree /\ connected' = TRUE /\ others' = others
      BY <2>1 DEF Reconnect
    <3> QED
      BY <3>1, NothingTouched DEF Typed
  <2>2. CASE OtherClient
    <3>1. PICK op \in {"create", "delete", "set"}, p \in Paths : tree' = ServerTree(tree, op, p, AnyVersion)
      BY <2>2 DEF OtherClient
    <3>2. op \in Ops /\ PathOk(op, p)
      BY OperationsAssumption DEF PathOk, Ops, Creates, Deletes
    <3>3. TreeOk(ServerTree(tree, op, p, AnyVersion))
      BY <3>2, ServerStep DEF Typed
    <3>4. others' = others + 1 /\ others < MaxOthers /\ connected' = connected
      BY <2>2 DEF OtherClient
    <3> QED
      BY <3>1, <3>3, <3>4 DEF Touches, Typed
  <2> QED
    BY <2>1, <2>2
<1>3. /\ Calls' = Calls /\ \A d : Path(d)' = Path(d)
      /\ \A x : RequestOk(x)' <=> RequestOk(x)
      /\ \A d : FunctorOk(d)' <=> FunctorOk(d)
      /\ \A v, j : JobOk(v, j)' <=> JobOk(v, j)
  BY <1>1, CallsSame
<1>4. Typed'
  BY <1>1, <1>2 DEF Typed, TreeOk
<1>5. Requested'
  BY <1>1, <1>3 DEF Requested
<1>6. Owned'
  <2>1. \A d \in Calls' : d \in Calls /\ Same(d)
    BY <1>1, <1>3 DEF Same
  <2>2. Distinct(sent') /\ Distinct(answers') /\ Different(functors')
    BY <1>1 DEF Owned
  <2>3. 0 \notin Calls'
    BY <1>3, CallIs
  <2> QED
    BY <2>1, <2>2, <2>3, OwnedKept
<1>7. AnswersFrom
  BY <1>1, <1>3 DEF AnswersFrom
<1>8. Truth /\ ToldOnce'
  BY <1>1, <1>3, NothingTold
<1>9. PostedFrom
  BY <1>1, <1>3, CallIs, SamePosted
<1> QED
  BY <1>2, <1>4, <1>5, <1>6, <1>7, <1>8, <1>9 DEF Kept

LEMMA StartPostedKept ==
  ASSUME Typed, Requested, Owned, ToldOnce, StartPosted
  PROVE  Kept
<1>1. PICK c : c = Head(functors)
  OBVIOUS
<1> DEFINE j == IF call[c].op = "mkpath" THEN DirJob(c)
                ELSE [call |-> c, stage |-> "rmr", at |-> <<>>, stack |-> <<Frame(Path(c))>>]
<1>2. /\ functors # <<>> /\ job["second"] = NoJob /\ functors' = Tail(functors)
      /\ job' = [job EXCEPT !["second"] = j]
      /\ UNCHANGED <<tree, connected, others, call, sent, answers, told>>
  BY <1>1 DEF StartPosted, Work, world
<1>3. /\ functors \in Seq(Nat) /\ Different(functors)
      /\ \A k \in 1..Len(functors) : FunctorOk(functors[k])
  BY DEF Typed, Owned, Requested
<1>4. /\ Tail(functors) \in Seq(Nat) /\ Queued(functors, c)
      /\ \A k \in 1..Len(Tail(functors)) : Queued(functors, Tail(functors)[k])
      /\ Different(Tail(functors))
      /\ \A d : Queued(Tail(functors), d) <=> Queued(functors, d) /\ d # c
  BY <1>1, <1>2, <1>3, FunctorRemoved
<1>5. c \in Calls /\ ~call[c].sync /\ call[c].op \in {"mkpath", "rmr"}
  BY <1>3, <1>4 DEF Queued, FunctorOk
<1>6. told[c] = <<>> /\ OnlyAt("functors", c)
  BY <1>4, <1>5, PlaceIs, AtIs DEF Places
<1>7. ~In(sent, c) /\ ~In(answers, c) /\ \A w \in Workers : job[w].call # c
  BY <1>6, AtIs DEF OnlyAt, Places, Workers
<1>8. Path(c) \in Seq(Names) /\ c \in Nat
  BY <1>5, CallIs
<1>9. j \in Jobs /\ j.call = c /\ StageOk("second", j)
  <2>1. CASE call[c].op = "mkpath"
    BY <1>5, <2>1, DirJobIs
  <2>2. CASE call[c].op # "mkpath"
    <3>1. Frame(Path(c)) \in Frames /\ Frame(Path(c)).path = Path(c) /\ Frame(Path(c)).todo = {}
      BY <1>8, FrameIs
    <3>2. <<>> \in Seq(Frames) /\ Append(<<>>, Frame(Path(c))) = <<Frame(Path(c))>>
      BY <3>1
    <3>3. StackOk(Path(c), <<Frame(Path(c))>>)
      <4>1. StackOk(Path(c), Append(<<>>, Frame(Path(c))))
        BY <3>1, <3>2, FrameAbove
      <4> QED
        BY <3>2, <4>1
    <3>4. j = [call |-> c, stage |-> "rmr", at |-> <<>>, stack |-> <<Frame(Path(c))>>]
      BY <2>2
    <3> HIDE DEF j
    <3>5. j \in Jobs
      BY <1>8, <3>3, <3>4 DEF StackOk, Jobs, Stages
    <3>6. j.call = c /\ j.stage = "rmr" /\ j.stack = <<Frame(Path(c))>> /\ call[c].op = "rmr"
      BY <1>5, <2>2, <3>4
    <3> QED
      BY <3>3, <3>5, <3>6 DEF StageOk
  <2> QED
    BY <2>1, <2>2
<1> HIDE DEF j
<1>10. /\ "second" \in Workers /\ job' \in [Workers -> Jobs] /\ job'["second"] = j
       /\ \A v \in Workers : v # "second" => job'[v] = job[v]
  BY <1>2, <1>9, JobsAre DEF Workers
<1>11. /\ Calls' = Calls /\ \A d : Path(d)' = Path(d)
       /\ \A x : RequestOk(x)' <=> RequestOk(x)
       /\ \A d : FunctorOk(d)' <=> FunctorOk(d)
       /\ \A v, k : JobOk(v, k)' <=> JobOk(v, k)
  BY <1>2, CallsSame
<1>12. Typed'
  BY <1>2, <1>4, <1>10 DEF Typed, TreeOk
<1>13. Requested'
  <2>1. JobOk("second", j)
    BY <1>5, <1>9 DEF JobOk
  <2>2. \A v \in Workers : JobOk(v, job'[v])
    BY <1>10, <2>1 DEF Requested
  <2>3. \A k \in 1..Len(functors') : FunctorOk(functors'[k])
    BY <1>2, <1>3, <1>4 DEF Queued
  <2> QED
    BY <1>2, <1>11, <2>2, <2>3 DEF Requested
<1>14. Owned'
  <2>1. \A d \in Calls' : d # c => d \in Calls /\ Same(d)
    <3>1. \A d \in Calls : d # 0
      BY CallIs
    <3> QED
      BY <1>2, <1>4, <1>9, <1>10, <1>11, <3>1, NoJobIs DEF Same
  <2>2. OnlyAt("second", c)' /\ "second" \in Places
    BY <1>2, <1>4, <1>7, <1>9, <1>10, AtIs DEF OnlyAt, Places, Workers
  <2>3. OneOf(c)'
    BY <1>2, <1>6, <2>2 DEF OneOf, Places
  <2>4. Distinct(sent') /\ Distinct(answers') /\ Different(functors')
    BY <1>2, <1>4 DEF Owned
  <2> QED
    BY <2>1, <2>3, <2>4, OwnedKept
<1>15. AnswersFrom /\ Touches
  <2>1. AnswersFrom
    BY <1>2, <1>11 DEF AnswersFrom
  <2> QED
    BY <1>2, <2>1, NothingTouched
<1>16. Truth /\ ToldOnce'
  BY <1>2, <1>11, NothingTold
<1>17. PostedFrom
  <2> SUFFICES ASSUME NEW d \in Calls, Posted(d)' PROVE Posted(d)
    BY <1>2, <1>11 DEF PostedFrom
  <2>1. Queued(functors', d) \/ d = c
    BY <1>9, <1>10 DEF Posted, Queued
  <2> QED
    BY <1>2, <1>4, <2>1 DEF Posted
<1> QED
  BY <1>12, <1>13, <1>14, <1>15, <1>16, <1>17 DEF Kept

LEMMA CallNextKept ==
  ASSUME Typed, Requested, Owned, ToldOnce, CallNext
  PROVE  Kept
BY AsyncKept, CallSyncKept
   DEF CallNext, getNode, getChildren, isExist, createIfNeedCreateParents, create, set,
       deleteRecursive, deleteNode

\* What is observed of a call that is not answered is not forgotten.
LEMMA Observed ==
  ASSUME AnswersFrom, Observe, NEW c \in Calls', told'[c] = <<>>
  PROVE  /\ Facts(tree', Path(c)') \subseteq seen'[c]
         /\ c \in Calls => Now(c) \subseteq seen'[c]
<1>1. seen'[c] = IF c \in Calls THEN seen[c] \cup Facts(tree', Path(c))
                 ELSE Facts(tree', call'[c].path)
  BY DEF Observe, Calls
<1>2. c \in Calls => Path(c)' = Path(c)
  BY DEF AnswersFrom
<1> QED
  BY <1>1, <1>2 DEF Now, Path

\* A call that is somewhere is not answered.
LEMMA Somewhere ==
  ASSUME Owned', NEW c \in Calls', In(answers', c) \/ Posted(c)'
  PROVE  told'[c] = <<>>
<1>1. \E x \in {"answers", "functors", "second"} : At(x, c)'
  BY AtIs DEF Posted, Queued
<1>2. OneOf(c)' /\ {"answers", "functors", "second"} \subseteq Places
  BY DEF Owned, Places, Workers
<1> QED
  BY <1>1, <1>2, Zenon DEF OneOf, Nowhere

LEMMA KnownKept ==
  ASSUME Requested, Known, Kept, Observe
  PROVE  Known'
<1> SUFFICES ASSUME NEW k \in 1..Len(answers')
             PROVE  RcTrue(answers'[k].op, answers'[k].rc, seen'[answers'[k].call])
  BY DEF Known
<1>1. PICK c : c = answers'[k].call
  OBVIOUS
<1>2. Typed' /\ Requested' /\ Owned' /\ AnswersFrom
  BY DEF Kept
<1>3. c \in Calls' /\ In(answers', c)
  BY <1>1, <1>2 DEF Requested, RequestOk, In
<1>4. c \in Calls => Now(c) \subseteq seen'[c]
  BY <1>2, <1>3, Somewhere, Observed
<1>5. CASE \E i \in 1..Len(answers) : answers'[k] = answers[i]
  <2>1. PICK i \in 1..Len(answers) : answers'[k] = answers[i]
    BY <1>5
  <2>2. RcTrue(answers'[k].op, answers'[k].rc, seen[c])
    BY <1>1, <2>1 DEF Known
  <2>3. c \in Calls
    BY <1>1, <2>1 DEF Requested, RequestOk
  <2>4. seen[c] \subseteq seen'[c]
    BY <1>4, <2>3 DEF Now
  <2> QED
    BY <1>1, <2>2, <2>4, MoreFacts
<1>6. CASE c \in Calls /\ RcTrue(answers'[k].op, answers'[k].rc, Now(c))
  BY <1>1, <1>4, <1>6, MoreFacts
<1> QED
  BY <1>1, <1>2, <1>5, <1>6 DEF AnswersFrom

LEMMA WitnessKept ==
  ASSUME Requested, Witnessed, Kept, Observe
  PROVE  Witnessed'
<1>1. Known'
  BY KnownKept DEF Witnessed
<1>2. Seen'
  BY Observed DEF Seen, Kept
<1>3. ASSUME NEW c \in Calls', Posted(c)', call'[c].op = "rmr" PROVE "here" \in seen'[c]
  <2>1. c \in Calls /\ call'[c] = call[c] /\ (Posted(c) \/ "here" \in seen[c])
    BY <1>3 DEF Kept, PostedFrom
  <2>2. "here" \in seen[c]
    BY <1>3, <2>1 DEF Witnessed, Here
  <2>3. Now(c) \subseteq seen'[c]
    BY <1>3, <2>1, Somewhere, Observed DEF Kept
  <2> QED
    BY <2>2, <2>3 DEF Now
<1> QED
  BY <1>1, <1>2, <1>3 DEF Witnessed, Here

LEMMA InitIs == Init => IInv
<1> SUFFICES ASSUME Init PROVE IInv
  OBVIOUS
<1>1. /\ call = <<>> /\ sent = <<>> /\ answers = <<>> /\ functors = <<>> /\ told = <<>>
      /\ job = [w \in Workers |-> NoJob] /\ connected = TRUE /\ others = 0 /\ TreeOk(tree)
  BY OperationsAssumption DEF Init, TreeOk
<1>2. Len(<<>>) = 0 /\ 1..0 = {} /\ \A S : <<>> \in Seq(S)
  OBVIOUS
<1>3. Typed
  BY <1>1, <1>2, NoJobIs DEF Typed
<1>4. Requested
  BY <1>1, <1>2 DEF Requested, JobOk
<1>5. Owned
  BY <1>1, <1>2 DEF Owned, Distinct, Different, Calls
<1>6. Witnessed /\ ToldOnce
  BY <1>1, <1>2 DEF Witnessed, Known, Seen, Here, ToldOnce, Calls
<1> QED
  BY <1>3, <1>4, <1>5, <1>6 DEF IInv

LEMMA StepKept ==
  ASSUME IInv, Next
  PROVE  Kept /\ Witnessed'
<1>1. Typed /\ Requested /\ Owned /\ Witnessed /\ ToldOnce
  BY DEF IInv
<1>2. Observe
  BY DEF Next
<1>3. Kept
  <2>1. CASE CallNext
    BY <1>1, <2>1, CallNextKept
  <2>2. CASE Serve
    BY <1>1, <2>2, ServeKept
  <2>3. CASE Complete
    BY <1>1, <2>3, CompleteKept
  <2>4. CASE LoseConnection
    BY <1>1, <2>4, LoseConnectionKept
  <2>5. CASE Reconnect \/ OtherClient
    BY <1>1, <2>5, OutsideKept
  <2>6. CASE StartPosted
    BY <1>1, <2>6, StartPostedKept
  <2>7. CASE CallOnce \/ \E w \in Workers : WorkerNext(w)
    <3>1. PICK w \in Workers : job[w].stage # "idle" /\ WorkerEffect(w, job[w].call)
      BY <1>1, <2>7, WorkerStep
    <3> QED
      BY <1>1, <3>1, WorkerKept
  <2> QED
    BY <2>1, <2>2, <2>3, <2>4, <2>5, <2>6, <2>7 DEF Next
<1> QED
  BY <1>1, <1>2, <1>3, WitnessKept

-----------------------------------------------------------------------------
(* The theorems.                                                           *)

\* ZkClient.cc:690-1629: the inductive invariant.  A request, an answer, a
\* functor or a job belongs to a call and is for what that call asks for; a
\* call that is not answered is in one place, what its answer will tell has
\* been true since it was made, and the second thread deletes recursively only
\* what was there.
THEOREM Inductive == Spec => []IInv
<1>1. ASSUME IInv, [Next]_vars PROVE IInv'
  <2>1. CASE Next
    BY <1>1, <2>1, StepKept DEF IInv, Kept
  <2>2. CASE UNCHANGED vars
    <3>1. /\ UNCHANGED <<tree, connected, others>> /\ call' = call /\ sent' = sent
          /\ answers' = answers /\ functors' = functors /\ job' = job /\ told' = told
          /\ seen' = seen
      BY <2>2 DEF vars, world
    <3>2. /\ Calls' = Calls /\ \A d : Path(d)' = Path(d)
          /\ \A x : RequestOk(x)' <=> RequestOk(x)
          /\ \A d : FunctorOk(d)' <=> FunctorOk(d)
          /\ \A v, k : JobOk(v, k)' <=> JobOk(v, k)
      BY <3>1, CallsSame
    <3>3. Typed'
      BY <1>1, <3>1 DEF IInv, Typed, TreeOk
    <3>4. Requested'
      BY <1>1, <3>1, <3>2 DEF IInv, Requested
    <3>5. \A d \in Calls' : d \in Calls /\ Same(d)
      BY <3>1, <3>2 DEF Same
    <3>6. Owned'
      <4>1. \A d \in Calls' : OneOf(d)'
        BY <1>1, <3>5, SameKept DEF IInv, Owned
      <4> QED
        BY <1>1, <3>1, <4>1 DEF IInv, Owned, Distinct, Different
    <3>7. Witnessed' /\ ToldOnce'
      <4>1. Known' /\ ToldOnce'
        BY <1>1, <3>1, <3>2 DEF IInv, Witnessed, Known, ToldOnce
      <4>2. Seen'
        BY <1>1, <3>1, <3>2 DEF IInv, Witnessed, Seen
      <4>3. Here'
        BY <1>1, <3>1, <3>2 DEF IInv, Witnessed, Here, Posted, Queued
      <4> QED
        BY <4>1, <4>2, <4>3 DEF Witnessed
    <3> QED
      BY <3>3, <3>4, <3>6, <3>7 DEF IInv
  <2> QED
    BY <1>1, <2>1, <2>2
<1> QED
  BY <1>1, InitIs, PTL DEF Spec

LEMMA TypesAre == Typed /\ Requested => TypeOK
<1> SUFFICES ASSUME Typed, Requested PROVE TypeOK
  OBVIOUS
<1>1. /\ DOMAIN tree \subseteq Paths /\ \A p \in DOMAIN tree : tree[p] \in 0..MaxVersion
      /\ connected \in BOOLEAN /\ call \in Seq(Requests)
  BY DEF Typed, TreeOk
<1>2. /\ \A k \in 1..Len(sent) : sent[k].call \in Calls
      /\ \A k \in 1..Len(functors) : call[functors[k]].op \in {"mkpath", "rmr"}
  BY DEF Requested, RequestOk, FunctorOk
<1>3. ASSUME NEW w \in Workers
      PROVE  /\ job[w].stage \in {"idle", "once", "dir", "leaf", "rmr"}
             /\ job[w].stage = "dir" =>
                    job[w].at = <<>> \/ Below(job[w].at, Path(job[w].call))
             /\ job[w].stage = "rmr" => job[w].stack # <<>>
  <2>1. job[w].stage \in {"idle", "once", "dir", "leaf", "rmr"}
    BY DEF Typed, Jobs, Stages
  <2>2. JobOk(w, job[w])
    BY DEF Requested
  <2>3. CASE job[w] = NoJob
    BY <2>1, <2>3 DEF NoJob
  <2>4. CASE StageOk(w, job[w])
    BY <2>1, <2>4 DEF StageOk, StackOk
  <2> QED
    BY <2>2, <2>3, <2>4 DEF JobOk
<1> QED
  BY <1>1, <1>2, <1>3 DEF TypeOK

LEMMA CountOf ==
  ASSUME NEW S, NEW f, NEW c, \A i, j \in S : f[i] = c /\ f[j] = c => i = j
  PROVE  Cardinality({k \in S : f[k] = c}) = IF \E k \in S : f[k] = c THEN 1 ELSE 0
<1>1. CASE \E k \in S : f[k] = c
  <2>1. PICK k \in S : f[k] = c
    BY <1>1
  <2>2. {i \in S : f[i] = c} = {k}
    BY <2>1
  <2> QED
    BY <1>1, <2>2, FS_Singleton
<1>2. CASE ~\E k \in S : f[k] = c
  <2>1. {i \in S : f[i] = c} = {}
    BY <1>2
  <2> QED
    BY <1>2, <2>1, FS_EmptySet
<1> QED
  BY <1>1, <1>2

LEMMA OwnersAre ==
  ASSUME Owned, NEW c \in Calls
  PROVE  Owners(c) = IF told[c] = <<>> THEN 1 ELSE 0
<1> DEFINE Calling(q) == {k \in 1..Len(q) : q[k].call = c}
           Queuing == {k \in 1..Len(functors) : functors[k] = c}
           Working == {w \in Workers : job[w].call = c}
<1>1. ASSUME NEW q, Distinct(q)
      PROVE  Cardinality(Calling(q)) = IF In(q, c) THEN 1 ELSE 0
  <2>1. CASE In(q, c)
    <3>1. PICK k \in 1..Len(q) : q[k].call = c
      BY <2>1 DEF In
    <3>2. \A i \in 1..Len(q) : q[i].call = c => i = k
      BY <1>1, <3>1 DEF Distinct
    <3>3. Calling(q) = {k}
      BY <3>1, <3>2
    <3> HIDE DEF Calling
    <3> QED
      BY <2>1, <3>3, FS_Singleton
  <2>2. CASE ~In(q, c)
    <3>1. Calling(q) = {}
      BY <2>2 DEF In
    <3> HIDE DEF Calling
    <3> QED
      BY <2>2, <3>1, FS_EmptySet
  <2> QED
    BY <2>1, <2>2
<1>2. Cardinality(Queuing) = IF Queued(functors, c) THEN 1 ELSE 0
  <2>1. \A i, j \in 1..Len(functors) : functors[i] = c /\ functors[j] = c => i = j
    BY DEF Owned, Different
  <2> QED
    BY <2>1, CountOf DEF Queued
<1>3. OneOf(c)
  BY DEF Owned
<1>4. Cardinality(Working) = IF job["user"].call = c \/ job["second"].call = c THEN 1 ELSE 0
  <2>1. ~(job["user"].call = c /\ job["second"].call = c)
    BY <1>3, AtIs DEF OneOf, OnlyAt, Nowhere, Places, Workers
  <2>2. CASE job["user"].call = c
    <3>1. Working = {"user"}
      BY <2>1, <2>2 DEF Workers
    <3> QED
      BY <2>2, <3>1, FS_Singleton
  <2>3. CASE job["second"].call = c
    <3>1. Working = {"second"}
      BY <2>1, <2>3 DEF Workers
    <3> QED
      BY <2>3, <3>1, FS_Singleton
  <2>4. CASE job["user"].call # c /\ job["second"].call # c
    <3>1. Working = {}
      BY <2>4 DEF Workers
    <3> QED
      BY <2>4, <3>1, FS_EmptySet
  <2> QED
    BY <2>2, <2>3, <2>4
<1>5. /\ Cardinality(Calling(sent)) = IF In(sent, c) THEN 1 ELSE 0
      /\ Cardinality(Calling(answers)) = IF In(answers, c) THEN 1 ELSE 0
  BY <1>1 DEF Owned
<1>6. Owners(c) = Cardinality(Calling(sent)) + Cardinality(Calling(answers))
                  + Cardinality(Queuing) + Cardinality(Working)
  BY DEF Owners
<1> HIDE DEF Calling, Queuing, Working
<1>7. CASE told[c] = <<>>
  <2>1. PICK x \in Places : OnlyAt(x, c)
    BY <1>3, <1>7 DEF OneOf
  <2>2. /\ In(sent, c) <=> x = "sent"
        /\ In(answers, c) <=> x = "answers"
        /\ Queued(functors, c) <=> x = "functors"
        /\ job["user"].call = c \/ job["second"].call = c <=> x \in {"user", "second"}
        /\ x \in {"sent", "answers", "functors", "user", "second"}
    BY <2>1, AtIs DEF OnlyAt, Places, Workers
  <2> QED
    BY <1>2, <1>4, <1>5, <1>6, <1>7, <2>2
<1>8. CASE told[c] # <<>>
  <2>1. /\ ~In(sent, c) /\ ~In(answers, c) /\ ~Queued(functors, c)
        /\ ~(job["user"].call = c \/ job["second"].call = c)
    BY <1>3, <1>8, AtIs DEF OneOf, Nowhere, Places, Workers
  <2> QED
    BY <1>2, <1>4, <1>5, <1>6, <1>8, <2>1
<1> QED
  BY <1>7, <1>8

\* ZkClient.cc:690-1629, Owners: the context of a call has exactly one owner
\* until its handler is called, and none afterwards, whatever connection is
\* lost and whichever thread is in the middle of a recursion.
THEOREM OneOwnerEach == Spec => []CallsKept
<1>1. IInv => CallsKept
  BY TypesAre, OwnersAre DEF IInv, CallsKept, OneOwner
<1> QED
  BY <1>1, Inductive, PTL

\* ZkClient.cc:690-1629, the handlers: a call is answered once; only the failure
\* of a child in postDeleteRecursive (1191-1262) tells the same error again.
THEOREM AnsweredOnce == Spec => []ToldOnce
<1>1. IInv => ToldOnce
  BY DEF IInv
<1> QED
  BY <1>1, Inductive, PTL

\* ZkClient.cc:690-1629, the codes: success, existence, absence or children
\* are told only if they were true at some time during the call.
THEOREM AnswersAreTrue == Spec => AnswerIsTrue
<1> DEFINE A == \A c \in Calls : \A k \in Answers(c) :
                   \/ told'[c][k] \in {"Error", "LostConnection"}
                   \/ Supports(told'[c][k], call[c]) \subseteq Now(c)
<1>1. ASSUME IInv, [Next]_vars PROVE [A]_vars
  <2>1. CASE Next
    BY <1>1, <2>1, StepKept DEF Kept, Truth
  <2>2. CASE UNCHANGED vars
    BY <2>2
  <2> QED
    BY <1>1, <2>1, <2>2
<1>2. IInv /\ [Next]_vars => [A]_vars
  BY <1>1
<1>3. Spec => [][A]_vars
  BY <1>2, Inductive, PTL DEF Spec
<1> QED
  BY <1>3 DEF AnswerIsTrue

\* ZkClient.cc:690-1629, the requests: the library deletes and creates only the
\* nodes that a call under way asks for, the nodes above the path of a
\* createIfNeedCreateParents and those below the path of a deleteRecursive.
THEOREM OnlyItsNodes == Spec => TouchesOnly
<1> DEFINE A == others' = others =>
        /\ \A p \in DOMAIN tree \ DOMAIN tree' : \E c \in Calls :
               /\ Underway(c) /\ call[c].op \in Deletes
               /\ \/ /\ p = Path(c)
                     /\ call[c].version \in {AnyVersion, tree[p]} \/ connected' # connected
                  \/ call[c].op = "rmr" /\ Below(Path(c), p)
        /\ \A p \in DOMAIN tree' \ DOMAIN tree : \E c \in Calls :
               /\ Underway(c) /\ call[c].op \in Creates
               /\ p = Path(c) \/ (call[c].op = "mkpath" /\ Below(p, Path(c)))
<1>1. ASSUME IInv, [Next]_vars PROVE [A]_vars
  <2>1. CASE Next
    BY <1>1, <2>1, StepKept DEF Kept, Touches
  <2>2. CASE UNCHANGED vars
    BY <2>2
  <2> QED
    BY <1>1, <2>1, <2>2
<1>2. IInv /\ [Next]_vars => [A]_vars
  BY <1>1
<1>3. Spec => [][A]_vars
  BY <1>2, Inductive, PTL DEF Spec
<1> QED
  BY <1>3 DEF TouchesOnly
===============================================================================
