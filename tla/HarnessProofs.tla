--------------------------- MODULE HarnessProofs ---------------------------
(***************************************************************************)
(* What the harness runtimes hold, proved for every crew, every number of  *)
(* calls and every plan, and any number of failed steps, dead bridges and  *)
(* dead processes.                                                         *)
(*                                                                         *)
(* Sessions.  An operation is a program of steps.  What an actor has while *)
(* one runs is either held by a session or the release of it is a step of  *)
(* the program still to come, or of the stack resume() would run: so a     *)
(* program that has ended leaves nothing, whichever of its steps failed.   *)
(* First come the programs, which FlattenSeq joins from those of the       *)
(* actors: what each releases, and in which order.                         *)
(*                                                                         *)
(* The fleet.  A slot is the call that first reserved it; it is never      *)
(* freed, its child is started by that call once, and every other call of  *)
(* the slot works in the same child.  So children are the work of slots,   *)
(* and slots are counted before a task may run.                            *)
(***************************************************************************)
EXTENDS HarnessSessions, NativeAdmission, RosterTotalsProofs, FiniteSetTheorems, TLAPS

Steps == [do : {"issue", "bridge", "session", "activate", "verify", "register",
                "revoke", "expire", "close", "forget", "snapshot"},
          actor : Members \cup {1}, kind : Kinds \cup {NoKind}]
Programs == Seq(Steps)

(* Programs are closed under concatenation.                                *)
LEMMA ProgramsJoin ==
    /\ <<>> \in Programs
    /\ \A s, t \in Programs : Joined(s, t) \in Programs
    /\ \A s \in Programs : Joined(<<>>, s) = s
  BY DEF Programs, Joined

(* A joined program holds every block at its place and nothing else.       *)
LEMMA FlattenBlocks ==
    ASSUME NEW n \in Nat, NEW f \in [1..n -> Programs]
    PROVE  /\ FlattenSeq(f) \in Programs
           /\ \E cut \in [0..n -> Nat] :
                 /\ cut[0] = 0 /\ cut[n] = Len(FlattenSeq(f))
                 /\ \A i \in 1..n : cut[i] = cut[i - 1] + Len(f[i])
                 /\ \A i \in 1..n : \A j \in 1..Len(f[i]) :
                       /\ cut[i - 1] + j \in 1..Len(FlattenSeq(f))
                       /\ FlattenSeq(f)[cut[i - 1] + j] = f[i][j]
                 /\ \A x \in 1..Len(FlattenSeq(f)) :
                       \E i \in 1..n : x - cut[i - 1] \in 1..Len(f[i])
<1>1. f \in Pieces(Steps, n)
  BY DEF Programs, Lists, Pieces
<1>2. FlattenSeq(f) \in Lists(Steps) /\ Placed(FlattenSeq(f), f, n)
  BY <1>1, FlattenedBlocks
<1>. QED
  BY <1>2, Zenon DEF Programs, Lists, Placed

Has(q, s) == \E i \in 1..Len(q) : q[i] = s

(* An access is revoked before it is expired.                              *)
Orderly(q) == \A i \in 1..Len(q) : q[i].do = "expire" =>
    i > 1 /\ q[i - 1] = Step("revoke", q[i].actor, q[i].kind)

Cleans(q, a) ==
    /\ Has(q, Step("close", a, NoKind))
    /\ \A k \in Kinds : Has(q, Step("revoke", a, k)) /\ Has(q, Step("expire", a, k))

Releases(s) ==
    /\ s.do \in {"close", "revoke", "expire", "forget"} /\ s.actor \in Members
    /\ s.do \in {"revoke", "expire"} => s.kind \in Kinds

Acquires(s) ==
    /\ s.do \in {"issue", "bridge", "session", "activate", "verify", "register"}
    /\ s.actor \in Members
    /\ s.do \in {"issue", "activate"} => s.kind \in Kinds

(* Every step the operations write is a step.                              *)
LEMMA StepsAreTyped ==
    ASSUME NEW a \in Members \cup {1}, NEW k \in Kinds \cup {NoKind},
           NEW d \in {"issue", "bridge", "session", "activate", "verify", "register",
                      "revoke", "expire", "close", "forget", "snapshot"}
    PROVE  /\ Step(d, a, k) \in Steps
           /\ Step(d, a, k).do = d /\ Step(d, a, k).actor = a /\ Step(d, a, k).kind = k
  BY DEF Step, Steps

(* The release of one actor's accesses, in some order of the gateways.     *)
LEMMA ReleaseInOrder ==
    ASSUME NEW a \in Members, NEW k \in Kinds, NEW l \in Kinds, NEW m \in Kinds,
           Kinds = {k, l, m}, NEW q,
           q = <<Step("close", a, NoKind), Step("revoke", a, k), Step("expire", a, k),
                 Step("revoke", a, l), Step("expire", a, l),
                 Step("revoke", a, m), Step("expire", a, m)>>
    PROVE  /\ q \in Programs /\ Len(q) = 7
           /\ Orderly(q) /\ Cleans(q, a) /\ \A i \in 1..Len(q) : Releases(q[i])
<1>1. /\ Step("close", a, NoKind) \in Steps
      /\ \A x \in Kinds : Step("revoke", a, x) \in Steps /\ Step("expire", a, x) \in Steps
  BY StepsAreTyped
<1>2. q \in Programs /\ Len(q) = 7
  BY <1>1 DEF Programs
<1>3. /\ q[1] = Step("close", a, NoKind)
      /\ q[2] = Step("revoke", a, k) /\ q[3] = Step("expire", a, k)
      /\ q[4] = Step("revoke", a, l) /\ q[5] = Step("expire", a, l)
      /\ q[6] = Step("revoke", a, m) /\ q[7] = Step("expire", a, m)
  OBVIOUS
<1>4. /\ q[1].do = "close" /\ q[1].actor = a
      /\ \A i \in {2, 4, 6} : q[i].do = "revoke" /\ q[i].actor = a /\ q[i].kind \in Kinds
      /\ \A i \in {3, 5, 7} :
            /\ q[i].do = "expire" /\ q[i].actor = a /\ q[i].kind \in Kinds
            /\ q[i - 1] = Step("revoke", a, q[i].kind)
  BY <1>3, StepsAreTyped
<1>5. Orderly(q)
  BY <1>2, <1>4 DEF Orderly
<1>6. Cleans(q, a)
  BY <1>2, <1>3 DEF Cleans, Has
<1>7. \A i \in 1..Len(q) : Releases(q[i])
  BY <1>2, <1>4 DEF Releases
<1>. QED
  BY <1>2, <1>5, <1>6, <1>7

(* The cleanups of one session: close, then revoke and expire each access. *)
LEMMA ReleaseProgram ==
    ASSUME NEW a \in Members, NEW q \in {ReleaseSteps(a), Unwind(a)}
    PROVE  /\ q \in Programs /\ Len(q) = 7
           /\ Orderly(q) /\ Cleans(q, a) /\ \A i \in 1..Len(q) : Releases(q[i])
<1>1. Kinds = {"model", "peer", "candidate"} /\ Kinds = {"peer", "candidate", "model"}
  BY DEF Kinds
<1>2. CASE q = ReleaseSteps(a)
  BY <1>1, <1>2, ReleaseInOrder DEF ReleaseSteps
<1>3. CASE q = Unwind(a)
  BY <1>1, <1>3, ReleaseInOrder DEF Unwind
<1>. QED
  BY <1>2, <1>3
(* The steps of the blocks, each after the step before it in its block.    *)
LEMMA FlattenSteps ==
    ASSUME NEW n \in Nat, NEW f \in [1..n -> Programs]
    PROVE  /\ FlattenSeq(f) \in Programs
           /\ \A i \in 1..n : \A j \in 1..Len(f[i]) : Has(FlattenSeq(f), f[i][j])
           /\ \A x \in 1..Len(FlattenSeq(f)) : \E i \in 1..n : \E j \in 1..Len(f[i]) :
                 /\ FlattenSeq(f)[x] = f[i][j]
                 /\ j > 1 => x > 1 /\ FlattenSeq(f)[x - 1] = f[i][j - 1]
<1>0. PICK q : q = FlattenSeq(f)
  OBVIOUS
<1>1. /\ FlattenSeq(f) \in Programs
      /\ \E cut \in [0..n -> Nat] :
            /\ cut[0] = 0 /\ cut[n] = Len(FlattenSeq(f))
            /\ \A i \in 1..n : cut[i] = cut[i - 1] + Len(f[i])
            /\ \A i \in 1..n : \A j \in 1..Len(f[i]) :
                  /\ cut[i - 1] + j \in 1..Len(FlattenSeq(f))
                  /\ FlattenSeq(f)[cut[i - 1] + j] = f[i][j]
            /\ \A x \in 1..Len(FlattenSeq(f)) :
                  \E i \in 1..n : x - cut[i - 1] \in 1..Len(f[i])
  BY FlattenBlocks
<1>2. PICK cut \in [0..n -> Nat] :
        /\ \A i \in 1..n : \A j \in 1..Len(f[i]) :
              cut[i - 1] + j \in 1..Len(q) /\ q[cut[i - 1] + j] = f[i][j]
        /\ \A x \in 1..Len(q) : \E i \in 1..n : x - cut[i - 1] \in 1..Len(f[i])
  BY <1>0, <1>1
<1>3. q \in Programs
  BY <1>0, <1>1
<1>4. /\ Len(q) \in Nat
      /\ \A i \in 1..n : cut[i - 1] \in Nat /\ Len(f[i]) \in Nat
  <2>1. \A i \in 1..n : i - 1 \in 0..n
    OBVIOUS
  <2>. QED
    BY <1>3, <2>1 DEF Programs
<1>5. \A i \in 1..n : \A j \in 1..Len(f[i]) : Has(q, f[i][j])
  BY <1>2 DEF Has
<1>7. PICK m \in Nat : m = Len(q)
  BY <1>4
<1>6. ASSUME NEW x \in 1..m
      PROVE  \E i \in 1..n : \E j \in 1..Len(f[i]) :
                q[x] = f[i][j] /\ (j > 1 => x > 1 /\ q[x - 1] = f[i][j - 1])
  <2>1. PICK i \in 1..n : x - cut[i - 1] \in 1..Len(f[i])
    BY <1>2, <1>7
  <2>7. PICK c \in Nat : c = cut[i - 1]
    BY <1>4
  <2>8. PICK l \in Nat : l = Len(f[i])
    BY <1>4
  <2>2. PICK j \in 1..l : j = x - c
    BY <2>1, <2>7, <2>8
  <2>3. c + j = x
    BY <2>2
  <2>4. \A y \in 1..l : c + y \in 1..m /\ q[c + y] = f[i][y]
    BY <1>2, <1>7, <2>7, <2>8
  <2>5. ASSUME j > 1 PROVE x > 1 /\ q[x - 1] = f[i][j - 1]
    <3>1. j - 1 \in 1..l
      BY <2>5
    <3>2. c + (j - 1) = x - 1
      BY <2>3
    <3>3. x > 1
      BY <2>3, <2>5
    <3>4. q[c + (j - 1)] = f[i][j - 1]
      BY <2>4, <3>1
    <3>. QED
      BY <3>2, <3>3, <3>4
  <2>6. q[x] = f[i][j]
    BY <2>3, <2>4
  <2>. QED
    BY <2>5, <2>6, <2>8
<1>. QED
  BY <1>0, <1>3, <1>5, <1>6, <1>7

(* The blocks of suspend().                                                *)
SuspendSession(a) == Append(ReleaseSteps(a), Step("forget", a, NoKind))

(* One turn of the loop of suspend(): the cleanups, then the session is forgotten.*)
LEMMA SuspendBlock ==
    ASSUME NEW a \in Members, NEW q, q = SuspendSession(a)
    PROVE  /\ q \in Programs
           /\ Orderly(q) /\ Cleans(q, a) /\ \A i \in 1..Len(q) : Releases(q[i])
           /\ Has(q, Step("forget", a, NoKind))
<1>. PICK r \in Programs : r = ReleaseSteps(a)
  BY ReleaseProgram
<1>1. /\ Len(r) = 7 /\ Orderly(r) /\ Cleans(r, a)
      /\ \A i \in 1..Len(r) : Releases(r[i])
  BY ReleaseProgram
<1>. PICK s \in Steps : s = Step("forget", a, NoKind)
  BY StepsAreTyped
<1>2. s.do = "forget" /\ s.actor = a
  BY StepsAreTyped
<1>3. q = Append(r, s)
  BY DEF SuspendSession
<1>4. /\ q \in Programs /\ Len(q) = 8 /\ q[8] = s
      /\ \A i \in 1..7 : q[i] = r[i]
  BY <1>1, <1>3 DEF Programs
<1>5. Orderly(q)
  BY <1>1, <1>2, <1>4 DEF Orderly
<1>6. Cleans(q, a) /\ Has(q, s)
  BY <1>1, <1>4 DEF Cleans, Has
<1>7. \A i \in 1..Len(q) : Releases(q[i])
  BY <1>1, <1>2, <1>4 DEF Releases
<1>. QED
  BY <1>4, <1>5, <1>6, <1>7

(* A program made of the releases of the actors in S.                      *)
LEMMA ReleasesJoin ==
    ASSUME NEW S \in SUBSET Members, NEW f \in [Members -> Programs],
           \A a \in Members \ S : f[a] = <<>>,
           \A a \in S : /\ Orderly(f[a]) /\ Cleans(f[a], a)
                        /\ \A i \in 1..Len(f[a]) : Releases(f[a][i]),
           NEW q, q = FlattenSeq(f)
    PROVE  /\ q \in Programs /\ Orderly(q)
           /\ \A a \in S : Cleans(q, a)
           /\ \A i \in 1..Len(q) : Releases(q[i])
           /\ \A a \in S : \A i \in 1..Len(f[a]) : Has(q, f[a][i])
<1>. PICK n \in Nat : n = CrewSize
  BY SessionsAssumption
<1>1. Members = 1..n
  BY DEF Members
<1>2. /\ q \in Programs
      /\ \A i \in Members : \A j \in 1..Len(f[i]) : Has(q, f[i][j])
      /\ \A x \in 1..Len(q) : \E i \in Members : \E j \in 1..Len(f[i]) :
            q[x] = f[i][j] /\ (j > 1 => x > 1 /\ q[x - 1] = f[i][j - 1])
  <2>1. f \in [1..n -> Programs]
    BY <1>1
  <2>2. /\ FlattenSeq(f) \in Programs
        /\ \A i \in 1..n : \A j \in 1..Len(f[i]) : Has(FlattenSeq(f), f[i][j])
        /\ \A x \in 1..Len(FlattenSeq(f)) : \E i \in 1..n : \E j \in 1..Len(f[i]) :
              /\ FlattenSeq(f)[x] = f[i][j]
              /\ j > 1 => x > 1 /\ FlattenSeq(f)[x - 1] = f[i][j - 1]
    BY <2>1, FlattenSteps
  <2>. QED
    BY <1>1, <2>2
<1>3. \A i \in Members : \A j \in 1..Len(f[i]) : i \in S
  OBVIOUS
<1>4. Orderly(q)
  <2>. SUFFICES ASSUME NEW x \in 1..Len(q), q[x].do = "expire"
                PROVE  x > 1 /\ q[x - 1] = Step("revoke", q[x].actor, q[x].kind)
    BY DEF Orderly
  <2>. PICK i \in Members : \E j \in 1..Len(f[i]) :
            q[x] = f[i][j] /\ (j > 1 => x > 1 /\ q[x - 1] = f[i][j - 1])
    BY <1>2
  <2>1. PICK j \in 1..Len(f[i]) :
            q[x] = f[i][j] /\ (j > 1 => x > 1 /\ q[x - 1] = f[i][j - 1])
    OBVIOUS
  <2>2. j > 1 /\ f[i][j - 1] = Step("revoke", f[i][j].actor, f[i][j].kind)
    BY <1>3, <2>1 DEF Orderly
  <2>. QED
    BY <2>1, <2>2
<1>5. ASSUME NEW a \in S, NEW s, Has(f[a], s) PROVE Has(q, s)
  <2>1. PICK j \in 1..Len(f[a]) : f[a][j] = s
    BY <1>5 DEF Has
  <2>. QED
    BY <1>2, <2>1
<1>6. \A a \in S : Cleans(q, a)
  BY <1>5 DEF Cleans
<1>7. \A x \in 1..Len(q) : Releases(q[x])
  BY <1>2, <1>3
<1>. QED
  BY <1>2, <1>4, <1>6, <1>7

(* rollback_resume(): the cleanups of every session given.                 *)
LEMMA RollbackProgram ==
    ASSUME NEW S \in SUBSET Members
    PROVE  /\ RollbackSteps(S) \in Programs /\ Orderly(RollbackSteps(S))
           /\ \A a \in S : Cleans(RollbackSteps(S), a)
           /\ \A i \in 1..Len(RollbackSteps(S)) : Releases(RollbackSteps(S)[i])
<1>. DEFINE f == [a \in Members |-> IF a \in S THEN ReleaseSteps(a) ELSE <<>>]
<1>1. \A a \in Members : /\ ReleaseSteps(a) \in Programs
                         /\ Orderly(ReleaseSteps(a)) /\ Cleans(ReleaseSteps(a), a)
                         /\ \A i \in 1..Len(ReleaseSteps(a)) : Releases(ReleaseSteps(a)[i])
  BY ReleaseProgram
<1>2. f \in [Members -> Programs]
  BY <1>1, ProgramsJoin
<1>3. /\ \A a \in Members \ S : f[a] = <<>>
      /\ \A a \in S : f[a] = ReleaseSteps(a)
  OBVIOUS
<1>4. RollbackSteps(S) = FlattenSeq(f)
  BY DEF RollbackSteps
<1>. HIDE DEF f
<1>5. \A a \in S : /\ Orderly(f[a]) /\ Cleans(f[a], a)
                   /\ \A i \in 1..Len(f[a]) : Releases(f[a][i])
  BY <1>1, <1>3
<1>. QED
  BY <1>2, <1>3, <1>4, <1>5, ReleasesJoin

(* The snapshot of stop() and suspend() comes first.                       *)
Announced(r) == <<Step("snapshot", 1, NoKind)>> \o r

(* A snapshot before a program releases nothing and changes no order.      *)
LEMMA SnapshotFirst ==
    ASSUME NEW r \in Programs
    PROVE  /\ Announced(r) \in Programs
           /\ Orderly(r) => Orderly(Announced(r))
           /\ \A a \in Members : Cleans(r, a) => Cleans(Announced(r), a)
           /\ \A s \in Steps : Has(r, s) => Has(Announced(r), s)
           /\ \A i \in 1..Len(Announced(r)) :
                 Announced(r)[i].do = "snapshot" \/ \E j \in 1..Len(r) : Announced(r)[i] = r[j]
<1>0. PICK q : q = Announced(r)
  OBVIOUS
<1>. PICK s \in Steps : s = Step("snapshot", 1, NoKind)
  BY StepsAreTyped
<1>1. s.do = "snapshot"
  BY DEF Step
<1>2. /\ q \in Programs /\ Len(q) = Len(r) + 1 /\ Len(r) \in Nat
      /\ q[1] = s /\ \A i \in 1..Len(r) : q[i + 1] = r[i]
  <2>1. q = <<s>> \o r /\ r \in Seq(Steps)
    BY <1>0 DEF Programs, Announced
  <2>. QED
    BY <2>1 DEF Programs
<1>. PICK n \in Nat : n = Len(r)
  BY <1>2
<1>3. \A i \in 1..(n + 1) : i = 1 \/ (i - 1 \in 1..n /\ q[i] = r[i - 1])
  <2>. SUFFICES ASSUME NEW i \in 1..(n + 1), i # 1
                PROVE  i - 1 \in 1..n /\ q[i] = r[i - 1]
    OBVIOUS
  <2>1. i - 1 \in 1..n /\ (i - 1) + 1 = i
    OBVIOUS
  <2>. QED
    BY <1>2, <2>1
<1>4. ASSUME Orderly(r) PROVE Orderly(q)
  <2>. SUFFICES ASSUME NEW i \in 1..(n + 1), q[i].do = "expire"
                PROVE  i > 1 /\ q[i - 1] = Step("revoke", q[i].actor, q[i].kind)
    BY <1>2 DEF Orderly
  <2>1. i - 1 \in 1..n /\ q[i] = r[i - 1]
    BY <1>1, <1>2, <1>3
  <2>2. i - 1 > 1 /\ r[i - 1 - 1] = Step("revoke", q[i].actor, q[i].kind)
    BY <1>4, <2>1 DEF Orderly
  <2>3. i - 1 \in 1..(n + 1) /\ i - 1 # 1
    BY <2>1, <2>2
  <2>4. q[i - 1] = r[i - 1 - 1]
    BY <1>3, <2>3
  <2>. QED
    BY <2>2, <2>4
<1>5. ASSUME NEW x, Has(r, x) PROVE Has(q, x)
  <2>1. PICK i \in 1..n : r[i] = x
    BY <1>5 DEF Has
  <2>2. i + 1 \in 1..Len(q) /\ q[i + 1] = x
    BY <1>2, <2>1
  <2>. QED
    BY <2>2 DEF Has
<1>6. \A a \in Members : Cleans(r, a) => Cleans(q, a)
  BY <1>5 DEF Cleans
<1>7. \A i \in 1..Len(q) : q[i].do = "snapshot" \/ \E j \in 1..Len(r) : q[i] = r[j]
  BY <1>1, <1>2, <1>3
<1>. QED
  BY <1>0, <1>2, <1>4, <1>5, <1>6, <1>7

(* stop(): a snapshot, then the cleanups.                                  *)
LEMMA StopProgram ==
    ASSUME NEW S \in SUBSET Members
    PROVE  /\ StopSteps(S) \in Programs /\ Orderly(StopSteps(S))
           /\ \A a \in S : Cleans(StopSteps(S), a)
           /\ \A i \in 1..Len(StopSteps(S)) :
                 Releases(StopSteps(S)[i]) \/ StopSteps(S)[i].do = "snapshot"
<1>1. PICK r \in Programs : r = RollbackSteps(S)
  BY RollbackProgram
<1>2. Orderly(r) /\ (\A a \in S : Cleans(r, a)) /\ \A i \in 1..Len(r) : Releases(r[i])
  BY <1>1, RollbackProgram
<1>3. StopSteps(S) = Announced(r)
  BY <1>1 DEF StopSteps, Announced
<1>. QED
  BY <1>2, <1>3, SnapshotFirst

(* suspend(): a snapshot, then the turns of the loop.                      *)
LEMMA SuspendProgram ==
    ASSUME NEW S \in SUBSET Members
    PROVE  /\ SuspendSteps(S) \in Programs /\ Orderly(SuspendSteps(S))
           /\ \A a \in S : Cleans(SuspendSteps(S), a) /\ Has(SuspendSteps(S), Step("forget", a, NoKind))
           /\ \A i \in 1..Len(SuspendSteps(S)) :
                 Releases(SuspendSteps(S)[i]) \/ SuspendSteps(S)[i].do = "snapshot"
<1>. DEFINE f == [a \in Members |-> IF a \in S THEN SuspendSession(a) ELSE <<>>]
<1>1. \A a \in Members : /\ SuspendSession(a) \in Programs
                         /\ Orderly(SuspendSession(a)) /\ Cleans(SuspendSession(a), a)
                         /\ \A i \in 1..Len(SuspendSession(a)) : Releases(SuspendSession(a)[i])
                         /\ Has(SuspendSession(a), Step("forget", a, NoKind))
  BY SuspendBlock
<1>2. f \in [Members -> Programs]
  BY <1>1, ProgramsJoin
<1>. PICK r : r = FlattenSeq(f)
  OBVIOUS
<1>4. SuspendSteps(S) = Announced(r)
  BY DEF SuspendSteps, Announced, SuspendSession
<1>3. /\ \A a \in Members \ S : f[a] = <<>>
      /\ \A a \in S : f[a] = SuspendSession(a)
  OBVIOUS
<1>. HIDE DEF f
<1>5. \A a \in S : /\ Orderly(f[a]) /\ Cleans(f[a], a)
                   /\ \A i \in 1..Len(f[a]) : Releases(f[a][i])
  BY <1>1, <1>3
<1>6. /\ r \in Programs /\ Orderly(r)
      /\ \A a \in S : Cleans(r, a)
      /\ \A i \in 1..Len(r) : Releases(r[i])
      /\ \A a \in S : \A i \in 1..Len(f[a]) : Has(r, f[a][i])
  BY <1>2, <1>3, <1>5, ReleasesJoin
<1>7. ASSUME NEW a \in S PROVE Has(r, Step("forget", a, NoKind))
  <2>. PICK s \in Steps : s = Step("forget", a, NoKind)
    BY StepsAreTyped
  <2>0. Has(SuspendSession(a), s) /\ f[a] = SuspendSession(a)
    BY <1>1, <1>3
  <2>1. PICK i \in 1..Len(f[a]) : f[a][i] = s
    BY <2>0 DEF Has
  <2>. QED
    BY <1>6, <2>1
<1>8. \A a \in S : Step("forget", a, NoKind) \in Steps
  BY StepsAreTyped
<1>. QED
  BY <1>4, <1>6, <1>7, <1>8, SnapshotFirst
(* The step after another in the program of create_primary().              *)
FollowsOn(q) == \A i \in 1..Len(q) :
    IF i = Len(q) THEN q[i].do = "register" /\ q[i].actor = CrewSize
    ELSE q[i + 1].actor = IF q[i].do = "register" THEN q[i].actor + 1 ELSE q[i].actor

(* An access is issued before it is activated.                             *)
IssuedFirst(q) == \A i \in 1..Len(q) : q[i].do = "activate" =>
    \E j \in 1..(i - 1) : q[j] = Step("issue", q[i].actor, q[i].kind)

(* create_primary(): each access is issued before it is activated.         *)
LEMMA AcquireProgram ==
    ASSUME NEW a \in Members
    PROVE  /\ Acquire(a) \in Programs /\ Len(Acquire(a)) = 9
           /\ \A i \in 1..9 : /\ Acquires(Acquire(a)[i]) /\ Acquire(a)[i].actor = a
                              /\ Acquire(a)[i].do = "register" <=> i = 9
<1>. DEFINE q == Acquire(a)
<1>0. {"model", "peer", "candidate"} = Kinds
  BY DEF Kinds
<1>1. /\ \A k \in Kinds : Step("issue", a, k) \in Steps /\ Step("activate", a, k) \in Steps
      /\ \A d \in {"bridge", "session", "register"} : Step(d, a, NoKind) \in Steps
  BY StepsAreTyped
<1>2. q \in Programs /\ Len(q) = 9
  BY <1>0, <1>1 DEF Programs, Acquire
<1>3. \A i \in 1..9 : /\ q[i].actor = a
                      /\ q[i].do \in {"issue", "bridge", "session", "activate", "register"}
                      /\ q[i].do \in {"issue", "activate"} => q[i].kind \in Kinds
                      /\ q[i].do = "register" <=> i = 9
  <2>1. /\ q[1] = Step("issue", a, "model") /\ q[2] = Step("issue", a, "peer")
        /\ q[3] = Step("issue", a, "candidate") /\ q[4] = Step("bridge", a, NoKind)
        /\ q[5] = Step("session", a, NoKind) /\ q[6] = Step("activate", a, "model")
        /\ q[7] = Step("activate", a, "candidate") /\ q[8] = Step("activate", a, "peer")
        /\ q[9] = Step("register", a, NoKind)
    BY DEF Acquire
  <2>. HIDE DEF q
  <2>. QED
    BY <2>1, <1>0 DEF Step
<1>4. \A i \in 1..9 : Acquires(q[i])
  <2>. HIDE DEF q
  <2>. QED
    BY <1>3 DEF Acquires
<1>. QED
  BY <1>2, <1>3, <1>4

(* One turn of the loop of resume(), in the same order.                    *)
LEMMA AcquireAgainProgram ==
    ASSUME NEW a \in Members
    PROVE  /\ AcquireAgain(a) \in Programs /\ Len(AcquireAgain(a)) = 10
           /\ \A i \in 1..10 : Acquires(AcquireAgain(a)[i])
           /\ IssuedFirst(AcquireAgain(a))
<1>. DEFINE q == AcquireAgain(a)
<1>0. {"model", "peer", "candidate"} = Kinds
  BY DEF Kinds
<1>1. /\ \A k \in Kinds : Step("issue", a, k) \in Steps /\ Step("activate", a, k) \in Steps
      /\ \A d \in {"bridge", "session", "verify", "register"} : Step(d, a, NoKind) \in Steps
  BY StepsAreTyped
<1>2. q \in Programs /\ Len(q) = 10
  BY <1>0, <1>1 DEF Programs, AcquireAgain
<1>3. /\ q[1] = Step("issue", a, "model") /\ q[2] = Step("issue", a, "peer")
      /\ q[3] = Step("issue", a, "candidate") /\ q[4] = Step("bridge", a, NoKind)
      /\ q[5] = Step("session", a, NoKind) /\ q[6] = Step("activate", a, "model")
      /\ q[7] = Step("activate", a, "candidate") /\ q[8] = Step("activate", a, "peer")
      /\ q[9] = Step("verify", a, NoKind) /\ q[10] = Step("register", a, NoKind)
  BY DEF AcquireAgain
<1>. HIDE DEF q
<1>4. \A i \in 1..10 : /\ q[i].actor = a
                       /\ q[i].do \in {"issue", "bridge", "session", "activate", "verify", "register"}
                       /\ q[i].do \in {"issue", "activate"} => q[i].kind \in Kinds
                       /\ q[i].do = "activate" <=> i \in {6, 7, 8}
  BY <1>3, <1>0 DEF Step
<1>5. \A i \in 1..10 : Acquires(q[i])
  BY <1>4 DEF Acquires
<1>6. ASSUME NEW i \in 1..10, q[i].do = "activate"
      PROVE  \E j \in 1..(i - 1) : q[j] = Step("issue", q[i].actor, q[i].kind)
  <2>1. i \in {6, 7, 8} /\ q[i].actor = a
    BY <1>4, <1>6
  <2>2. q[6].kind = "model" /\ q[7].kind = "candidate" /\ q[8].kind = "peer"
    BY <1>3 DEF Step
  <2>3. CASE i = 6
    BY <1>3, <2>1, <2>2, <2>3
  <2>4. CASE i = 7
    BY <1>3, <2>1, <2>2, <2>4
  <2>5. CASE i = 8
    BY <1>3, <2>1, <2>2, <2>5
  <2>. QED
    BY <2>1, <2>3, <2>4, <2>5
<1>7. IssuedFirst(q)
  BY <1>2, <1>6 DEF IssuedFirst
<1>. QED
  BY <1>2, <1>5, <1>7 DEF q

StartSteps == FlattenSeq([a \in Members |-> Acquire(a)])

(* start_organisation(): the actors are created one after the other.       *)
LEMMA StartProgram ==
    /\ StartSteps \in Programs /\ \A x \in 1..Len(StartSteps) : Acquires(StartSteps[x])
    /\ FollowsOn(StartSteps)
    /\ StartSteps = <<>> => CrewSize = 0
    /\ StartSteps # <<>> => StartSteps[1].actor = 1
<1>. DEFINE f == [a \in Members |-> Acquire(a)]
<1>0. PICK n \in Nat : n = CrewSize
  BY SessionsAssumption
<1>1. Members = 1..n
  BY <1>0 DEF Members
<1>2. f \in [1..n -> Programs]
  BY <1>1, AcquireProgram
<1>3. \A i \in 1..n : /\ Len(f[i]) = 9
                      /\ \A j \in 1..9 : /\ Acquires(f[i][j]) /\ f[i][j].actor = i
                                         /\ f[i][j].do = "register" <=> j = 9
  BY <1>1, AcquireProgram
<1>4. PICK q : q = StartSteps
  OBVIOUS
<1>5. q = FlattenSeq(f)
  BY <1>4 DEF StartSteps
<1>. HIDE DEF f
<1>6. /\ FlattenSeq(f) \in Programs
      /\ \E cut \in [0..n -> Nat] :
            /\ cut[0] = 0 /\ cut[n] = Len(FlattenSeq(f))
            /\ \A i \in 1..n : cut[i] = cut[i - 1] + Len(f[i])
            /\ \A i \in 1..n : \A j \in 1..Len(f[i]) :
                  /\ cut[i - 1] + j \in 1..Len(FlattenSeq(f))
                  /\ FlattenSeq(f)[cut[i - 1] + j] = f[i][j]
            /\ \A x \in 1..Len(FlattenSeq(f)) :
                  \E i \in 1..n : x - cut[i - 1] \in 1..Len(f[i])
  BY <1>2, FlattenBlocks
<1>7. q \in Programs
  BY <1>5, <1>6
<1>8. PICK m \in Nat : m = Len(q)
  BY <1>7 DEF Programs
<1>9. PICK cut \in [0..n -> Nat] :
        /\ cut[0] = 0 /\ cut[n] = m
        /\ \A i \in 1..n : cut[i] = cut[i - 1] + Len(f[i])
        /\ \A i \in 1..n : \A j \in 1..Len(f[i]) :
              cut[i - 1] + j \in 1..m /\ q[cut[i - 1] + j] = f[i][j]
        /\ \A x \in 1..m : \E i \in 1..n : x - cut[i - 1] \in 1..Len(f[i])
  BY <1>5, <1>6, <1>8
<1>10. /\ \A i \in 1..n : cut[i] = cut[i - 1] + 9
       /\ \A i \in 1..n : \A j \in 1..9 :
             cut[i - 1] + j \in 1..m /\ q[cut[i - 1] + j] = f[i][j]
       /\ \A x \in 1..m : \E i \in 1..n : x - cut[i - 1] \in 1..9
  BY <1>3, <1>9, ZenonT(30)
<1>11. ASSUME NEW x \in 1..m
       PROVE  /\ Acquires(q[x])
              /\ IF x = m THEN q[x].do = "register" /\ q[x].actor = n
                 ELSE q[x + 1].actor = IF q[x].do = "register" THEN q[x].actor + 1 ELSE q[x].actor
  <2>1. PICK i \in 1..n : x - cut[i - 1] \in 1..9
    BY <1>10
  <2>2. PICK c \in Nat : c = cut[i - 1]
    <3>. i - 1 \in 0..n
      OBVIOUS
    <3>. QED
      OBVIOUS
  <2>3. PICK j \in 1..9 : j = x - c
    BY <2>1, <2>2
  <2>4. c + j = x
    BY <2>3
  <2>5. \A y \in 1..9 : c + y \in 1..m /\ q[c + y] = f[i][y]
    BY <1>10, <2>2
  <2>6. Acquires(q[x]) /\ q[x].actor = i /\ (q[x].do = "register" <=> j = 9)
    <3>1. q[x] = f[i][j]
      BY <2>4, <2>5
    <3>2. Acquires(f[i][j]) /\ f[i][j].actor = i /\ (f[i][j].do = "register" <=> j = 9)
      BY <1>3
    <3>. QED
      BY <3>1, <3>2
  <2>7. CASE j # 9
    <3>1. j + 1 \in 1..9
      BY <2>7
    <3>2. c + (j + 1) = x + 1
      BY <2>4
    <3>3. c + (j + 1) \in 1..m /\ q[c + (j + 1)] = f[i][j + 1]
      BY <2>5, <3>1
    <3>4. x + 1 \in 1..m /\ q[x + 1] = f[i][j + 1]
      BY <3>2, <3>3
    <3>5. f[i][j + 1].actor = i
      BY <1>3, <3>1
    <3>6. x # m
      BY <3>4
    <3>. QED
      BY <2>6, <2>7, <3>4, <3>5, <3>6
  <2>8. CASE j = 9 /\ i # n
    <3>1. PICK k \in 1..n : k = i + 1
      BY <2>8
    <3>2. cut[i] = x
      BY <1>10, <2>2, <2>4, <2>8
    <3>3. cut[k - 1] + 1 \in 1..m /\ q[cut[k - 1] + 1] = f[k][1]
      BY <1>10
    <3>4. k - 1 = i
      BY <3>1
    <3>5. x + 1 \in 1..m /\ q[x + 1] = f[k][1] /\ f[k][1].actor = k
      BY <1>3, <3>2, <3>3, <3>4, SMTT(30)
    <3>6. x # m
      BY <3>5
    <3>. QED
      BY <2>6, <2>8, <3>1, <3>5, <3>6
  <2>9. CASE j = 9 /\ i = n
    <3>1. x = m
      BY <1>9, <1>10, <2>2, <2>4, <2>9
    <3>. QED
      BY <2>6, <2>9, <3>1
  <2>. QED
    BY <2>7, <2>8, <2>9
<1>12. FollowsOn(q) /\ \A x \in 1..Len(q) : Acquires(q[x])
  BY <1>0, <1>8, <1>11 DEF FollowsOn
<1>13. ASSUME n # 0 PROVE q # <<>> /\ q[1].actor = 1
  <2>1. PICK k \in 1..n, j \in 1..9 : k = 1 /\ j = 1
    BY <1>13
  <2>2. cut[k - 1] + j \in 1..m /\ q[cut[k - 1] + j] = f[k][j]
    BY <1>10
  <2>3. 1 \in 1..m /\ q[1] = f[1][1]
    <3>1. cut[k - 1] = 0
      BY <1>9, <2>1
    <3>. QED
      BY <2>1, <2>2, <3>1
  <2>4. f[1][1].actor = 1
    BY <1>3, <2>1
  <2>. QED
    BY <1>8, <2>3, <2>4
<1>14. ASSUME n = 0 PROVE q = <<>>
  <2>1. m = 0
    BY <1>9, <1>14
  <2>2. q \in Seq(Steps) /\ Len(q) = 0
    BY <1>7, <1>8, <2>1 DEF Programs
  <2>. QED
    BY <2>2
<1>. QED
  BY <1>0, <1>4, <1>7, <1>12, <1>13, <1>14

ResumeSteps == FlattenSeq([a \in Members |-> AcquireAgain(a)])

(* resume(): the sessions are opened again one after the other.            *)
LEMMA ResumeProgram ==
    /\ ResumeSteps \in Programs /\ \A x \in 1..Len(ResumeSteps) : Acquires(ResumeSteps[x])
    /\ IssuedFirst(ResumeSteps)
<1>. DEFINE f == [a \in Members |-> AcquireAgain(a)]
<1>0. PICK n \in Nat : n = CrewSize
  BY SessionsAssumption
<1>1. Members = 1..n
  BY <1>0 DEF Members
<1>2. f \in [1..n -> Programs]
  BY <1>1, AcquireAgainProgram
<1>3. \A i \in 1..n : /\ Len(f[i]) = 10 /\ IssuedFirst(f[i])
                      /\ \A j \in 1..10 : Acquires(f[i][j])
  BY <1>1, AcquireAgainProgram
<1>4. PICK q : q = ResumeSteps
  OBVIOUS
<1>5. q = FlattenSeq(f)
  BY <1>4 DEF ResumeSteps
<1>. HIDE DEF f
<1>6. /\ FlattenSeq(f) \in Programs
      /\ \E cut \in [0..n -> Nat] :
            /\ cut[0] = 0 /\ cut[n] = Len(FlattenSeq(f))
            /\ \A i \in 1..n : cut[i] = cut[i - 1] + Len(f[i])
            /\ \A i \in 1..n : \A j \in 1..Len(f[i]) :
                  /\ cut[i - 1] + j \in 1..Len(FlattenSeq(f))
                  /\ FlattenSeq(f)[cut[i - 1] + j] = f[i][j]
            /\ \A x \in 1..Len(FlattenSeq(f)) :
                  \E i \in 1..n : x - cut[i - 1] \in 1..Len(f[i])
  BY <1>2, FlattenBlocks
<1>7. q \in Programs
  BY <1>5, <1>6
<1>8. PICK m \in Nat : m = Len(q)
  BY <1>7 DEF Programs
<1>9. PICK cut \in [0..n -> Nat] :
        /\ \A i \in 1..n : \A j \in 1..Len(f[i]) :
              cut[i - 1] + j \in 1..m /\ q[cut[i - 1] + j] = f[i][j]
        /\ \A x \in 1..m : \E i \in 1..n : x - cut[i - 1] \in 1..Len(f[i])
  BY <1>5, <1>6, <1>8
<1>10. /\ \A i \in 1..n : \A j \in 1..10 :
             cut[i - 1] + j \in 1..m /\ q[cut[i - 1] + j] = f[i][j]
       /\ \A x \in 1..m : \E i \in 1..n : x - cut[i - 1] \in 1..10
  BY <1>3, <1>9
<1>11. ASSUME NEW x \in 1..m
       PROVE  /\ Acquires(q[x])
              /\ q[x].do = "activate" =>
                     \E y \in 1..(x - 1) : q[y] = Step("issue", q[x].actor, q[x].kind)
  <2>1. PICK i \in 1..n : x - cut[i - 1] \in 1..10
    BY <1>10
  <2>2. PICK c \in Nat : c = cut[i - 1]
    <3>. i - 1 \in 0..n
      OBVIOUS
    <3>. QED
      OBVIOUS
  <2>3. PICK j \in 1..10 : j = x - c
    BY <2>1, <2>2
  <2>4. c + j = x
    BY <2>3
  <2>5. \A y \in 1..10 : c + y \in 1..m /\ q[c + y] = f[i][y]
    BY <1>10, <2>2
  <2>6. Acquires(q[x]) /\ q[x] = f[i][j]
    BY <1>3, <2>4, <2>5
  <2>7. ASSUME q[x].do = "activate"
        PROVE  \E y \in 1..(x - 1) : q[y] = Step("issue", q[x].actor, q[x].kind)
    <3>1. IssuedFirst(f[i]) /\ Len(f[i]) = 10
      BY <1>3
    <3>2. PICK z \in 1..(j - 1) : f[i][z] = Step("issue", f[i][j].actor, f[i][j].kind)
      BY <2>6, <2>7, <3>1 DEF IssuedFirst
    <3>3. z \in 1..10
      OBVIOUS
    <3>4. c + z \in 1..(x - 1)
      BY <2>4
    <3>5. q[c + z] = f[i][z]
      BY <2>5, <3>3
    <3>6. q[c + z] = Step("issue", q[x].actor, q[x].kind)
      BY <2>6, <3>2, <3>5
    <3>. QED
      BY <3>4, <3>6
  <2>. QED
    BY <2>6, <2>7
<1>. QED
  BY <1>4, <1>7, <1>8, <1>11 DEF IssuedFirst

(* A step of a program is its head or a step of its tail.                  *)
LEMMA HeadAndTail ==
    ASSUME NEW q \in Programs, q # <<>>
    PROVE  /\ Head(q) \in Steps /\ Tail(q) \in Programs /\ Head(q) = q[1]
           /\ Len(q) \in Nat /\ Len(q) >= 1 /\ Len(Tail(q)) = Len(q) - 1
           /\ \A i \in 1..Len(Tail(q)) : i + 1 \in 1..Len(q) /\ Tail(q)[i] = q[i + 1]
           /\ \A s : Has(q, s) => s = Head(q) \/ Has(Tail(q), s)
<1>1. q \in Seq(Steps) /\ Tail(q) \in Seq(Steps)
  BY DEF Programs
<1>2. /\ Head(q) \in Steps /\ Tail(q) \in Programs /\ Head(q) = q[1]
      /\ Len(q) \in Nat /\ Len(q) >= 1 /\ Len(Tail(q)) = Len(q) - 1
  BY <1>1 DEF Programs
<1>3. \A i \in 1..Len(Tail(q)) : i + 1 \in 1..Len(q) /\ Tail(q)[i] = q[i + 1]
  BY <1>1
<1>4. ASSUME NEW s, Has(q, s), s # Head(q) PROVE Has(Tail(q), s)
  <2>1. PICK i \in 1..Len(q) : q[i] = s
    BY <1>4 DEF Has
  <2>2. PICK j \in 1..Len(Tail(q)) : j + 1 = i
    <3>1. i # 1
      BY <1>2, <1>4, <2>1
    <3>2. i - 1 \in 1..Len(Tail(q)) /\ (i - 1) + 1 = i
      BY <1>2, <3>1
    <3>. QED
      BY <3>2
  <2>. QED
    BY <1>3, <2>1, <2>2 DEF Has
<1>. QED
  BY <1>2, <1>3, <1>4

(* A program that has ended has no step.                                   *)
LEMMA EmptyHasNone == \A s : ~Has(<<>>, s)
  BY DEF Has

(* resume() pushes a callback on its stack.                                *)
LEMMA CallbackPushed ==
    ASSUME NEW s \in Steps, Acquires(s), NEW q \in Programs, Orderly(q),
           \A i \in 1..Len(q) : Releases(q[i])
    PROVE  LET r == Callback(s) \o q
           IN  /\ r \in Programs /\ Orderly(r)
               /\ \A i \in 1..Len(r) : Releases(r[i])
               /\ \A x : Has(q, x) => Has(r, x)
               /\ s.do = "issue" => /\ Has(r, Step("revoke", s.actor, s.kind))
                                   /\ Has(r, Step("expire", s.actor, s.kind))
               /\ s.do = "register" => Has(r, Step("forget", s.actor, NoKind))
<1>. DEFINE r == Callback(s) \o q
<1>1. PICK n \in Nat : n = Len(q)
  BY DEF Programs
<1>2. CASE s.do = "issue"
  <2>1. PICK u \in Steps : u = Step("revoke", s.actor, s.kind)
    BY <1>2, StepsAreTyped DEF Acquires
  <2>2. PICK v \in Steps : v = Step("expire", s.actor, s.kind)
    BY <1>2, StepsAreTyped DEF Acquires
  <2>3. r = <<u, v>> \o q
    BY <1>2, <2>1, <2>2 DEF Callback, Revoke
  <2>4. /\ r \in Programs /\ Len(r) = n + 2 /\ r[1] = u /\ r[2] = v
        /\ \A i \in 1..n : r[i + 2] = q[i]
    BY <1>1, <2>3 DEF Programs
  <2>. HIDE DEF r
  <2>5. \A i \in 1..(n + 2) : i = 1 \/ i = 2 \/ (i - 2 \in 1..n /\ r[i] = q[i - 2])
    <3>. SUFFICES ASSUME NEW i \in 1..(n + 2), i # 1, i # 2
                  PROVE  i - 2 \in 1..n /\ r[i] = q[i - 2]
      OBVIOUS
    <3>1. i - 2 \in 1..n /\ (i - 2) + 2 = i
      OBVIOUS
    <3>. QED
      BY <2>4, <3>1
  <2>6. /\ u.do = "revoke" /\ v.do = "expire" /\ u.actor = s.actor /\ v.actor = s.actor
        /\ u.kind = s.kind /\ v.kind = s.kind
    BY <2>1, <2>2 DEF Step
  <2>7. Orderly(r)
    <3>. SUFFICES ASSUME NEW i \in 1..(n + 2), r[i].do = "expire"
                  PROVE  i > 1 /\ r[i - 1] = Step("revoke", r[i].actor, r[i].kind)
      BY <2>4 DEF Orderly
    <3>1. CASE i = 1
      BY <2>4, <2>6, <3>1
    <3>2. CASE i = 2
      BY <2>1, <2>4, <2>6, <3>2
    <3>3. CASE i - 2 \in 1..n /\ r[i] = q[i - 2]
      <4>1. i - 2 > 1 /\ q[i - 2 - 1] = Step("revoke", r[i].actor, r[i].kind)
        BY <1>1, <3>3 DEF Orderly
      <4>2. i - 2 - 1 \in 1..n /\ (i - 2 - 1) + 2 = i - 1
        BY <3>3, <4>1
      <4>3. r[i - 1] = q[i - 2 - 1]
        BY <2>4, <4>2
      <4>. QED
        BY <4>1, <4>3
    <3>. QED
      BY <2>5, <3>1, <3>2, <3>3
  <2>8. \A i \in 1..Len(r) : Releases(r[i])
    <3>1. Releases(u) /\ Releases(v)
      BY <1>2, <2>6 DEF Releases, Acquires
    <3>. QED
      BY <1>1, <2>4, <2>5, <3>1
  <2>9. ASSUME NEW x, Has(q, x) PROVE Has(r, x)
    <3>1. PICK i \in 1..n : q[i] = x
      BY <1>1, <2>9 DEF Has
    <3>2. i + 2 \in 1..(n + 2) /\ r[i + 2] = x
      BY <2>4, <3>1
    <3>. QED
      BY <2>4, <3>2 DEF Has
  <2>10. Has(r, u) /\ Has(r, v)
    BY <2>4 DEF Has
  <2>. QED
    BY <1>2, <2>1, <2>2, <2>4, <2>7, <2>8, <2>9, <2>10 DEF r
<1>3. CASE s.do \in {"bridge", "register"}
  <2>1. PICK d \in {"close", "forget"} : d = IF s.do = "bridge" THEN "close" ELSE "forget"
    OBVIOUS
  <2>2. PICK u \in Steps : u = Step(d, s.actor, NoKind)
    BY StepsAreTyped DEF Acquires
  <2>3. r = <<u>> \o q
    BY <1>3, <2>1, <2>2 DEF Callback
  <2>4. /\ r \in Programs /\ Len(r) = n + 1 /\ r[1] = u
        /\ \A i \in 1..n : r[i + 1] = q[i]
    BY <1>1, <2>3 DEF Programs
  <2>. HIDE DEF r
  <2>5. \A i \in 1..(n + 1) : i = 1 \/ (i - 1 \in 1..n /\ r[i] = q[i - 1])
    <3>. SUFFICES ASSUME NEW i \in 1..(n + 1), i # 1
                  PROVE  i - 1 \in 1..n /\ r[i] = q[i - 1]
      OBVIOUS
    <3>1. i - 1 \in 1..n /\ (i - 1) + 1 = i
      OBVIOUS
    <3>. QED
      BY <2>4, <3>1
  <2>6. u.do = d /\ u.actor = s.actor
    BY <2>2 DEF Step
  <2>7. Orderly(r)
    <3>. SUFFICES ASSUME NEW i \in 1..(n + 1), r[i].do = "expire"
                  PROVE  i > 1 /\ r[i - 1] = Step("revoke", r[i].actor, r[i].kind)
      BY <2>4 DEF Orderly
    <3>1. CASE i = 1
      BY <2>4, <2>6, <3>1
    <3>2. CASE i - 1 \in 1..n /\ r[i] = q[i - 1]
      <4>1. i - 1 > 1 /\ q[i - 1 - 1] = Step("revoke", r[i].actor, r[i].kind)
        BY <1>1, <3>2 DEF Orderly
      <4>2. i - 1 - 1 \in 1..n /\ (i - 1 - 1) + 1 = i - 1
        BY <3>2, <4>1
      <4>3. r[i - 1] = q[i - 1 - 1]
        BY <2>4, <4>2
      <4>. QED
        BY <4>1, <4>3
    <3>. QED
      BY <2>5, <3>1, <3>2
  <2>8. \A i \in 1..Len(r) : Releases(r[i])
    <3>1. Releases(u)
      BY <2>6 DEF Releases, Acquires
    <3>. QED
      BY <1>1, <2>4, <2>5, <3>1
  <2>9. ASSUME NEW x, Has(q, x) PROVE Has(r, x)
    <3>1. PICK i \in 1..n : q[i] = x
      BY <1>1, <2>9 DEF Has
    <3>2. i + 1 \in 1..(n + 1) /\ r[i + 1] = x
      BY <2>4, <3>1
    <3>. QED
      BY <2>4, <3>2 DEF Has
  <2>10. Has(r, u)
    BY <2>4 DEF Has
  <2>. QED
    BY <1>3, <2>1, <2>2, <2>4, <2>7, <2>8, <2>9, <2>10 DEF r
<1>4. CASE s.do \notin {"issue", "bridge", "register"}
  <2>1. Callback(s) = <<>>
    BY <1>4 DEF Callback
  <2>2. r = q
    BY <2>1 DEF Programs
  <2>. QED
    BY <1>4, <2>2
<1>. QED
  BY <1>2, <1>3, <1>4-----------------------------------------------------------------------------
(* The operations that acquire, and those that release.                    *)
Acquiring == {"start", "resume"}
Releasing == {"unwind", "stop", "suspend", "rewind", "rollback"}

SessionTypes ==
    /\ org \in {"none", "active", "stopped"}
    /\ sess \in SUBSET Members /\ indexed \in SUBSET Members
    /\ bridge \in [Members -> {"none", "running", "broken"}]
    /\ cred \in [Members -> [Kinds -> {"none", "pending", "active"}]]
    /\ bound \in SUBSET (Members \X Kinds)
    /\ op \in {"idle"} \cup Acquiring \cup Releasing
    /\ toolCalls \in [Callers -> [stage : {"idle", "looked", "running"},
                                  actor : Members \cup {1}, kind : Kinds \cup {NoKind}]]

(* What the steps of an operation are.                                     *)
ProgramStands ==
    /\ todo \in Programs /\ undo \in Programs
    /\ op = "idle" => todo = <<>>
    /\ op # "resume" => undo = <<>>
    /\ op \in Acquiring => \A i \in 1..Len(todo) : Acquires(todo[i])
    /\ op \in Releasing => \A i \in 1..Len(todo) : Releases(todo[i]) \/ todo[i].do = "snapshot"
    /\ \A i \in 1..Len(undo) : Releases(undo[i])

(* An access is revoked before it is expired.                              *)
RevokedFirst ==
    /\ Orderly(undo)
    /\ \A i \in 1..Len(todo) : todo[i].do = "expire" =>
          \/ i > 1 /\ todo[i - 1] = Step("revoke", todo[i].actor, todo[i].kind)
          \/ i = 1 /\ cred[todo[i].actor][todo[i].kind] = "none"

(* A credential works, and a call runs, only while its access is bound.    *)
AccessStands ==
    /\ \A a \in Members, k \in Kinds : cred[a][k] = "active" => <<a, k>> \in bound
    /\ \A c \in Callers : toolCalls[c].stage = "running"
          => <<toolCalls[c].actor, toolCalls[c].kind>> \in bound

(* Who has anything: the actors in S, or one whose release is a step of q. *)
Covered(q, S) ==
    /\ \A a \in Members \ S : \A k \in Kinds :
          cred[a][k] # "none" => Has(q, Step("revoke", a, k))
    /\ \A a \in Members \ S : \A k \in Kinds :
          <<a, k>> \in bound => Has(q, Step("expire", a, k))

RunningClosed(q) == \A a \in Members : bridge[a] = "running" => Has(q, Step("close", a, NoKind))
BridgesClosed(q) == \A a \in Members : bridge[a] # "none" => Has(q, Step("close", a, NoKind))
BridgesOwned == \A a \in Members : bridge[a] # "none" => a \in sess
Forgotten(q) == \A a \in indexed : Has(q, Step("forget", a, NoKind))

Reached(a) == todo # <<>> => a <= Head(todo).actor

IdleStands == op = "idle" =>
    /\ indexed \subseteq sess
    /\ Covered(<<>>, IF org = "active" THEN sess ELSE {})
    /\ \A a \in Members : bridge[a] = "running" => org = "active"
    /\ BridgesOwned
    /\ org = "none" => sess = {}

StartStands == op = "start" =>
    /\ org = "active" /\ indexed = sess
    /\ sess = {a \in Members : todo # <<>> => a < Head(todo).actor}
    /\ FollowsOn(todo)
    /\ \A a \in Members : bridge[a] # "none" => Reached(a)
    /\ \A a \in Members, k \in Kinds : cred[a][k] # "none" \/ <<a, k>> \in bound => Reached(a)

UnwindStands == op = "unwind" =>
    org = "active" /\ indexed \subseteq sess /\ Covered(todo, sess)

StopStands == op = "stop" =>
    /\ org \in {"active", "stopped"} /\ indexed \subseteq sess
    /\ Covered(todo, {}) /\ RunningClosed(todo) /\ BridgesOwned

SuspendStands == op = "suspend" =>
    /\ org = "active" /\ indexed \subseteq sess
    /\ Covered(<<>>, sess) /\ Covered(todo, {})
    /\ BridgesClosed(todo) /\ BridgesOwned /\ Forgotten(todo)

ResumeStands == op = "resume" =>
    /\ org = "none" /\ sess = {} /\ Covered(undo, {}) /\ Forgotten(undo)
    /\ \A i \in 1..Len(todo) : todo[i].do = "activate" =>
          \/ /\ Has(undo, Step("revoke", todo[i].actor, todo[i].kind))
             /\ Has(undo, Step("expire", todo[i].actor, todo[i].kind))
          \/ \E j \in 1..(i - 1) : todo[j] = Step("issue", todo[i].actor, todo[i].kind)

RewindStands == op = "rewind" =>
    org = "none" /\ sess = {} /\ Covered(todo, {}) /\ Forgotten(todo)

RollbackStands == op = "rollback" =>
    /\ org \in {"active", "stopped"} /\ indexed \subseteq sess
    /\ Covered(todo, {}) /\ RunningClosed(todo) /\ BridgesOwned
    /\ ~errors => BridgesClosed(todo)

OperationStands ==
    /\ IdleStands /\ StartStands /\ UnwindStands /\ StopStands
    /\ SuspendStands /\ ResumeStands /\ RewindStands /\ RollbackStands

SessionsInv == SessionTypes /\ ProgramStands /\ RevokedFirst /\ AccessStands /\ OperationStands

(* Nothing is held before an organisation starts.                          *)
LEMMA SessionsInitInv == SessionsInit => SessionsInv
<1>. SUFFICES ASSUME SessionsInit PROVE SessionsInv
  OBVIOUS
<1>. USE DEF SessionsInit
<1>1. <<>> \in Programs /\ Len(<<>>) = 0
  BY ProgramsJoin
<1>2. SessionTypes
  <2>1. Idle \in [stage : {"idle", "looked", "running"}, actor : Members \cup {1}, kind : Kinds \cup {NoKind}]
    BY DEF Idle
  <2>. QED
    BY <2>1 DEF SessionTypes
<1>3. ProgramStands
  BY <1>1 DEF ProgramStands, Acquiring, Releasing
<1>4. RevokedFirst
  BY <1>1 DEF RevokedFirst, Orderly
<1>5. AccessStands
  BY DEF AccessStands, Idle
<1>6. OperationStands
  BY DEF OperationStands, IdleStands, StartStands, UnwindStands, StopStands, SuspendStands,
         ResumeStands, RewindStands, RollbackStands, Covered, BridgesOwned
<1>. QED
  BY <1>2, <1>3, <1>4, <1>5, <1>6 DEF SessionsInv

(* What a step that releases leaves behind, whether it returns or fails.   *)
Released(s) ==
    /\ sess' = sess /\ org' = org /\ toolCalls' = toolCalls
    /\ bridge' \in [Members -> {"none", "running", "broken"}]
    /\ cred' \in [Members -> [Kinds -> {"none", "pending", "active"}]]
    /\ \A a \in Members, k \in Kinds :
          /\ cred'[a][k] \in {cred[a][k], "none"}
          /\ cred'[a][k] # "none" => s # Step("revoke", a, k)
          /\ <<a, k>> \in bound' => s # Step("expire", a, k)
          /\ <<a, k>> \in bound \ bound' =>
                s.actor = a /\ s.kind = k /\ Clear(s)
                /\ (s.do = "expire" \/ (s.do = "revoke" /\ k = "peer" /\ cred'[a][k] = "none"))
    /\ bound' \subseteq bound
    /\ \A a \in Members :
          /\ bridge'[a] # "none" => bridge[a] # "none"
          /\ bridge'[a] = "running" => bridge[a] = "running" /\ s # Step("close", a, NoKind)
    /\ indexed' \subseteq indexed
    /\ \A a \in indexed' : s # Step("forget", a, NoKind)
    /\ s.do = "revoke" => cred'[s.actor][s.kind] = "none"

ClosedToo(s) == \A a \in Members : bridge'[a] # "none" => s # Step("close", a, NoKind)

(* A step of a releasing program that returns: what it released is gone.   *)
LEMMA StepsReleased ==
    ASSUME SessionTypes, NEW s, Releases(s) \/ s.do = "snapshot", op \in Releasing
    PROVE  Clear(s) /\ Effect(s) => Released(s) /\ ClosedToo(s)
<1>. SUFFICES ASSUME Clear(s), Effect(s) PROVE Released(s) /\ ClosedToo(s)
  OBVIOUS
<1>1. op # "start"
  BY DEF Releasing
<1>2. CASE s.do = "close"
  <2>1. /\ bridge' = [bridge EXCEPT ![s.actor] = "none"] /\ cred' = cred /\ bound' = bound
        /\ indexed' = indexed /\ sess' = sess /\ org' = org /\ toolCalls' = toolCalls
    BY <1>2 DEF Effect
  <2>2. s.actor \in Members
    BY <1>2 DEF Releases
  <2>3. /\ bridge' \in [Members -> {"none", "running", "broken"}]
        /\ \A a \in Members : bridge'[a] = IF a = s.actor THEN "none" ELSE bridge[a]
    BY <2>1, <2>2 DEF SessionTypes
  <2>4. \A a \in Members : s = Step("close", a, NoKind) => a = s.actor
    BY DEF Step
  <2>5. \A a \in Members, k \in Kinds :
           s # Step("revoke", a, k) /\ s # Step("expire", a, k) /\ s # Step("forget", a, NoKind)
    BY <1>2 DEF Step
  <2>6. \A a \in Members : s # Step("forget", a, NoKind)
    BY <1>2 DEF Step
  <2>. QED
    BY <1>2, <2>1, <2>3, <2>4, <2>5, <2>6 DEF SessionTypes, Released, ClosedToo
<1>3. CASE s.do = "revoke"
  <2>1. /\ bridge' = bridge /\ cred' = [cred EXCEPT ![s.actor][s.kind] = "none"]
        /\ bound' = IF s.kind = "peer" THEN bound \ {<<s.actor, s.kind>>} ELSE bound
        /\ indexed' = indexed /\ sess' = sess /\ org' = org /\ toolCalls' = toolCalls
    BY <1>3 DEF Effect
  <2>2. s.actor \in Members /\ s.kind \in Kinds
    BY <1>3 DEF Releases
  <2>. QED
    BY <1>3, <2>1, <2>2 DEF SessionTypes, Released, ClosedToo, Step
<1>4. CASE s.do = "expire"
  <2>1. /\ bridge' = bridge /\ cred' = cred /\ bound' = bound \ {<<s.actor, s.kind>>}
        /\ indexed' = indexed /\ sess' = sess /\ org' = org /\ toolCalls' = toolCalls
    BY <1>4 DEF Effect
  <2>2. s.actor \in Members /\ s.kind \in Kinds
    BY <1>4 DEF Releases
  <2>. QED
    BY <1>4, <2>1, <2>2 DEF SessionTypes, Released, ClosedToo, Step
<1>5. CASE s.do = "forget"
  <2>1. /\ bridge' = bridge /\ cred' = cred /\ bound' = bound
        /\ indexed' = indexed \ {s.actor} /\ sess' = sess /\ org' = org /\ toolCalls' = toolCalls
    BY <1>5 DEF Effect
  <2>. QED
    BY <1>5, <2>1 DEF SessionTypes, Released, ClosedToo, Step
<1>6. CASE s.do = "snapshot"
  <2>1. /\ bridge' = bridge /\ cred' = cred /\ bound' = bound
        /\ indexed' = indexed /\ sess' = sess /\ org' = org /\ toolCalls' = toolCalls
    BY <1>6 DEF Effect
  <2>. QED
    BY <1>6, <2>1 DEF SessionTypes, Released, ClosedToo, Step
<1>. QED
  BY <1>2, <1>3, <1>4, <1>5, <1>6 DEF Releases

(* The same when the step raises: the program goes on, and what an access had*)
(* is gone all the same.                                                   *)
LEMMA FailuresReleased ==
    ASSUME SessionTypes, todo # <<>>, op \in Releasing,
           Releases(Head(todo)) \/ Head(todo).do = "snapshot"
    PROVE  /\ StepFails => Released(Head(todo))
           /\ StepImpossible => Released(Head(todo))
<1>1. PICK s : s = Head(todo)
  OBVIOUS
<1>2. Releases(s) \/ s.do = "snapshot"
  BY <1>1
<1>3. ASSUME StepImpossible PROVE Released(s)
  <2>1. s.do = "snapshot"
    BY <1>1, <1>2, <1>3 DEF StepImpossible, Possible, Releases
  <2>2. /\ bridge' = bridge /\ cred' = cred /\ bound' = bound /\ indexed' = indexed
        /\ sess' = sess /\ org' = org /\ toolCalls' = toolCalls
    BY <1>3 DEF StepImpossible, resources
  <2>. QED
    BY <2>1, <2>2 DEF SessionTypes, Released, Step
<1>4. ASSUME StepFails PROVE Released(s)
  <2>1. /\ s.do # "forget" /\ Clear(s)
        /\ s.do = "revoke" => s.kind = "peer"
        /\ indexed' = indexed /\ sess' = sess /\ org' = org /\ toolCalls' = toolCalls
        /\ cred' = IF s.do = "revoke" THEN [cred EXCEPT ![s.actor][s.kind] = "none"] ELSE cred
        /\ bound' = IF s.do \in {"revoke", "expire"} THEN bound \ {<<s.actor, s.kind>>} ELSE bound
    BY <1>1, <1>4 DEF StepFails
  <2>2. CASE s.do = "close"
    <3>0. bridge' \in CASE s.do \in {"session", "verify", "close"} /\ bridge[s.actor] # "none"
                              -> {[bridge EXCEPT ![s.actor] = "broken"]}
                                  \cup (IF s.do = "close" THEN {} ELSE {bridge})
                         [] OTHER -> {bridge}
      BY <1>1, <1>4 DEF StepFails
    <3>1. bridge' = IF bridge[s.actor] # "none" THEN [bridge EXCEPT ![s.actor] = "broken"] ELSE bridge
      <4>1. CASE bridge[s.actor] # "none"
        BY <2>2, <3>0, <4>1
      <4>2. CASE bridge[s.actor] = "none"
        BY <2>2, <3>0, <4>2
      <4>. QED
        BY <4>1, <4>2
    <3>2. s.actor \in Members
      BY <1>2, <2>2 DEF Releases
    <3>3. bridge' = bridge => bridge[s.actor] # "running"
      BY <3>1, <3>2 DEF SessionTypes
    <3>4. /\ bridge' \in [Members -> {"none", "running", "broken"}]
          /\ \A a \in Members : /\ bridge'[a] # "none" => bridge[a] # "none"
                                /\ bridge'[a] = "running" => bridge[a] = "running" /\ a # s.actor
      BY <3>1, <3>2, <3>3 DEF SessionTypes
    <3>5. \A a \in Members : s = Step("close", a, NoKind) => a = s.actor
      BY DEF Step
    <3>6. /\ \A a \in Members, k \in Kinds : s # Step("revoke", a, k) /\ s # Step("expire", a, k)
          /\ \A a \in Members : s # Step("forget", a, NoKind)
      BY <2>2 DEF Step
    <3>7. cred' = cred /\ bound' = bound
      BY <2>1, <2>2
    <3>. QED
      BY <2>1, <2>2, <3>4, <3>5, <3>6, <3>7 DEF SessionTypes, Released
  <2>3. CASE s.do # "close"
    <3>1. bridge' = bridge
      BY <1>1, <1>2, <1>4, <2>3 DEF StepFails, Releases
    <3>2. s.do \in {"revoke", "expire"} => s.actor \in Members /\ s.kind \in Kinds
      BY <1>2 DEF Releases
    <3>3. s.do \in {"revoke", "expire", "snapshot"}
      BY <1>2, <2>1, <2>3 DEF Releases
    <3>4. CASE s.do = "revoke"
      BY <2>1, <3>1, <3>2, <3>4 DEF SessionTypes, Released, Step
    <3>5. CASE s.do = "expire"
      BY <2>1, <3>1, <3>2, <3>5 DEF SessionTypes, Released, Step
    <3>6. CASE s.do = "snapshot"
      BY <2>1, <3>1, <3>6 DEF SessionTypes, Released, Step
    <3>. QED
      BY <3>3, <3>4, <3>5, <3>6
  <2>. QED
    BY <2>2, <2>3
<1>. QED
  BY <1>1, <1>3, <1>4

(* The step is gone from the program, or suspend() has given up.           *)
LEMMA ReleasingSteps ==
    ASSUME SessionTypes, ProgramStands, op \in Releasing,
           StepReturns \/ StepFails \/ StepImpossible
    PROVE  /\ todo # <<>> /\ (Releases(Head(todo)) \/ Head(todo).do = "snapshot")
           /\ Released(Head(todo)) /\ undo' = undo
           /\ \/ /\ op' = op /\ todo' = Tail(todo)
                 /\ \/ ClosedToo(Head(todo)) /\ errors' = errors
                    \/ op # "suspend" /\ errors' = TRUE
              \/ op = "suspend" /\ op' = "idle" /\ todo' = <<>>
<1>1. todo # <<>> /\ todo \in Programs
  BY DEF StepReturns, StepFails, StepImpossible, ProgramStands
<1>2. Releases(Head(todo)) \/ Head(todo).do = "snapshot"
  BY <1>1, HeadAndTail DEF ProgramStands
<1>3. op # "resume" /\ op # "start"
  BY DEF Releasing
<1>4. CASE StepReturns
  <2>1. Clear(Head(todo)) /\ Effect(Head(todo)) /\ undo' = undo /\ todo' = Tail(todo)
        /\ op' = op /\ errors' = errors
    BY <1>3, <1>4 DEF StepReturns
  <2>. QED
    BY <1>1, <1>2, <2>1, StepsReleased
<1>5. CASE StepFails \/ StepImpossible
  <2>1. Raises(Head(todo)) /\ Released(Head(todo))
    BY <1>1, <1>2, <1>5, FailuresReleased DEF StepFails, StepImpossible
  <2>2. CASE op = "suspend"
    BY <1>1, <1>2, <2>1, <2>2 DEF Raises, Runs
  <2>3. CASE op # "suspend"
    BY <1>1, <1>2, <1>3, <2>1, <2>3 DEF Raises, Runs
  <2>. QED
    BY <2>2, <2>3
<1>. QED
  BY <1>4, <1>5

(* The access a call runs under is not taken away from it.                 *)
LEMMA ReleasedKeepsAccess ==
    ASSUME SessionTypes, AccessStands, RevokedFirst, ProgramStands, todo # <<>>,
           NEW s, s = Head(todo), Released(s)
    PROVE  AccessStands'
<1>1. todo \in Programs /\ s = todo[1] /\ 1 \in 1..Len(todo)
  BY HeadAndTail DEF ProgramStands
<1>2. ASSUME NEW a \in Members, NEW k \in Kinds, <<a, k>> \in bound, <<a, k>> \notin bound'
      PROVE  /\ cred'[a][k] = "none"
             /\ ~Calling(a, k)
  <2>1. /\ s.actor = a /\ s.kind = k /\ Clear(s)
        /\ s.do = "expire" \/ (s.do = "revoke" /\ k = "peer" /\ cred'[a][k] = "none")
    BY <1>2 DEF Released
  <2>2. CASE s.do = "expire"
    <3>1. cred[a][k] = "none"
      BY <1>1, <2>1, <2>2 DEF RevokedFirst
    <3>2. ~Calling(a, k)
      BY <2>1, <2>2 DEF Clear
    <3>3. cred'[a][k] \in {cred[a][k], "none"}
      BY DEF Released
    <3>. QED
      BY <3>1, <3>2, <3>3
  <2>3. CASE s.do # "expire"
    BY <2>1, <2>3 DEF Clear
  <2>. QED
    BY <2>2, <2>3
<1>3. \A a \in Members, k \in Kinds : cred'[a][k] = "active" => <<a, k>> \in bound'
  BY <1>2 DEF AccessStands, Released
<1>4. ASSUME NEW c \in Callers, toolCalls'[c].stage = "running"
      PROVE  <<toolCalls'[c].actor, toolCalls'[c].kind>> \in bound'
  <2>1. PICK a, k : a = toolCalls[c].actor /\ k = toolCalls[c].kind
    OBVIOUS
  <2>2. toolCalls' = toolCalls
    BY DEF Released
  <2>3. <<a, k>> \in bound /\ a \in Members /\ k \in Kinds
    BY <1>4, <2>1, <2>2 DEF AccessStands, SessionTypes
  <2>4. Calling(a, k)
    BY <1>4, <2>1, <2>2 DEF Calling
  <2>. QED
    BY <1>2, <2>1, <2>2, <2>3, <2>4
<1>. QED
  BY <1>3, <1>4 DEF AccessStands

(* What a releasing step does to accesses and to the calls that use them.  *)
LEMMA ReleasedAccess ==
    ASSUME NEW s, Released(s), NEW a \in Members, NEW k \in Kinds
    PROVE  /\ cred'[a][k] \in {cred[a][k], "none"}
           /\ cred'[a][k] # "none" => s # Step("revoke", a, k)
           /\ <<a, k>> \in bound' => <<a, k>> \in bound /\ s # Step("expire", a, k)
<1>1. cred'[a][k] \in {cred[a][k], "none"}
  BY DEF Released
<1>2. cred'[a][k] # "none" => s # Step("revoke", a, k)
  BY DEF Released
<1>3. <<a, k>> \in bound' => <<a, k>> \in bound /\ s # Step("expire", a, k)
  BY DEF Released
<1>. QED
  BY <1>1, <1>2, <1>3

(* What is covered by a program is covered by what is left of it.          *)
LEMMA ReleasedStaysCovered ==
    ASSUME todo \in Programs, todo # <<>>, todo' = Tail(todo), Released(Head(todo))
    PROVE  /\ \A S : Covered(todo, S) => Covered(todo, S)'
           /\ RunningClosed(todo) => RunningClosed(todo)'
           /\ BridgesClosed(todo) /\ ClosedToo(Head(todo)) => BridgesClosed(todo)'
           /\ Forgotten(todo) => Forgotten(todo)'
<1>1. PICK s : s = Head(todo)
  OBVIOUS
<1>2. \A x : Has(todo, x) /\ x # s => Has(todo', x)
  BY <1>1, HeadAndTail
<1>3. Released(s)
  BY <1>1
<1>4. ASSUME NEW S, Covered(todo, S) PROVE Covered(todo, S)'
  <2>1. ASSUME NEW a \in Members \ S, NEW k \in Kinds, cred'[a][k] # "none"
        PROVE  Has(todo', Step("revoke", a, k))
    <3>1. cred[a][k] # "none" /\ s # Step("revoke", a, k)
      BY <1>3, <2>1, ReleasedAccess
    <3>. QED
      BY <1>2, <1>4, <3>1 DEF Covered
  <2>2. ASSUME NEW a \in Members \ S, NEW k \in Kinds, <<a, k>> \in bound'
        PROVE  Has(todo', Step("expire", a, k))
    <3>1. <<a, k>> \in bound /\ s # Step("expire", a, k)
      BY <1>3, <2>2, ReleasedAccess
    <3>. QED
      BY <1>2, <1>4, <3>1 DEF Covered
  <2>. QED
    BY <2>1, <2>2 DEF Covered
<1>5. RunningClosed(todo) => RunningClosed(todo)'
  BY <1>2, <1>3 DEF RunningClosed, Released
<1>6. BridgesClosed(todo) /\ ClosedToo(s) => BridgesClosed(todo)'
  BY <1>2, <1>3 DEF BridgesClosed, Released, ClosedToo
<1>7. Forgotten(todo) => Forgotten(todo)'
  BY <1>2, <1>3 DEF Forgotten, Released
<1>. QED
  BY <1>1, <1>4, <1>5, <1>6, <1>7

(* A step of a releasing program preserves what is left to release.        *)
LEMMA ReleasedLeavesNothing ==
    ASSUME NEW s, Released(s)
    PROVE  /\ \A S : Covered(<<>>, S) => Covered(<<>>, S)'
           /\ BridgesOwned => BridgesOwned'
           /\ indexed \subseteq sess => (indexed \subseteq sess)'
<1>1. ASSUME NEW S, Covered(<<>>, S) PROVE Covered(<<>>, S)'
  <2>1. \A a \in Members \ S, k \in Kinds : cred'[a][k] = "none"
    BY <1>1, EmptyHasNone, ReleasedAccess DEF Covered
  <2>2. \A a \in Members \ S, k \in Kinds : <<a, k>> \notin bound'
    BY <1>1, EmptyHasNone, ReleasedAccess DEF Covered
  <2>. QED
    BY <2>1, <2>2 DEF Covered
<1>2. BridgesOwned => BridgesOwned'
  BY DEF BridgesOwned, Released
<1>. QED
  BY <1>1, <1>2 DEF Released
(* The steps of an operation that releases keep the invariant.             *)
LEMMA ReleasingKeepsInv ==
    ASSUME SessionsInv, op \in Releasing, StepReturns \/ StepFails \/ StepImpossible
    PROVE  SessionsInv'
<1>. USE DEF SessionsInv
<1>1. /\ todo # <<>> /\ todo \in Programs
      /\ Released(Head(todo)) /\ undo' = undo
  BY ReleasingSteps DEF ProgramStands
<1>2. \/ /\ op' = op /\ todo' = Tail(todo)
         /\ \/ ClosedToo(Head(todo)) /\ errors' = errors
            \/ op # "suspend" /\ errors' = TRUE
      \/ op = "suspend" /\ op' = "idle" /\ todo' = <<>>
  BY ReleasingSteps
<1>3. /\ Len(todo) \in Nat /\ Len(Tail(todo)) = Len(todo) - 1 /\ Tail(todo) \in Programs
      /\ Head(todo) = todo[1]
      /\ \A i \in 1..Len(Tail(todo)) : i + 1 \in 1..Len(todo) /\ Tail(todo)[i] = todo[i + 1]
  BY <1>1, HeadAndTail
<1>4. <<>> \in Programs /\ Len(<<>>) = 0
  BY ProgramsJoin
<1>5. SessionTypes'
  <2>1. /\ sess' = sess /\ org' = org /\ toolCalls' = toolCalls
        /\ bridge' \in [Members -> {"none", "running", "broken"}]
        /\ cred' \in [Members -> [Kinds -> {"none", "pending", "active"}]]
        /\ bound' \subseteq bound /\ indexed' \subseteq indexed
    BY <1>1 DEF Released
  <2>. QED
    BY <1>2, <2>1 DEF SessionTypes
<1>6. ProgramStands'
  <2>1. op # "resume" /\ op # "idle" /\ op \notin Acquiring
    BY DEF Releasing, Acquiring
  <2>2. CASE op' = op /\ todo' = Tail(todo)
    BY <1>1, <1>3, <2>1, <2>2 DEF ProgramStands
  <2>3. CASE op' = "idle" /\ todo' = <<>>
    BY <1>1, <1>4, <2>1, <2>3 DEF ProgramStands, Releasing, Acquiring
  <2>. QED
    BY <1>2, <2>2, <2>3
<1>7. RevokedFirst'
  <2>1. CASE todo' = <<>>
    BY <1>1, <1>4, <2>1 DEF RevokedFirst
  <2>2. CASE todo' = Tail(todo)
    <3>1. Orderly(undo)'
      BY <1>1 DEF RevokedFirst, Orderly
    <3>2. PICK n \in Nat : n = Len(Tail(todo))
      <4>1. Tail(todo) \in Seq(Steps)
        BY <1>3 DEF Programs
      <4>. QED
        BY <4>1
    <3>3. ASSUME NEW i \in 1..n, todo'[i].do = "expire"
          PROVE  \/ i > 1 /\ todo'[i - 1] = Step("revoke", todo'[i].actor, todo'[i].kind)
                 \/ i = 1 /\ cred'[todo'[i].actor][todo'[i].kind] = "none"
      <4>1. i + 1 \in 1..Len(todo) /\ todo'[i] = todo[i + 1]
        BY <1>3, <2>2, <3>2
      <4>2. (i + 1) - 1 = i /\ i + 1 # 1
        OBVIOUS
      <4>3. todo[(i + 1) - 1] = Step("revoke", todo'[i].actor, todo'[i].kind)
        BY <3>3, <4>1, <4>2 DEF RevokedFirst
      <4>4. todo[i] = Step("revoke", todo'[i].actor, todo'[i].kind)
        BY <4>2, <4>3
      <4>5. CASE i = 1
        <5>1. todo[1].do = "revoke" /\ todo[1].actor = todo'[i].actor /\ todo[1].kind = todo'[i].kind
          BY <4>4, <4>5 DEF Step
        <5>2. cred'[todo[1].actor][todo[1].kind] = "none"
          BY <1>1, <1>3, <5>1 DEF Released
        <5>. QED
          BY <4>5, <5>1, <5>2
      <4>6. CASE i # 1
        <5>1. i - 1 \in 1..n /\ (i - 1) + 1 = i
          BY <4>6
        <5>2. todo'[i - 1] = todo[i]
          BY <1>3, <2>2, <3>2, <5>1
        <5>. QED
          BY <4>4, <4>6, <5>2
      <4>. QED
        BY <4>5, <4>6
    <3>. QED
      BY <2>2, <3>1, <3>2, <3>3 DEF RevokedFirst
  <2>. QED
    BY <1>2, <2>1, <2>2
<1>8. AccessStands'
  BY <1>1, ReleasedKeepsAccess
<1>9. sess' = sess /\ org' = org
  BY <1>1 DEF Released
<1>10. /\ \A S : Covered(<<>>, S) => Covered(<<>>, S)'
       /\ BridgesOwned => BridgesOwned'
       /\ indexed \subseteq sess => indexed' \subseteq sess'
  BY <1>1, ReleasedLeavesNothing
<1>11. CASE op' = op /\ todo' = Tail(todo)
  <2>1. /\ \A S : Covered(todo, S) => Covered(todo, S)'
        /\ RunningClosed(todo) => RunningClosed(todo)'
        /\ BridgesClosed(todo) /\ ClosedToo(Head(todo)) => BridgesClosed(todo)'
        /\ Forgotten(todo) => Forgotten(todo)'
    BY <1>1, <1>11, ReleasedStaysCovered
  <2>2. IdleStands' /\ StartStands' /\ ResumeStands'
    BY <1>11 DEF IdleStands, StartStands, ResumeStands, Releasing
  <2>3. UnwindStands'
    <3>. SUFFICES ASSUME op = "unwind" PROVE UnwindStands'
      BY <1>11 DEF UnwindStands
    <3>1. org = "active" /\ indexed \subseteq sess /\ Covered(todo, sess)
      BY DEF OperationStands, UnwindStands
    <3>2. Covered(todo, sess)'
      <4>1. PICK S : S = sess
        OBVIOUS
      <4>2. Covered(todo, S)'
        BY <2>1, <3>1, <4>1
      <4>. QED
        BY <1>9, <4>1, <4>2 DEF Covered
    <3>. QED
      BY <1>9, <1>10, <3>1, <3>2 DEF UnwindStands
  <2>4. StopStands'
    BY <1>9, <1>10, <1>11, <2>1 DEF OperationStands, StopStands
  <2>5. SuspendStands'
    <3>. SUFFICES ASSUME op = "suspend" PROVE SuspendStands'
      BY <1>11 DEF SuspendStands
    <3>1. Covered(<<>>, sess)'
      <4>1. PICK S : S = sess
        OBVIOUS
      <4>2. Covered(<<>>, S)'
        BY <1>10, <4>1 DEF OperationStands, SuspendStands
      <4>. QED
        BY <1>9, <4>1, <4>2 DEF Covered
    <3>2. ClosedToo(Head(todo))
      BY <1>2, <1>11
    <3>. QED
      BY <1>9, <1>10, <2>1, <3>1, <3>2 DEF OperationStands, SuspendStands
  <2>6. RewindStands'
    BY <1>9, <1>11, <2>1 DEF OperationStands, RewindStands
  <2>7. RollbackStands'
    <3>. SUFFICES ASSUME op = "rollback" PROVE RollbackStands'
      BY <1>11 DEF RollbackStands
    <3>1. ~errors' => ClosedToo(Head(todo)) /\ ~errors
      BY <1>2, <1>11
    <3>. QED
      BY <1>9, <1>10, <2>1, <3>1 DEF OperationStands, RollbackStands
  <2>. QED
    BY <1>5, <1>6, <1>7, <1>8, <2>2, <2>3, <2>4, <2>5, <2>6, <2>7 DEF OperationStands
<1>12. CASE op = "suspend" /\ op' = "idle" /\ todo' = <<>>
  <2>1. /\ org = "active" /\ indexed \subseteq sess /\ Covered(<<>>, sess) /\ BridgesOwned
    BY <1>12 DEF OperationStands, SuspendStands
  <2>2. Covered(<<>>, sess)'
    <3>1. PICK S : S = sess
      OBVIOUS
    <3>2. Covered(<<>>, S)'
      BY <1>10, <2>1, <3>1
    <3>. QED
      BY <1>9, <3>1, <3>2 DEF Covered
  <2>3. IdleStands'
    BY <1>9, <1>10, <2>1, <2>2 DEF IdleStands
  <2>4. /\ StartStands' /\ UnwindStands' /\ StopStands' /\ SuspendStands'
        /\ ResumeStands' /\ RewindStands' /\ RollbackStands'
    BY <1>12 DEF StartStands, UnwindStands, StopStands, SuspendStands, ResumeStands, RewindStands,
                 RollbackStands
  <2>. QED
    BY <1>5, <1>6, <1>7, <1>8, <2>3, <2>4 DEF OperationStands
<1>. QED
  BY <1>2, <1>11, <1>12
(* What a step that acquires adds.                                         *)
Acquired(s) ==
    /\ org' = org /\ toolCalls' = toolCalls
    /\ bridge' \in [Members -> {"none", "running", "broken"}]
    /\ cred' \in [Members -> [Kinds -> {"none", "pending", "active"}]]
    /\ bound \subseteq bound' /\ bound' \in SUBSET (Members \X Kinds)
    /\ \A a \in Members : bridge'[a] # "none" => bridge[a] # "none" \/ a = s.actor
    /\ \A a \in Members, k \in Kinds :
          /\ cred'[a][k] # "none" => cred[a][k] # "none"
                \/ (s.do \in {"issue", "activate"} /\ a = s.actor /\ k = s.kind)
          /\ <<a, k>> \in bound' => <<a, k>> \in bound
                \/ (s.do = "activate" /\ a = s.actor /\ k = s.kind)
          /\ cred'[a][k] = "active" => <<a, k>> \in bound'
    /\ indexed' = IF s.do = "register" THEN indexed \cup {s.actor} ELSE indexed
    /\ sess' = IF s.do = "register" /\ op = "start" THEN sess \cup {s.actor} ELSE sess

(* A step of an acquiring program that returns.                            *)
LEMMA StepsAcquired ==
    ASSUME SessionTypes, AccessStands, NEW s, Acquires(s), Effect(s)
    PROVE  Acquired(s)
<1>1. /\ org' = org /\ toolCalls' = toolCalls /\ s.actor \in Members
      /\ indexed' = IF s.do = "register" THEN indexed \cup {s.actor} ELSE indexed
      /\ sess' = IF s.do = "register" /\ op = "start" THEN sess \cup {s.actor} ELSE sess
  BY DEF Effect, Acquires
<1>2. CASE s.do = "bridge"
  <2>1. bridge' = [bridge EXCEPT ![s.actor] = "running"] /\ cred' = cred /\ bound' = bound
    BY <1>2 DEF Effect
  <2>2. /\ bridge' \in [Members -> {"none", "running", "broken"}]
        /\ \A a \in Members : bridge'[a] # "none" => bridge[a] # "none" \/ a = s.actor
    BY <1>1, <2>1 DEF SessionTypes
  <2>. QED
    BY <1>1, <1>2, <2>1, <2>2 DEF Acquired, SessionTypes, AccessStands
<1>3. CASE s.do \in {"issue", "activate"}
  <2>1. PICK v \in {"pending", "active"} : v = IF s.do = "issue" THEN "pending" ELSE "active"
    OBVIOUS
  <2>2. /\ bridge' = bridge /\ cred' = [cred EXCEPT ![s.actor][s.kind] = v]
        /\ bound' = IF s.do = "activate" THEN bound \cup {<<s.actor, s.kind>>} ELSE bound
    BY <1>3, <2>1 DEF Effect
  <2>3. s.kind \in Kinds
    BY <1>3 DEF Acquires
  <2>4. /\ cred' \in [Members -> [Kinds -> {"none", "pending", "active"}]]
        /\ \A a \in Members, k \in Kinds :
              cred'[a][k] = IF a = s.actor /\ k = s.kind THEN v ELSE cred[a][k]
    BY <1>1, <2>2, <2>3 DEF SessionTypes
  <2>5. bound \subseteq bound' /\ bound' \in SUBSET (Members \X Kinds)
    BY <1>1, <2>2, <2>3 DEF SessionTypes
  <2>6. ASSUME NEW a \in Members, NEW k \in Kinds
        PROVE  /\ cred'[a][k] # "none" => cred[a][k] # "none"
                     \/ (s.do \in {"issue", "activate"} /\ a = s.actor /\ k = s.kind)
               /\ <<a, k>> \in bound' => <<a, k>> \in bound
                     \/ (s.do = "activate" /\ a = s.actor /\ k = s.kind)
               /\ cred'[a][k] = "active" => <<a, k>> \in bound'
    BY <1>3, <2>1, <2>2, <2>4 DEF AccessStands
  <2>. QED
    BY <1>1, <1>3, <2>2, <2>4, <2>5, <2>6 DEF Acquired, SessionTypes
<1>4. CASE s.do \in {"session", "verify", "register"}
  <2>1. bridge' = bridge /\ cred' = cred /\ bound' = bound
    BY <1>4 DEF Effect
  <2>. QED
    BY <1>1, <1>4, <2>1 DEF Acquired, SessionTypes, AccessStands
<1>. QED
  BY <1>2, <1>3, <1>4 DEF Acquires

(* A step that acquires and raises has only ever broken a bridge.          *)
AcquireFailed ==
    /\ org' = org /\ sess' = sess /\ indexed' = indexed /\ toolCalls' = toolCalls
    /\ cred' = cred /\ bound' = bound
    /\ bridge' \in [Members -> {"none", "running", "broken"}]

(* A step of an acquiring program that raises turns it into its unwinding. *)
LEMMA StepsFailed ==
    ASSUME SessionTypes, Acquires(Head(todo)), StepFails \/ StepImpossible
    PROVE  AcquireFailed /\ Raises(Head(todo))
<1>1. CASE StepImpossible
  BY <1>1 DEF StepImpossible, resources, AcquireFailed, SessionTypes
<1>2. CASE StepFails
  <2>1. PICK s : s = Head(todo)
    OBVIOUS
  <2>2. /\ org' = org /\ sess' = sess /\ indexed' = indexed /\ toolCalls' = toolCalls
        /\ cred' = cred /\ bound' = bound /\ Raises(s)
    BY <1>2, <2>1 DEF StepFails, Acquires
  <2>3. bridge' \in CASE s.do \in {"session", "verify", "close"} /\ bridge[s.actor] # "none"
                              -> {[bridge EXCEPT ![s.actor] = "broken"]}
                                  \cup (IF s.do = "close" THEN {} ELSE {bridge})
                         [] OTHER -> {bridge}
    BY <1>2, <2>1 DEF StepFails
  <2>4. bridge' \in {bridge, [bridge EXCEPT ![s.actor] = "broken"]}
    <3>1. CASE s.do \in {"session", "verify", "close"} /\ bridge[s.actor] # "none"
      BY <2>3, <3>1
    <3>2. CASE ~(s.do \in {"session", "verify", "close"} /\ bridge[s.actor] # "none")
      BY <2>3, <3>2
    <3>. QED
      BY <3>1, <3>2
  <2>5. bridge' \in [Members -> {"none", "running", "broken"}]
    BY <2>1, <2>4 DEF SessionTypes, Acquires
  <2>. QED
    BY <2>1, <2>2, <2>5 DEF AcquireFailed
<1>. QED
  BY <1>1, <1>2

(* Steps of start_organisation().                                          *)
LEMMA StartKeepsInv ==
    ASSUME SessionsInv, op = "start", StepReturns \/ StepFails \/ StepImpossible
    PROVE  SessionsInv'
<1>. USE DEF SessionsInv
<1>1. todo # <<>> /\ todo \in Programs /\ undo = <<>>
  BY DEF StepReturns, StepFails, StepImpossible, ProgramStands
<1>2. /\ Len(todo) \in Nat /\ Len(todo) >= 1 /\ Len(Tail(todo)) = Len(todo) - 1
      /\ Tail(todo) \in Programs /\ Head(todo) = todo[1]
      /\ \A i \in 1..Len(Tail(todo)) : i + 1 \in 1..Len(todo) /\ Tail(todo)[i] = todo[i + 1]
  BY <1>1, HeadAndTail
<1>3. PICK s : s = Head(todo) /\ s = todo[1]
  BY <1>2
<1>4. PICK b \in Members : b = s.actor /\ Acquires(s)
  BY <1>2, <1>3 DEF ProgramStands, Acquiring, Acquires
<1>5. b \in Int /\ CrewSize \in Int /\ \A a \in Members : a \in Int /\ a <= CrewSize
  BY SessionsAssumption DEF Members
<1>6. /\ org = "active" /\ indexed = sess /\ sess = {a \in Members : a < b}
      /\ FollowsOn(todo)
      /\ \A a \in Members : bridge[a] # "none" => a <= b
      /\ \A a \in Members, k \in Kinds : cred[a][k] # "none" \/ <<a, k>> \in bound => a <= b
  BY <1>1, <1>3, <1>4 DEF OperationStands, StartStands, Reached
<1>7. <<>> \in Programs /\ Len(<<>>) = 0
  BY ProgramsJoin
<1>8. CASE StepReturns
  <2>1. /\ todo' = Tail(todo) /\ op' = op /\ errors' = errors /\ undo' = undo /\ Effect(s)
    BY <1>3, <1>8 DEF StepReturns
  <2>2. Acquired(s)
    BY <1>4, <2>1, StepsAcquired
  <2>3. PICK n \in Nat : n = Len(todo) /\ Len(todo') = n - 1
    BY <1>2, <2>1
  <2>4. \A i \in 1..(n - 1) : i + 1 \in 1..n /\ todo'[i] = todo[i + 1]
    BY <1>2, <2>1, <2>3
  <2>5. \A i \in 1..(n - 1) : Acquires(todo'[i])
    BY <2>3, <2>4 DEF ProgramStands, Acquiring
  <2>6. SessionTypes'
    <3>1. sess' \in SUBSET Members /\ indexed' \in SUBSET Members
      BY <1>4, <2>2 DEF Acquired, SessionTypes
    <3>. QED
      BY <2>1, <2>2, <3>1 DEF Acquired, SessionTypes
  <2>7. ProgramStands'
    BY <1>1, <1>2, <1>7, <2>1, <2>3, <2>5 DEF ProgramStands, Acquiring, Releasing
  <2>8. RevokedFirst'
    BY <1>1, <1>7, <2>1, <2>3, <2>5 DEF RevokedFirst, Orderly, Acquires
  <2>9. AccessStands'
    BY <2>2 DEF Acquired, AccessStands
  <2>10. FollowsOn(todo')
    <3>1. ASSUME NEW i \in 1..(n - 1)
          PROVE  IF i = n - 1 THEN todo'[i].do = "register" /\ todo'[i].actor = CrewSize
                 ELSE todo'[i + 1].actor = IF todo'[i].do = "register" THEN todo'[i].actor + 1
                                           ELSE todo'[i].actor
      <4>1. i + 1 \in 1..n /\ todo'[i] = todo[i + 1]
        BY <2>4
      <4>2. IF i + 1 = n THEN todo[i + 1].do = "register" /\ todo[i + 1].actor = CrewSize
            ELSE todo[(i + 1) + 1].actor = IF todo[i + 1].do = "register" THEN todo[i + 1].actor + 1
                                           ELSE todo[i + 1].actor
        BY <1>6, <2>3, <4>1 DEF FollowsOn
      <4>3. i # n - 1 => i + 1 \in 1..(n - 1) /\ todo'[i + 1] = todo[(i + 1) + 1]
        BY <2>4
      <4>. QED
        BY <4>1, <4>2, <4>3
    <3>. QED
      BY <2>3, <3>1 DEF FollowsOn
  <2>11. IF n = 1 THEN s.do = "register" /\ b = CrewSize
         ELSE todo[2].actor = IF s.do = "register" THEN b + 1 ELSE b
    <3>1. 1 \in 1..n
      BY <1>2, <2>3
    <3>2. IF 1 = n THEN todo[1].do = "register" /\ todo[1].actor = CrewSize
          ELSE todo[1 + 1].actor = IF todo[1].do = "register" THEN todo[1].actor + 1 ELSE todo[1].actor
      BY <1>6, <2>3, <3>1 DEF FollowsOn
    <3>. QED
      BY <1>3, <1>4, <3>2
  <2>12. todo' # <<>> => n # 1 /\ Head(todo') = todo[2]
    <3>. SUFFICES ASSUME todo' # <<>> PROVE n # 1 /\ Head(todo') = todo[2]
      OBVIOUS
    <3>1. Head(todo') = todo'[1] /\ Len(todo') >= 1
      BY <1>2, <2>1, HeadAndTail
    <3>2. n # 1 /\ 1 \in 1..(n - 1)
      BY <2>3, <3>1
    <3>3. todo'[1] = todo[1 + 1]
      BY <2>4, <3>2
    <3>. QED
      BY <3>1, <3>2, <3>3
  <2>13. todo' = <<>> => n = 1
    <3>1. \A m \in Nat : m = 0 /\ m = n - 1 => n = 1
      OBVIOUS
    <3>. QED
      BY <1>7, <2>3, <3>1
  <2>14. \A a \in Members : a <= b => Reached(a)'
    BY <1>5, <2>11, <2>12 DEF Reached
  <2>15. sess' = {a \in Members : todo' # <<>> => a < Head(todo').actor}
    <3>1. CASE s.do # "register"
      <4>1. sess' = sess /\ n # 1 /\ todo' # <<>> /\ Head(todo').actor = b
        BY <2>2, <2>11, <2>12, <2>13, <3>1 DEF Acquired
      <4>. QED
        BY <1>6, <4>1
    <3>2. CASE s.do = "register"
      <4>0. sess' = sess \cup {b}
        BY <1>4, <2>2, <3>2 DEF Acquired
      <4>1. sess' = {a \in Members : a <= b}
        <5>1. sess = {a \in Members : a < b}
          BY <1>6
        <5>2. \A a \in Members : a <= b <=> a < b \/ a = b
          BY <1>5
        <5>. QED
          BY <4>0, <5>1, <5>2
      <4>2. CASE todo' = <<>>
        BY <1>5, <2>11, <2>13, <4>1, <4>2
      <4>3. CASE todo' # <<>>
        <5>1. Head(todo').actor = b + 1
          BY <2>11, <2>12, <3>2, <4>3
        <5>2. \A a \in Members : a <= b <=> a < b + 1
          BY <1>5
        <5>3. {a \in Members : todo' # <<>> => a < Head(todo').actor} = {a \in Members : a <= b}
          BY <4>3, <5>1, <5>2
        <5>. QED
          BY <4>1, <5>3
      <4>. QED
        BY <4>2, <4>3
    <3>. QED
      BY <3>1, <3>2
  <2>16. StartStands'
    <3>1. org' = "active" /\ indexed' = sess'
      BY <1>6, <2>2 DEF Acquired
    <3>2. /\ \A a \in Members : bridge'[a] # "none" => a <= b
          /\ \A a \in Members, k \in Kinds : cred'[a][k] # "none" \/ <<a, k>> \in bound' => a <= b
      BY <1>4, <1>5, <1>6, <2>2 DEF Acquired
    <3>. QED
      BY <2>10, <2>14, <2>15, <3>1, <3>2 DEF StartStands
  <2>17. /\ IdleStands' /\ UnwindStands' /\ StopStands' /\ SuspendStands'
         /\ ResumeStands' /\ RewindStands' /\ RollbackStands'
    BY <2>1 DEF IdleStands, UnwindStands, StopStands, SuspendStands, ResumeStands, RewindStands,
                RollbackStands
  <2>. QED
    BY <2>6, <2>7, <2>8, <2>9, <2>16, <2>17 DEF OperationStands
<1>9. CASE StepFails \/ StepImpossible
  <2>1. AcquireFailed /\ op' = "unwind" /\ todo' = Unwind(b) /\ undo' = undo
    BY <1>3, <1>4, <1>9, StepsFailed DEF Raises, Runs
  <2>2. /\ todo' \in Programs /\ Orderly(todo') /\ Cleans(todo', b)
        /\ \A i \in 1..Len(todo') : Releases(todo'[i])
    BY <2>1, ReleaseProgram
  <2>3. SessionTypes'
    BY <2>1 DEF AcquireFailed, SessionTypes, Releasing
  <2>4. ProgramStands'
    BY <1>1, <1>7, <2>1, <2>2 DEF ProgramStands, Acquiring, Releasing
  <2>5. RevokedFirst'
    BY <1>1, <1>7, <2>1, <2>2 DEF RevokedFirst, Orderly
  <2>6. AccessStands'
    BY <2>1 DEF AcquireFailed, AccessStands
  <2>7. /\ sess' = sess /\ cred' = cred /\ bound' = bound /\ indexed' = indexed /\ org' = "active"
    BY <1>6, <2>1 DEF AcquireFailed
  <2>8. ASSUME NEW a \in Members \ sess, NEW k \in Kinds
        PROVE  /\ cred[a][k] # "none" => Has(todo', Step("revoke", a, k))
               /\ <<a, k>> \in bound => Has(todo', Step("expire", a, k))
    <3>. SUFFICES ASSUME cred[a][k] # "none" \/ <<a, k>> \in bound
                  PROVE  Has(todo', Step("revoke", a, k)) /\ Has(todo', Step("expire", a, k))
      OBVIOUS
    <3>1. a = b
      BY <1>5, <1>6
    <3>. QED
      BY <2>2, <3>1 DEF Cleans
  <2>9. UnwindStands'
    BY <1>6, <2>7, <2>8 DEF UnwindStands, Covered
  <2>10. /\ IdleStands' /\ StartStands' /\ StopStands' /\ SuspendStands'
         /\ ResumeStands' /\ RewindStands' /\ RollbackStands'
    BY <2>1 DEF IdleStands, StartStands, StopStands, SuspendStands, ResumeStands, RewindStands,
                RollbackStands
  <2>. QED
    BY <2>3, <2>4, <2>5, <2>6, <2>9, <2>10 DEF OperationStands
<1>. QED
  BY <1>8, <1>9

(* Steps of resume(): what they acquire is on the stack of callbacks.      *)
LEMMA ResumeKeepsInv ==
    ASSUME SessionsInv, op = "resume", StepReturns \/ StepFails \/ StepImpossible
    PROVE  SessionsInv'
<1>. USE DEF SessionsInv
<1>1. todo # <<>> /\ todo \in Programs /\ undo \in Programs
  BY DEF StepReturns, StepFails, StepImpossible, ProgramStands
<1>2. /\ Len(todo) \in Nat /\ Len(todo) >= 1 /\ Len(Tail(todo)) = Len(todo) - 1
      /\ Tail(todo) \in Programs /\ Head(todo) = todo[1] /\ Head(todo) \in Steps
      /\ \A i \in 1..Len(Tail(todo)) : i + 1 \in 1..Len(todo) /\ Tail(todo)[i] = todo[i + 1]
  BY <1>1, HeadAndTail
<1>3. PICK s \in Steps : s = Head(todo) /\ s = todo[1]
  BY <1>2
<1>4. PICK n \in Nat : n = Len(todo) /\ n >= 1
  BY <1>2
<1>5. Acquires(s)
  BY <1>2, <1>3 DEF ProgramStands, Acquiring
<1>6. Orderly(undo) /\ \A i \in 1..Len(undo) : Releases(undo[i])
  BY DEF RevokedFirst, ProgramStands
<1>7. /\ org = "none" /\ sess = {} /\ Covered(undo, {}) /\ Forgotten(undo)
      /\ \A i \in 1..n : todo[i].do = "activate" =>
            \/ /\ Has(undo, Step("revoke", todo[i].actor, todo[i].kind))
               /\ Has(undo, Step("expire", todo[i].actor, todo[i].kind))
            \/ \E j \in 1..(i - 1) : todo[j] = Step("issue", todo[i].actor, todo[i].kind)
  BY <1>4 DEF OperationStands, ResumeStands
<1>8. <<>> \in Programs /\ Len(<<>>) = 0
  BY ProgramsJoin
<1>9. CASE StepReturns
  <2>1. /\ todo' = Tail(todo) /\ op' = "resume" /\ undo' = Callback(s) \o undo /\ Effect(s)
    BY <1>3, <1>9 DEF StepReturns
  <2>2. Acquired(s)
    BY <1>5, <2>1, StepsAcquired
  <2>3. /\ undo' \in Programs /\ Orderly(undo')
        /\ \A i \in 1..Len(undo') : Releases(undo'[i])
        /\ \A x : Has(undo, x) => Has(undo', x)
        /\ s.do = "issue" => /\ Has(undo', Step("revoke", s.actor, s.kind))
                            /\ Has(undo', Step("expire", s.actor, s.kind))
        /\ s.do = "register" => Has(undo', Step("forget", s.actor, NoKind))
    BY <1>1, <1>5, <1>6, <2>1, CallbackPushed
  <2>4. \A i \in 1..(n - 1) : i + 1 \in 1..n /\ todo'[i] = todo[i + 1]
    BY <1>2, <1>4, <2>1
  <2>5. Len(todo') = n - 1 /\ todo' \in Programs
    BY <1>2, <1>4, <2>1
  <2>6. \A i \in 1..(n - 1) : Acquires(todo'[i])
    BY <1>4, <2>4 DEF ProgramStands, Acquiring
  <2>7. SessionTypes'
    <3>1. sess' \in SUBSET Members /\ indexed' \in SUBSET Members
      BY <1>5, <2>2 DEF Acquired, SessionTypes, Acquires
    <3>. QED
      BY <2>1, <2>2, <3>1 DEF Acquired, SessionTypes, Acquiring
  <2>8. ProgramStands'
    BY <2>1, <2>3, <2>5, <2>6 DEF ProgramStands, Acquiring, Releasing
  <2>9. RevokedFirst'
    BY <2>3, <2>5, <2>6 DEF RevokedFirst, Acquires
  <2>10. AccessStands'
    BY <2>2 DEF Acquired, AccessStands
  <2>11. s.do = "activate" => /\ Has(undo, Step("revoke", s.actor, s.kind))
                             /\ Has(undo, Step("expire", s.actor, s.kind))
    <3>1. 1 \in 1..n /\ ~\E j \in 1..(1 - 1) : TRUE
      BY <1>4
    <3>. QED
      BY <1>3, <1>7, <3>1
  <2>12. Covered(undo, {})'
    <3>1. ASSUME NEW a \in Members, NEW k \in Kinds, cred'[a][k] # "none"
          PROVE  Has(undo', Step("revoke", a, k))
      <4>1. CASE cred[a][k] # "none"
        BY <1>7, <2>3, <4>1 DEF Covered
      <4>2. CASE s.do \in {"issue", "activate"} /\ a = s.actor /\ k = s.kind
        BY <2>3, <2>11, <4>2
      <4>. QED
        BY <2>2, <3>1, <4>1, <4>2 DEF Acquired
    <3>2. ASSUME NEW a \in Members, NEW k \in Kinds, <<a, k>> \in bound'
          PROVE  Has(undo', Step("expire", a, k))
      <4>1. CASE <<a, k>> \in bound
        BY <1>7, <2>3, <4>1 DEF Covered
      <4>2. CASE s.do = "activate" /\ a = s.actor /\ k = s.kind
        BY <2>3, <2>11, <4>2
      <4>. QED
        BY <2>2, <3>2, <4>1, <4>2 DEF Acquired
    <3>. QED
      BY <3>1, <3>2 DEF Covered
  <2>13. Forgotten(undo)'
    BY <1>7, <2>2, <2>3 DEF Forgotten, Acquired
  <2>14. ASSUME NEW i \in 1..(n - 1), todo'[i].do = "activate"
         PROVE  \/ /\ Has(undo', Step("revoke", todo'[i].actor, todo'[i].kind))
                   /\ Has(undo', Step("expire", todo'[i].actor, todo'[i].kind))
                \/ \E j \in 1..(i - 1) : todo'[j] = Step("issue", todo'[i].actor, todo'[i].kind)
    <3>1. i + 1 \in 1..n /\ todo'[i] = todo[i + 1]
      BY <2>4
    <3>2. CASE /\ Has(undo, Step("revoke", todo'[i].actor, todo'[i].kind))
               /\ Has(undo, Step("expire", todo'[i].actor, todo'[i].kind))
      BY <2>3, <3>2
    <3>3. CASE \E j \in 1..i : todo[j] = Step("issue", todo'[i].actor, todo'[i].kind)
      <4>1. PICK j \in 1..i : todo[j] = Step("issue", todo'[i].actor, todo'[i].kind)
        BY <3>3
      <4>2. CASE j = 1
        <5>1. s = Step("issue", todo'[i].actor, todo'[i].kind)
          BY <1>3, <4>1, <4>2
        <5>2. s.do = "issue" /\ s.actor = todo'[i].actor /\ s.kind = todo'[i].kind
          BY <5>1 DEF Step
        <5>. QED
          BY <2>3, <5>2
      <4>3. CASE j # 1
        <5>1. j - 1 \in 1..(i - 1) /\ j - 1 \in 1..(n - 1) /\ (j - 1) + 1 = j
          BY <4>3
        <5>2. todo'[j - 1] = todo[j]
          BY <2>4, <5>1
        <5>. QED
          BY <4>1, <5>1, <5>2
      <4>. QED
        BY <4>2, <4>3
    <3>4. (i + 1) - 1 = i
      OBVIOUS
    <3>. QED
      BY <1>7, <2>14, <3>1, <3>2, <3>3, <3>4
  <2>15. ResumeStands'
    BY <1>7, <2>2, <2>5, <2>12, <2>13, <2>14 DEF ResumeStands, Acquired, Covered, Forgotten
  <2>16. /\ IdleStands' /\ StartStands' /\ UnwindStands' /\ StopStands' /\ SuspendStands'
         /\ RewindStands' /\ RollbackStands'
    BY <2>1 DEF IdleStands, StartStands, UnwindStands, StopStands, SuspendStands, RewindStands,
                RollbackStands
  <2>. QED
    BY <2>7, <2>8, <2>9, <2>10, <2>15, <2>16 DEF OperationStands
<1>10. CASE StepFails \/ StepImpossible
  <2>1. AcquireFailed /\ op' = "rewind" /\ todo' = undo /\ undo' = <<>>
    BY <1>3, <1>5, <1>10, StepsFailed DEF Raises, Runs
  <2>2. SessionTypes'
    BY <2>1 DEF AcquireFailed, SessionTypes, Releasing
  <2>3. ProgramStands'
    BY <1>1, <1>6, <1>8, <2>1 DEF ProgramStands, Acquiring, Releasing
  <2>4. RevokedFirst'
    BY <1>6, <1>8, <2>1 DEF RevokedFirst, Orderly
  <2>5. AccessStands'
    BY <2>1 DEF AcquireFailed, AccessStands
  <2>6. RewindStands'
    BY <1>7, <2>1 DEF RewindStands, AcquireFailed, Covered, Forgotten
  <2>7. /\ IdleStands' /\ StartStands' /\ UnwindStands' /\ StopStands' /\ SuspendStands'
        /\ ResumeStands' /\ RollbackStands'
    BY <2>1 DEF IdleStands, StartStands, UnwindStands, StopStands, SuspendStands, ResumeStands,
                RollbackStands
  <2>. QED
    BY <2>2, <2>3, <2>4, <2>5, <2>6, <2>7 DEF OperationStands
<1>. QED
  BY <1>9, <1>10

(* The program of an operation that releases, or of none, begins.          *)
LEMMA ProgramBegins ==
    ASSUME SessionsInv, UNCHANGED <<cred, bound, toolCalls>>, undo' = <<>>,
           \/ op' = "idle" /\ todo' = <<>>
           \/ /\ op' \in Releasing /\ todo' \in Programs /\ Orderly(todo')
              /\ \A i \in 1..Len(todo') : Releases(todo'[i]) \/ todo'[i].do = "snapshot"
    PROVE  ProgramStands' /\ RevokedFirst' /\ AccessStands'
<1>. USE DEF SessionsInv
<1>1. <<>> \in Programs /\ Len(<<>>) = 0
  BY ProgramsJoin
<1>2. ProgramStands'
  BY <1>1 DEF ProgramStands, Acquiring, Releasing
<1>3. RevokedFirst'
  BY <1>1 DEF RevokedFirst, Orderly
<1>4. AccessStands'
  BY DEF AccessStands
<1>. QED
  BY <1>2, <1>3, <1>4

(* An operation that begins.                                               *)
LEMMA IdleKeepsInv ==
    ASSUME SessionsInv, SessionTypes', op' = "idle", todo' = <<>>, undo' = <<>>,
           UNCHANGED <<cred, bound, toolCalls>>, IdleStands'
    PROVE  SessionsInv'
<1>1. ProgramStands' /\ RevokedFirst' /\ AccessStands'
  BY ProgramBegins
<1>2. OperationStands'
  BY DEF OperationStands, StartStands, UnwindStands, StopStands, SuspendStands, ResumeStands,
         RewindStands, RollbackStands
<1>. QED
  BY <1>1, <1>2 DEF SessionsInv

(* A program that cleans every session covers what the sessions have.      *)
LEMMA CleanedIsCovered ==
    ASSUME NEW q, \A a \in sess' : Cleans(q, a), Covered(<<>>, sess)', BridgesOwned'
    PROVE  Covered(q, {})' /\ RunningClosed(q)' /\ BridgesClosed(q)'
<1>1. \A a \in Members, k \in Kinds :
         /\ cred'[a][k] # "none" => a \in sess'
         /\ <<a, k>> \in bound' => a \in sess'
  BY EmptyHasNone DEF Covered
<1>2. Covered(q, {})'
  BY <1>1 DEF Covered, Cleans
<1>3. BridgesClosed(q)'
  BY DEF BridgesClosed, BridgesOwned, Cleans
<1>. QED
  BY <1>2, <1>3 DEF BridgesClosed, RunningClosed

(* Steps of stop(), of suspend() and of the unwindings.                    *)
LEMMA StopKeepsInv ==
    ASSUME SessionsInv, op # "resume", SessionTypes', op' = "stop", todo' = StopSteps(sess),
           UNCHANGED <<sess, indexed, cred, bound, undo, toolCalls>>,
           org' \in {"active", "stopped"}, indexed \subseteq sess,
           Covered(<<>>, sess)', BridgesOwned'
    PROVE  SessionsInv'
<1>1. sess \in SUBSET Members /\ undo = <<>>
  BY DEF SessionsInv, SessionTypes, ProgramStands
<1>2. /\ todo' \in Programs /\ Orderly(todo')
      /\ \A a \in sess : Cleans(todo', a)
      /\ \A i \in 1..Len(todo') : Releases(todo'[i]) \/ todo'[i].do = "snapshot"
  BY <1>1, StopProgram
<1>3. ProgramStands' /\ RevokedFirst' /\ AccessStands'
  BY <1>1, <1>2, ProgramBegins DEF Releasing
<1>4. StopStands'
  <2>1. PICK q : q = todo'
    OBVIOUS
  <2>2. Covered(q, {})' /\ RunningClosed(q)'
    BY <1>2, <2>1, CleanedIsCovered
  <2>. QED
    BY <2>1, <2>2 DEF StopStands, Covered, RunningClosed
<1>5. OperationStands'
  BY <1>4 DEF OperationStands, IdleStands, StartStands, UnwindStands, SuspendStands, ResumeStands,
              RewindStands, RollbackStands
<1>. QED
  BY <1>3, <1>5 DEF SessionsInv

(* A step that leaves the operation and the accesses alone.                *)
LEMMA Undisturbed ==
    ASSUME SessionsInv, SessionTypes', AccessStands',
           UNCHANGED <<org, sess, indexed, cred, bound, program>>,
           \A a \in Members : /\ bridge'[a] # "none" => bridge[a] # "none"
                              /\ bridge'[a] = "running" => bridge[a] = "running"
    PROVE  SessionsInv'
<1>. USE DEF SessionsInv, program
<1>1. ProgramStands'
  BY DEF ProgramStands
<1>2. RevokedFirst'
  BY DEF RevokedFirst
<1>3. IdleStands'
  BY DEF OperationStands, IdleStands, Covered, BridgesOwned
<1>4. StartStands'
  BY DEF OperationStands, StartStands, FollowsOn, Reached
<1>5. UnwindStands'
  BY DEF OperationStands, UnwindStands, Covered
<1>6. StopStands'
  BY DEF OperationStands, StopStands, Covered, RunningClosed, BridgesOwned
<1>7. SuspendStands'
  BY DEF OperationStands, SuspendStands, Covered, BridgesClosed, BridgesOwned, Forgotten
<1>8. ResumeStands'
  BY DEF OperationStands, ResumeStands, Covered, Forgotten
<1>9. RewindStands'
  BY DEF OperationStands, RewindStands, Covered, Forgotten
<1>10. RollbackStands'
  BY DEF OperationStands, RollbackStands, Covered, RunningClosed, BridgesClosed, BridgesOwned
<1>. QED
  BY <1>1, <1>2, <1>3, <1>4, <1>5, <1>6, <1>7, <1>8, <1>9, <1>10 DEF OperationStands

(* Between operations the sessions of an active organisation have it all.  *)
LEMMA IdleHas ==
    ASSUME SessionsInv, op = "idle"
    PROVE  /\ Covered(<<>>, sess) /\ BridgesOwned /\ indexed \subseteq sess
           /\ org # "active" => Covered(<<>>, {}) /\ \A a \in Members : bridge[a] # "running"
           /\ org = "none" => sess = {} /\ indexed = {}
  BY DEF SessionsInv, OperationStands, IdleStands, Covered

(* The operations, one after the other.                                    *)
LEMMA StartOrganisationKeepsInv ==
    ASSUME SessionsInv, StartOrganisation PROVE SessionsInv'
<1>. USE DEF SessionsInv
<1>1. /\ op = "idle" /\ org = "none" /\ org' = "active" /\ op' = "start" /\ todo' = StartSteps
      /\ UNCHANGED <<sess, indexed, bridge, cred, bound, undo, toolCalls>>
  BY DEF StartOrganisation, Runs, StartSteps, resources
<1>2. /\ sess = {} /\ indexed = {} /\ undo = <<>> /\ undo \in Programs
      /\ \A a \in Members : bridge[a] = "none"
      /\ \A a \in Members, k \in Kinds : cred[a][k] = "none" /\ <<a, k>> \notin bound
  BY <1>1, IdleHas, EmptyHasNone DEF Covered, BridgesOwned, ProgramStands
<1>3. /\ todo' \in Programs /\ \A x \in 1..Len(todo') : Acquires(todo'[x])
      /\ FollowsOn(todo')
      /\ todo' = <<>> => CrewSize = 0
      /\ todo' # <<>> => todo'[1].actor = 1
  BY <1>1, StartProgram
<1>4. SessionTypes'
  BY <1>1 DEF SessionTypes, Acquiring
<1>5. ProgramStands'
  BY <1>1, <1>2, <1>3 DEF ProgramStands, Acquiring, Releasing
<1>6. RevokedFirst'
  BY <1>1, <1>3 DEF RevokedFirst, Acquires
<1>7. AccessStands'
  BY <1>1 DEF AccessStands
<1>8. sess' = {a \in Members : todo' # <<>> => a < Head(todo').actor}
  <2>1. \A a \in Members : a \in Int /\ a >= 1 /\ a <= CrewSize
    BY SessionsAssumption DEF Members
  <2>2. todo' # <<>> => Head(todo').actor = 1
    BY <1>3, HeadAndTail
  <2>3. CASE todo' = <<>>
    BY <1>1, <1>2, <1>3, <2>1, <2>3
  <2>4. CASE todo' # <<>>
    <3>1. {a \in Members : todo' # <<>> => a < Head(todo').actor} = {}
      BY <2>1, <2>2, <2>4
    <3>. QED
      BY <1>1, <1>2, <3>1
  <2>. QED
    BY <2>3, <2>4
<1>9. StartStands'
  BY <1>1, <1>2, <1>3, <1>8 DEF StartStands
<1>10. OperationStands'
  BY <1>1, <1>9 DEF OperationStands, IdleStands, UnwindStands, StopStands, SuspendStands,
                    ResumeStands, RewindStands, RollbackStands
<1>. QED
  BY <1>4, <1>5, <1>6, <1>7, <1>10

(* Resuming begins with a process that holds nothing.                      *)
LEMMA ResumeActionKeepsInv ==
    ASSUME SessionsInv, Resume PROVE SessionsInv'
<1>. USE DEF SessionsInv
<1>1. /\ op = "idle" /\ org = "none" /\ op' = "resume" /\ todo' = ResumeSteps /\ undo' = <<>>
      /\ UNCHANGED <<org, sess, indexed, bridge, cred, bound, toolCalls>>
  BY DEF Resume, Runs, ResumeSteps, resources
<1>2. sess = {} /\ indexed = {} /\ Covered(<<>>, {})
  BY <1>1, IdleHas
<1>3. /\ todo' \in Programs /\ \A x \in 1..Len(todo') : Acquires(todo'[x])
      /\ IssuedFirst(todo')
  BY <1>1, ResumeProgram
<1>4. <<>> \in Programs /\ Len(<<>>) = 0
  BY ProgramsJoin
<1>5. SessionTypes'
  BY <1>1 DEF SessionTypes, Acquiring
<1>6. ProgramStands'
  BY <1>1, <1>3, <1>4 DEF ProgramStands, Acquiring, Releasing
<1>7. RevokedFirst'
  BY <1>1, <1>3, <1>4 DEF RevokedFirst, Acquires, Orderly
<1>8. AccessStands'
  BY <1>1 DEF AccessStands
<1>9. ResumeStands'
  BY <1>1, <1>2, <1>3 DEF ResumeStands, IssuedFirst, Forgotten, Covered
<1>10. OperationStands'
  BY <1>1, <1>9 DEF OperationStands, IdleStands, StartStands, UnwindStands, StopStands,
                    SuspendStands, RewindStands, RollbackStands
<1>. QED
  BY <1>5, <1>6, <1>7, <1>8, <1>10

(* Suspending takes over a complete, settled crew.                         *)
LEMMA SuspendKeepsInv ==
    ASSUME SessionsInv, Suspend PROVE SessionsInv'
<1>. USE DEF SessionsInv
<1>1. /\ op = "idle" /\ org = "active" /\ op' = "suspend" /\ todo' = SuspendSteps(sess)
      /\ UNCHANGED <<org, sess, indexed, bridge, cred, bound, undo, toolCalls>>
  BY DEF Suspend, Runs, resources
<1>2. Covered(<<>>, sess) /\ BridgesOwned /\ indexed \subseteq sess
  BY <1>1, IdleHas
<1>3. sess \in SUBSET Members /\ undo' = <<>>
  BY <1>1 DEF SessionTypes, ProgramStands
<1>4. /\ todo' \in Programs /\ Orderly(todo')
      /\ \A a \in sess : Cleans(todo', a) /\ Has(todo', Step("forget", a, NoKind))
      /\ \A i \in 1..Len(todo') : Releases(todo'[i]) \/ todo'[i].do = "snapshot"
  BY <1>1, <1>3, SuspendProgram
<1>5. SessionTypes'
  BY <1>1 DEF SessionTypes, Releasing
<1>6. ProgramStands' /\ RevokedFirst' /\ AccessStands'
  BY <1>1, <1>3, <1>4, ProgramBegins DEF Releasing
<1>7. Covered(<<>>, sess)' /\ BridgesOwned'
  BY <1>1, <1>2 DEF Covered, BridgesOwned
<1>8. SuspendStands'
  <2>1. PICK q : q = todo'
    OBVIOUS
  <2>2. Covered(q, {})' /\ BridgesClosed(q)'
    BY <1>1, <1>4, <1>7, <2>1, CleanedIsCovered
  <2>3. Forgotten(todo)'
    BY <1>1, <1>2, <1>4 DEF Forgotten
  <2>. QED
    BY <1>1, <1>2, <1>7, <2>1, <2>2, <2>3 DEF SuspendStands, Covered, BridgesClosed
<1>9. OperationStands'
  BY <1>1, <1>8 DEF OperationStands, IdleStands, StartStands, UnwindStands, StopStands,
                    ResumeStands, RewindStands, RollbackStands
<1>. QED
  BY <1>5, <1>6, <1>9

(* Stopping plans a release for every session there is.                    *)
LEMMA StopActionKeepsInv ==
    ASSUME SessionsInv, Stop PROVE SessionsInv'
<1>1. /\ op = "idle" /\ org \in {"active", "stopped"} /\ op' = "stop" /\ todo' = StopSteps(sess)
      /\ UNCHANGED <<org, sess, indexed, bridge, cred, bound, undo, toolCalls>>
  BY DEF Stop, Runs, resources
<1>2. Covered(<<>>, sess) /\ BridgesOwned /\ indexed \subseteq sess
  BY <1>1, IdleHas
<1>3. Covered(<<>>, sess)' /\ BridgesOwned'
  BY <1>1, <1>2 DEF Covered, BridgesOwned
<1>4. SessionTypes'
  BY <1>1 DEF SessionTypes, SessionsInv, Releasing
<1>. QED
  BY <1>1, <1>2, <1>3, <1>4, StopKeepsInv

(* Both ways to a rollback.                                                *)
LEMMA RollbackKeepsInv ==
    ASSUME SessionsInv, SessionTypes', op' = "rollback", todo' = RollbackSteps(sess'), undo' = <<>>,
           UNCHANGED <<indexed, cred, bound, toolCalls>>,
           org' \in {"active", "stopped"}, indexed \subseteq sess',
           Covered(<<>>, sess)', BridgesOwned'
    PROVE  SessionsInv'
<1>1. sess' \in SUBSET Members
  BY DEF SessionTypes
<1>2. PICK S \in SUBSET Members : S = sess'
  BY <1>1
<1>3. /\ todo' \in Programs /\ Orderly(todo')
      /\ \A a \in S : Cleans(todo', a)
      /\ \A i \in 1..Len(todo') : Releases(todo'[i])
  BY <1>2, RollbackProgram
<1>4. ProgramStands' /\ RevokedFirst' /\ AccessStands'
  BY <1>3, ProgramBegins DEF Releasing
<1>5. RollbackStands'
  <2>1. PICK q : q = todo'
    OBVIOUS
  <2>2. Covered(q, {})' /\ RunningClosed(q)' /\ BridgesClosed(q)'
    BY <1>2, <1>3, <2>1, CleanedIsCovered
  <2>. QED
    BY <2>1, <2>2 DEF RollbackStands, Covered, RunningClosed, BridgesClosed
<1>6. OperationStands'
  BY <1>5 DEF OperationStands, IdleStands, StartStands, UnwindStands, StopStands, SuspendStands,
              ResumeStands, RewindStands
<1>. QED
  BY <1>4, <1>6 DEF SessionsInv

(* A rollback that failed is tried again over what is left.                *)
LEMMA RetryRollbackKeepsInv ==
    ASSUME SessionsInv, RetryRollback PROVE SessionsInv'
<1>1. /\ op = "idle" /\ org = "stopped" /\ op' = "rollback" /\ todo' = RollbackSteps(sess)
      /\ UNCHANGED <<org, sess, indexed, bridge, cred, bound, undo, toolCalls>>
  BY DEF RetryRollback, Runs, resources
<1>2. Covered(<<>>, sess) /\ BridgesOwned /\ indexed \subseteq sess /\ undo = <<>>
  BY <1>1, IdleHas DEF SessionsInv, ProgramStands
<1>3. Covered(<<>>, sess)' /\ BridgesOwned'
  BY <1>1, <1>2 DEF Covered, BridgesOwned
<1>4. SessionTypes'
  BY <1>1 DEF SessionTypes, SessionsInv, Releasing
<1>. QED
  BY <1>1, <1>2, <1>3, <1>4, RollbackKeepsInv

(* A start ends: every member has its session, or stopping begins.         *)
LEMMA StartDoneKeepsInv ==
    ASSUME SessionsInv, StartDone PROVE SessionsInv'
<1>1. /\ op = "start" /\ todo = <<>>
      /\ UNCHANGED <<org, sess, indexed, bridge, cred, bound, undo, toolCalls>>
      /\ \/ op' = "idle" /\ todo' = <<>>
         \/ op' = "stop" /\ todo' = StopSteps(sess)
  BY DEF StartDone, Runs, resources
<1>2. org = "active" /\ indexed = sess /\ sess = Members /\ undo = <<>>
  BY <1>1 DEF SessionsInv, OperationStands, StartStands, ProgramStands
<1>3. Covered(<<>>, sess)' /\ BridgesOwned'
  BY <1>1, <1>2 DEF Covered, BridgesOwned
<1>4. SessionTypes'
  BY <1>1 DEF SessionTypes, SessionsInv, Releasing
<1>5. CASE op' = "idle" /\ todo' = <<>>
  <2>1. IdleStands'
    BY <1>1, <1>2, <1>3 DEF IdleStands
  <2>. QED
    BY <1>1, <1>2, <1>4, <1>5, <2>1, IdleKeepsInv
<1>6. CASE op' = "stop" /\ todo' = StopSteps(sess)
  BY <1>1, <1>2, <1>3, <1>4, <1>6, StopKeepsInv
<1>. QED
  BY <1>1, <1>5, <1>6

(* Unwinding ends: what is left belongs to sessions, and stopping begins.  *)
LEMMA UnwindDoneKeepsInv ==
    ASSUME SessionsInv, UnwindDone PROVE SessionsInv'
<1>1. /\ op = "unwind" /\ todo = <<>> /\ op' = "stop" /\ todo' = StopSteps(sess)
      /\ UNCHANGED <<org, sess, indexed, cred, bound, undo, toolCalls>>
      /\ bridge' = [a \in Members |-> IF a \in sess THEN bridge[a] ELSE "none"]
  BY DEF UnwindDone, Runs
<1>2. org = "active" /\ indexed \subseteq sess /\ Covered(<<>>, sess)
  BY <1>1 DEF SessionsInv, OperationStands, UnwindStands
<1>3. Covered(<<>>, sess)' /\ BridgesOwned'
  BY <1>1, <1>2 DEF Covered, BridgesOwned
<1>4. SessionTypes'
  BY <1>1 DEF SessionTypes, SessionsInv, Releasing
<1>. QED
  BY <1>1, <1>2, <1>3, <1>4, StopKeepsInv

(* Stopping ends with every access released and no bridge running.         *)
LEMMA StopDoneKeepsInv ==
    ASSUME SessionsInv, StopDone PROVE SessionsInv'
<1>1. /\ op = "stop" /\ todo = <<>> /\ op' = "idle" /\ todo' = <<>> /\ org' = "stopped"
      /\ UNCHANGED <<sess, indexed, bridge, cred, bound, undo, toolCalls>>
  BY DEF StopDone, Runs, resources
<1>2. /\ indexed \subseteq sess /\ Covered(<<>>, {}) /\ RunningClosed(<<>>) /\ BridgesOwned
      /\ undo = <<>>
  BY <1>1 DEF SessionsInv, OperationStands, StopStands, ProgramStands
<1>3. \A a \in Members : bridge[a] # "running"
  BY <1>2, EmptyHasNone DEF RunningClosed
<1>4. IdleStands'
  BY <1>1, <1>2, <1>3 DEF IdleStands, Covered, BridgesOwned
<1>5. SessionTypes'
  BY <1>1 DEF SessionTypes, SessionsInv
<1>. QED
  BY <1>1, <1>2, <1>4, <1>5, IdleKeepsInv

(* Suspending ends with nothing left of the crew.                          *)
LEMMA SuspendDoneKeepsInv ==
    ASSUME SessionsInv, SuspendDone PROVE SessionsInv'
<1>1. /\ op = "suspend" /\ todo = <<>> /\ op' = "idle" /\ todo' = <<>>
      /\ org' = "none" /\ sess' = {}
      /\ UNCHANGED <<indexed, bridge, cred, bound, undo, toolCalls>>
  BY DEF SuspendDone, Runs, resources
<1>2. Covered(<<>>, {}) /\ BridgesClosed(<<>>) /\ Forgotten(<<>>) /\ undo = <<>>
  BY <1>1 DEF SessionsInv, OperationStands, SuspendStands, ProgramStands
<1>3. indexed = {} /\ \A a \in Members : bridge[a] = "none"
  BY <1>2, EmptyHasNone DEF BridgesClosed, Forgotten
<1>4. IdleStands'
  BY <1>1, <1>2, <1>3 DEF IdleStands, Covered, BridgesOwned
<1>5. SessionTypes'
  BY <1>1 DEF SessionTypes, SessionsInv
<1>. QED
  BY <1>1, <1>2, <1>4, <1>5, IdleKeepsInv

(* Resuming ends with a session for every member, or rolls back.           *)
LEMMA ResumeDoneKeepsInv ==
    ASSUME SessionsInv, ResumeDone PROVE SessionsInv'
<1>1. /\ op = "resume" /\ todo = <<>> /\ org' = "active" /\ sess' = Members /\ undo' = <<>>
      /\ UNCHANGED <<indexed, bridge, cred, bound, toolCalls>>
      /\ \/ op' = "idle" /\ todo' = <<>>
         \/ op' = "rollback" /\ todo' = RollbackSteps(Members)
  BY DEF ResumeDone, Runs, resources
<1>2. indexed \subseteq sess'
  BY <1>1 DEF SessionsInv, SessionTypes
<1>3. Covered(<<>>, sess)' /\ BridgesOwned'
  BY <1>1 DEF Covered, BridgesOwned
<1>4. SessionTypes'
  BY <1>1 DEF SessionTypes, SessionsInv, Releasing
<1>5. CASE op' = "idle" /\ todo' = <<>>
  <2>1. IdleStands'
    BY <1>1, <1>2, <1>3 DEF IdleStands
  <2>. QED
    BY <1>1, <1>2, <1>4, <1>5, <2>1, IdleKeepsInv
<1>6. CASE op' = "rollback" /\ todo' = RollbackSteps(Members)
  BY <1>1, <1>2, <1>3, <1>4, <1>6, RollbackKeepsInv
<1>. QED
  BY <1>1, <1>5, <1>6

(* Unwinding a resumption ends with nothing left of the crew.              *)
LEMMA RewindDoneKeepsInv ==
    ASSUME SessionsInv, RewindDone PROVE SessionsInv'
<1>1. /\ op = "rewind" /\ todo = <<>> /\ op' = "idle" /\ todo' = <<>>
      /\ bridge' = [a \in Members |-> "none"]
      /\ UNCHANGED <<org, sess, indexed, cred, bound, undo, toolCalls>>
  BY DEF RewindDone, Runs, NoBridges
<1>2. /\ org = "none" /\ sess = {} /\ Covered(<<>>, {}) /\ Forgotten(<<>>) /\ undo = <<>>
  BY <1>1 DEF SessionsInv, OperationStands, RewindStands, ProgramStands
<1>3. indexed = {} /\ \A a \in Members : bridge'[a] = "none"
  BY <1>1, <1>2, EmptyHasNone DEF Forgotten
<1>4. IdleStands'
  BY <1>1, <1>2, <1>3 DEF IdleStands, Covered, BridgesOwned
<1>5. SessionTypes'
  BY <1>1 DEF SessionTypes, SessionsInv
<1>. QED
  BY <1>1, <1>2, <1>4, <1>5, IdleKeepsInv

(* A rollback ends with nothing running; without errors nothing is left.   *)
LEMMA RollbackDoneKeepsInv ==
    ASSUME SessionsInv, RollbackDone PROVE SessionsInv'
<1>1. /\ op = "rollback" /\ todo = <<>> /\ op' = "idle" /\ todo' = <<>>
      /\ UNCHANGED <<bridge, cred, bound, undo, toolCalls>>
      /\ IF errors THEN org' = "stopped" /\ sess' = sess /\ indexed' = indexed
         ELSE org' = "none" /\ sess' = {} /\ indexed' = indexed \ sess
  BY DEF RollbackDone, Runs, resources
<1>2. /\ indexed \subseteq sess /\ Covered(<<>>, {}) /\ RunningClosed(<<>>) /\ BridgesOwned
      /\ undo = <<>>
      /\ ~errors => BridgesClosed(<<>>)
  BY <1>1 DEF SessionsInv, OperationStands, RollbackStands, ProgramStands
<1>3. /\ \A a \in Members : bridge[a] # "running"
      /\ ~errors => \A a \in Members : bridge[a] = "none"
  BY <1>2, EmptyHasNone DEF RunningClosed, BridgesClosed
<1>4. IdleStands'
  <2>1. indexed' \subseteq sess' /\ Covered(<<>>, {})'
    BY <1>1, <1>2 DEF Covered
  <2>2. BridgesOwned'
    BY <1>1, <1>2, <1>3 DEF BridgesOwned
  <2>. QED
    BY <1>1, <1>3, <2>1, <2>2 DEF IdleStands
<1>5. SessionTypes'
  BY <1>1 DEF SessionTypes, SessionsInv
<1>. QED
  BY <1>1, <1>2, <1>4, <1>5, IdleKeepsInv

(* The calls of the agents, and the deaths of a bridge or of the process.  *)
LEMMA CallsKeepInv ==
    ASSUME SessionsInv, NEW c \in Callers,
           \/ \E a \in Members : CallLooks(c, a) \/ \E k \in Kinds : CallStarts(c, a, k)
           \/ CallRuns(c) \/ CallEnds(c)
    PROVE  SessionsInv'
<1>. DEFINE Calls == [stage : {"idle", "looked", "running"}, actor : Members \cup {1},
                      kind : Kinds \cup {NoKind}]
<1>1. UNCHANGED <<org, sess, indexed, bridge, cred, bound, program>>
  BY DEF CallLooks, CallStarts, CallRuns, CallEnds, onlyCalls, resources
<1>2. toolCalls \in [Callers -> Calls] /\ Idle \in Calls
  BY DEF SessionsInv, SessionTypes, Idle
<1>. DEFINE Moves == \E v \in Calls : /\ toolCalls' = [toolCalls EXCEPT ![c] = v]
                                      /\ v.stage = "running" => <<v.actor, v.kind>> \in bound
<1>3. Moves
  <2>1. ASSUME NEW a \in Members, NEW k \in Kinds, CallStarts(c, a, k) PROVE Moves
    <3>1. <<a, k>> \in bound
      BY <2>1 DEF CallStarts, SessionsInv, AccessStands
    <3>. DEFINE v == [stage |-> "running", actor |-> a, kind |-> k]
    <3>2. toolCalls' = [toolCalls EXCEPT ![c] = v]
      BY <2>1 DEF CallStarts, Sets
    <3>3. v \in Calls /\ <<v.actor, v.kind>> \in bound
      BY <3>1
    <3>. QED
      BY <3>2, <3>3
  <2>2. ASSUME NEW a \in Members, CallLooks(c, a) PROVE Moves
    <3>. DEFINE v == [stage |-> "looked", actor |-> a, kind |-> "candidate"]
    <3>2. toolCalls' = [toolCalls EXCEPT ![c] = v]
      BY <2>2 DEF CallLooks, Sets
    <3>3. v \in Calls /\ v.stage # "running"
      BY DEF Kinds
    <3>. QED
      BY <3>2, <3>3
  <2>3. ASSUME CallRuns(c) PROVE Moves
    <3>1. toolCalls[c].actor \in Members \cup {1}
      BY <1>2
    <3>2. CASE <<toolCalls[c].actor, "candidate">> \in bound
      BY <2>3, <3>1, <3>2 DEF CallRuns, Sets, Kinds
    <3>3. CASE <<toolCalls[c].actor, "candidate">> \notin bound
      BY <1>2, <2>3, <3>3 DEF CallRuns, Idle
    <3>. QED
      BY <3>2, <3>3
  <2>4. ASSUME CallEnds(c) PROVE Moves
    BY <1>2, <2>4 DEF CallEnds, Idle
  <2>. QED
    BY <2>1, <2>2, <2>3, <2>4
<1>4. toolCalls' \in [Callers -> Calls]
  BY <1>2, <1>3
<1>5. SessionTypes'
  BY <1>1, <1>4 DEF SessionsInv, SessionTypes, program
<1>6. AccessStands'
  BY <1>1, <1>2, <1>3 DEF SessionsInv, AccessStands
<1>. QED
  BY <1>1, <1>5, <1>6, Undisturbed

(* Faults: a bridge process dies, and the controller does.                 *)
LEMMA BridgeDiesKeepsInv ==
    ASSUME SessionsInv, NEW a \in Members, BridgeDies(a) PROVE SessionsInv'
<1>1. /\ bridge[a] = "running" /\ bridge' = [bridge EXCEPT ![a] = "broken"]
      /\ UNCHANGED <<org, sess, indexed, cred, bound, program, toolCalls>>
  BY DEF BridgeDies
<1>2. SessionTypes'
  BY <1>1 DEF SessionsInv, SessionTypes, program
<1>3. AccessStands'
  BY <1>1 DEF SessionsInv, AccessStands
<1>4. \A b \in Members : /\ bridge'[b] # "none" => bridge[b] # "none"
                         /\ bridge'[b] = "running" => bridge[b] = "running"
  BY <1>1 DEF SessionsInv, SessionTypes
<1>. QED
  BY <1>1, <1>2, <1>3, <1>4, Undisturbed

(* With the process everything it held is gone.                            *)
LEMMA ProcessDiesKeepsInv ==
    ASSUME SessionsInv, ProcessDies PROVE SessionsInv'
<1>1. /\ org' = "none" /\ sess' = {} /\ indexed' = {} /\ bound' = {}
      /\ bridge' = [a \in Members |-> "none"]
      /\ cred' = [a \in Members |-> [k \in Kinds |-> "none"]]
      /\ op' = "idle" /\ todo' = <<>> /\ undo' = <<>>
      /\ toolCalls' = [c \in Callers |-> Idle]
  BY DEF ProcessDies, NoBridges
<1>2. <<>> \in Programs /\ Len(<<>>) = 0
  BY ProgramsJoin
<1>3. SessionTypes'
  <2>1. Idle \in [stage : {"idle", "looked", "running"}, actor : Members \cup {1}, kind : Kinds \cup {NoKind}]
    BY DEF Idle
  <2>. QED
    BY <1>1, <2>1 DEF SessionTypes
<1>4. ProgramStands'
  BY <1>1, <1>2 DEF ProgramStands, Acquiring, Releasing
<1>5. RevokedFirst'
  BY <1>1, <1>2 DEF RevokedFirst, Orderly
<1>6. AccessStands'
  BY <1>1 DEF AccessStands, Idle
<1>7. OperationStands'
  BY <1>1 DEF OperationStands, IdleStands, StartStands, UnwindStands, StopStands, SuspendStands,
              ResumeStands, RewindStands, RollbackStands, Covered, BridgesOwned
<1>. QED
  BY <1>3, <1>4, <1>5, <1>6, <1>7 DEF SessionsInv

(* Every step of the harness preserves the invariant.                      *)
LEMMA SessionsInvKept == SessionsInv /\ [SessionsNext]_sessVars => SessionsInv'
<1>. SUFFICES ASSUME SessionsInv, [SessionsNext]_sessVars PROVE SessionsInv'
  OBVIOUS
<1>1. CASE StepReturns \/ StepFails \/ StepImpossible
  <2>1. op \in {"start", "resume"} \cup Releasing
    <3>1. todo # <<>>
      BY <1>1 DEF StepReturns, StepFails, StepImpossible
    <3>. QED
      BY <3>1 DEF SessionsInv, SessionTypes, ProgramStands, Acquiring
  <2>. QED
    BY <1>1, <2>1, StartKeepsInv, ResumeKeepsInv, ReleasingKeepsInv
<1>2. CASE StartOrganisation \/ Resume \/ Suspend \/ Stop \/ RetryRollback
  BY <1>2, StartOrganisationKeepsInv, ResumeActionKeepsInv, SuspendKeepsInv, StopActionKeepsInv,
     RetryRollbackKeepsInv
<1>3. CASE Done
  BY <1>3, StartDoneKeepsInv, UnwindDoneKeepsInv, StopDoneKeepsInv, SuspendDoneKeepsInv,
     ResumeDoneKeepsInv, RewindDoneKeepsInv, RollbackDoneKeepsInv DEF Done
<1>4. CASE TakeSnapshot \/ UNCHANGED sessVars
  <2>1. UNCHANGED <<org, sess, indexed, bridge, cred, bound, program, toolCalls>>
    BY <1>4 DEF TakeSnapshot, sessVars, resources
  <2>2. SessionTypes' /\ AccessStands'
    BY <2>1 DEF SessionsInv, SessionTypes, AccessStands, program
  <2>. QED
    BY <2>1, <2>2, Undisturbed
<1>5. CASE \E c \in Callers :
              \/ \E a \in Members : CallLooks(c, a) \/ \E k \in Kinds : CallStarts(c, a, k)
              \/ CallRuns(c) \/ CallEnds(c)
  BY <1>5, CallsKeepInv
<1>6. CASE ProcessDies \/ \E a \in Members : BridgeDies(a)
  BY <1>6, ProcessDiesKeepsInv, BridgeDiesKeepsInv
<1>. QED
  BY <1>1, <1>2, <1>3, <1>4, <1>5, <1>6 DEF SessionsNext

(* The inductive invariant: whatever an actor has is held by its session or*)
(* its release is a step still to come, at every step of every operation of*)
(* OpenCodeHarnessRuntime, whichever steps raise.                          *)
THEOREM SessionsInvariant == SessionsSpec => []SessionsInv
<1>1. SessionsInit => SessionsInv
  BY SessionsInitInv
<1>2. SessionsInv /\ [SessionsNext]_sessVars => SessionsInv'
  BY SessionsInvKept
<1>. QED
  BY <1>1, <1>2, PTL DEF SessionsSpec

(* Once an operation of OpenCodeHarnessRuntime has ended, whichever of its *)
(* steps failed, no credential, registration or bridge is left but those   *)
(* that a session of an active organisation holds.                         *)
THEOREM SessionsLeakNothing == SessionsSpec => []NothingLeaks
<1>1. SessionsInv => NothingLeaks
  <2>. SUFFICES ASSUME SessionsInv, op = "idle" PROVE NothingLeaks
    BY DEF NothingLeaks
  <2>1. /\ Covered(<<>>, IF org = "active" THEN sess ELSE {}) /\ BridgesOwned
        /\ \A a \in Members : bridge[a] = "running" => org = "active"
        /\ indexed \subseteq sess /\ bound \subseteq Members \X Kinds
    BY DEF SessionsInv, OperationStands, IdleStands, SessionTypes
  <2>2. \A a \in Members, k \in Kinds :
           cred[a][k] # "none" \/ <<a, k>> \in bound => a \in sess /\ org = "active"
    BY <2>1, EmptyHasNone DEF Covered
  <2>3. \A t \in bound : t[1] \in sess /\ org = "active"
    BY <2>1, <2>2
  <2>. QED
    BY <2>1, <2>2, <2>3 DEF NothingLeaks, BridgesOwned
<1>. QED
  BY <1>1, SessionsInvariant, PTL

(* No tool call runs with an access that was revoked, and none is left when an*)
(* organisation has stopped: revoke() of the gateways waits for the calls that*)
(* hold the access (candidate_gateway.py, peer_tool.py).                   *)
THEOREM NoCallOutlivesItsAccess == SessionsSpec => []NoCallOutlives
<1>1. SessionsInv => NoCallOutlives
  <2>. SUFFICES ASSUME SessionsInv PROVE NoCallOutlives
    OBVIOUS
  <2>1. \A c \in Callers : toolCalls[c].stage = "running"
           => <<toolCalls[c].actor, toolCalls[c].kind>> \in bound
    BY DEF SessionsInv, AccessStands
  <2>2. op = "idle" /\ org # "active" => \A a \in Members, k \in Kinds : <<a, k>> \notin bound
    BY IdleHas, EmptyHasNone DEF Covered
  <2>3. bound \subseteq Members \X Kinds
    BY DEF SessionsInv, SessionTypes
  <2>4. op = "idle" /\ org # "active" => bound = {}
    BY <2>2, <2>3
  <2>. QED
    BY <2>1, <2>4 DEF NoCallOutlives
<1>. QED
  BY <1>1, SessionsInvariant, PTL
-----------------------------------------------------------------------------
(* The fleet of a native organisation.                                     *)
Names  == ChildIds \cup {Unnamed}
Places == {"idle", "reserving", "admitted", "working", "completing", "done", "failed"}
Requests == [op : {"reserve", "complete"}, call : Dispatches, child : Names,
             awaited : BOOLEAN]

FleetTypes ==
    /\ permit \in [Dispatches -> [slot : Dispatches \cup {"none"}, child : Names,
                               status : {"none", "active", "complete"}]]
    /\ \A c \in Dispatches : permit[c].status = "none" <=> permit[c] = NoPermit
    /\ \A c \in Rows : permit[c].slot \in Dispatches
    /\ place \in [Dispatches -> Places]
    /\ works \in [Dispatches -> Names]
    /\ children \subseteq ChildIds /\ evidence \subseteq ChildIds
    /\ sent \subseteq Requests

(* The ledger: slots, their children, and the calls active in them.        *)
SlotsStand ==
    /\ \A c \in Rows :
          /\ permit[c].slot \in Rows /\ permit[permit[c].slot].slot = permit[c].slot
          /\ permit[c].slot # c =>
                permit[c].child # Unnamed /\ permit[permit[c].slot].child = permit[c].child
          /\ permit[c].status = "complete" => permit[c].child # Unnamed
    /\ \A c, d \in Rows :
          permit[c].child # Unnamed /\ permit[c].child = permit[d].child => permit[c].slot = permit[d].slot
    /\ \A c, d \in Rows :
          /\ permit[c].status = "active" /\ permit[d].status = "active"
          /\ permit[c].slot = permit[d].slot
          => c = d

SlotsAreCounted == Cardinality(Slots) < MaxIdentities

(* The runtime: what a task does rests on the permit of its call.          *)
TasksStand ==
    /\ \A c \in Dispatches :
          /\ works[c] # Unnamed =>
                /\ c \in Rows /\ place[c] # "admitted"
                /\ works[permit[c].slot] = works[c]
                /\ works[c] \in children
          /\ place[c] \in {"admitted", "working"} => c \in Rows /\ permit[c].status = "active"
          /\ place[c] = "working" => works[c] # Unnamed
    /\ \A c \in Rows : permit[c].child # Unnamed => works[permit[c].slot] = permit[c].child
    /\ \A c, d \in Rows :
          /\ permit[c].slot = c /\ permit[d].slot = d
          /\ works[c] = works[d] /\ works[c] # Unnamed
          => c = d
    /\ \A p \in sent : p.op = "complete" =>
          /\ works[p.call] = p.child /\ p.child # Unnamed
          /\ place[p.call] \notin {"admitted", "working"}
    /\ \A x \in children : \E c \in Rows : permit[c].slot = c /\ works[c] = x
    /\ \A x \in evidence : \E c \in Rows : permit[c].child = x /\ permit[c].status = "complete"

FleetInv == FleetTypes /\ SlotsStand /\ SlotsAreCounted /\ TasksStand

(* What the two transactions do to the ledger.                             *)
LEMMA Reserving ==
    ASSUME FleetInv, NEW p \in sent, ReserveSlot(p)
    PROVE  LET c == p.call
           IN  /\ c \in Dispatches \ Rows /\ p.child \in Names
               /\ Rows' = Rows \cup {c}
               /\ \A d \in Dispatches : d # c => permit'[d] = permit[d]
               /\ permit'[c].child = p.child /\ permit'[c].status = "active"
               /\ permit'[c].slot = SlotFor(c, p.child)
               /\ permit' \in [Dispatches -> [slot : Dispatches \cup {"none"}, child : Names,
                                           status : {"none", "active", "complete"}]]
               /\ \/ p.child = Unnamed /\ permit'[c].slot = c /\ Cardinality(Slots) < MaxIdentities - 1
                  \/ /\ p.child # Unnamed /\ permit'[c].slot \in Rows
                     /\ permit[permit'[c].slot].slot = permit'[c].slot
                     /\ permit[permit'[c].slot].child = p.child
                     /\ \A d \in Rows : permit[d].child = p.child => permit[d].slot = permit'[c].slot
                     /\ \A d \in Rows : permit[d].slot = permit'[c].slot => permit[d].status # "active"
<1> DEFINE c == p.call
<1>1. c \in Dispatches /\ p.child \in Names /\ permit[c] = NoPermit /\ c \notin Rows
  BY DEF FleetInv, FleetTypes, Requests, ReserveSlot, Rows, NoPermit
<1>2. CASE p.child = Unnamed
  <2>1. SlotFor(c, p.child) = c /\ Cardinality(Slots) < MaxIdentities - 1
    BY <1>2 DEF ReserveSlot, HasSlot, SlotFor
  <2> QED BY <1>1, <1>2, <2>1 DEF ReserveSlot, FleetInv, FleetTypes, Rows
<1>3. CASE p.child # Unnamed
  <2> DEFINE e == CHOOSE d \in Known(p.child) : TRUE
  <2>1. e \in Known(p.child) /\ SlotFor(c, p.child) = permit[e].slot
    BY <1>3 DEF ReserveSlot, HasSlot, SlotFor
  <2>2. e \in Rows /\ permit[e].child = p.child
    BY <2>1 DEF Known
  <2> HIDE DEF e
  <2>3. /\ permit[e].slot \in Rows /\ permit[permit[e].slot].slot = permit[e].slot
        /\ permit[permit[e].slot].child = p.child
    BY <2>2 DEF FleetInv, SlotsStand
  <2>4. \A d \in Rows : permit[d].child = p.child => permit[d].slot = permit[e].slot
    BY <1>3, <2>2 DEF FleetInv, SlotsStand
  <2>5. \A d \in Rows : permit[d].slot = permit[e].slot => permit[d].status # "active"
    BY <1>3, <2>1 DEF ReserveSlot, HasSlot, Active
  <2>6. permit[e].slot \in Dispatches
    BY <2>3 DEF Rows
  <2>7. permit' = [permit EXCEPT ![c] = [slot |-> permit[e].slot, child |-> p.child,
                                   status |-> "active"]]
    BY <2>1 DEF ReserveSlot
  <2>8. permit'[c] = [slot |-> permit[e].slot, child |-> p.child, status |-> "active"]
    BY <1>1, <2>7 DEF FleetInv, FleetTypes
  <2>9. \A d \in Dispatches : d # c => permit'[d] = permit[d]
    BY <1>1, <2>7 DEF FleetInv, FleetTypes
  <2>10. Rows' = Rows \cup {c}
    BY <1>1, <2>8, <2>9 DEF Rows
  <2>11. permit' \in [Dispatches -> [slot : Dispatches \cup {"none"}, child : Names,
                                  status : {"none", "active", "complete"}]]
    BY <1>1, <2>6, <2>7 DEF FleetInv, FleetTypes
  <2> QED BY <1>1, <1>3, <2>1, <2>3, <2>4, <2>5, <2>8, <2>9, <2>10, <2>11
<1> QED BY <1>2, <1>3

(* A completion that is answered names the child its slot was given to.    *)
LEMMA Completing ==
    ASSUME FleetInv, NEW p \in sent, Complete(p)
    PROVE  LET c == p.call
           IN  /\ c \in Rows /\ p.child \in ChildIds
               /\ works[c] = p.child /\ works[permit[c].slot] = p.child
               /\ Rows' = Rows
               /\ \A d \in Dispatches : d # c => permit'[d] = permit[d]
               /\ permit'[c].child = p.child /\ permit'[c].status = "complete"
               /\ permit'[c].slot = permit[c].slot
               /\ permit[c].child \in {Unnamed, p.child}
               /\ \A d \in Rows : permit[d].child = p.child => permit[d].slot = permit[c].slot
               /\ permit' \in [Dispatches -> [slot : Dispatches \cup {"none"}, child : Names,
                                           status : {"none", "active", "complete"}]]
<1> DEFINE c == p.call
<1>1. /\ c \in Dispatches /\ p.child \in Names /\ p.child # Unnamed /\ works[c] = p.child
  BY DEF FleetInv, FleetTypes, Requests, TasksStand, Complete
<1>2. c \in Rows /\ works[permit[c].slot] = p.child
  BY <1>1 DEF FleetInv, TasksStand
<1>3. permit' = [permit EXCEPT ![c].child = p.child, ![c].status = "complete"]
  BY DEF Complete
<1>4. /\ \A d \in Dispatches : d # c => permit'[d] = permit[d]
      /\ permit'[c].child = p.child /\ permit'[c].status = "complete"
      /\ permit'[c].slot = permit[c].slot
      /\ permit' \in [Dispatches -> [slot : Dispatches \cup {"none"}, child : Names,
                                  status : {"none", "active", "complete"}]]
  BY <1>1, <1>3 DEF FleetInv, FleetTypes
<1>5. Rows' = Rows
  BY <1>1, <1>2, <1>4 DEF Rows
<1>6. /\ permit[c].child \in {Unnamed, p.child}
      /\ \A d \in Rows : permit[d].child = p.child => permit[d].slot = permit[c].slot
  BY DEF Complete, IsBoundTo, Known
<1> QED BY <1>1, <1>2, <1>4, <1>5, <1>6 DEF Names

(* A request its sender gave up stays the request it was.                  *)
LEMMA GivingUp ==
    ASSUME FleetInv, NEW p \in sent
    PROVE  /\ GivenUp(p) \in Requests
           /\ GivenUp(p).op = p.op /\ GivenUp(p).call = p.call /\ GivenUp(p).child = p.child
BY DEF FleetInv, FleetTypes, Requests, GivenUp

(* Every step of a fleet keeps the types of its state.                     *)
LEMMA TypesStep ==
    ASSUME FleetInv, FleetNext
    PROVE  FleetTypes'
<1> USE DEF FleetTypes, Names, Places
<1>1. ASSUME NEW c \in Dispatches, NEW t \in children \cup {Unnamed}, BeginTask(c, t)
      PROVE  FleetTypes'
  <2>1. Post("reserve", c, t) \in Requests
    BY DEF FleetInv, Requests, Post
  <2>2. place' \in [Dispatches -> Places] /\ sent' \subseteq Requests
    BY <1>1, <2>1 DEF FleetInv, BeginTask
  <2> QED BY <1>1, <2>2 DEF FleetInv, BeginTask, Rows, NoPermit
<1>2. ASSUME NEW p \in sent, ReserveSlot(p) PROVE FleetTypes'
  <2> DEFINE c == p.call
  <2>1. \A d \in Dispatches : permit'[d].status = "none" <=> permit'[d] = NoPermit
    BY <1>2, Reserving DEF FleetInv, NoPermit
  <2>2. \A d \in Rows' : permit'[d].slot \in Dispatches
    BY <1>2, Reserving DEF FleetInv, Rows
  <2>3. permit' \in [Dispatches -> [slot : Dispatches \cup {"none"}, child : Names,
                                 status : {"none", "active", "complete"}]]
    BY <1>2, Reserving
  <2>4. place' \in [Dispatches -> Places] /\ sent' \subseteq sent
        /\ UNCHANGED <<works, children, evidence>>
    BY <1>2 DEF FleetInv, ReserveSlot, Reply
  <2> QED BY <2>1, <2>2, <2>3, <2>4 DEF FleetInv
<1>3. ASSUME NEW p \in sent, Complete(p) PROVE FleetTypes'
  <2> DEFINE c == p.call
  <2>1. \A d \in Dispatches : permit'[d].status = "none" <=> permit'[d] = NoPermit
    BY <1>3, Completing DEF FleetInv, NoPermit
  <2>2. \A d \in Rows' : permit'[d].slot \in Dispatches
    BY <1>3, Completing DEF FleetInv, Rows
  <2>3. permit' \in [Dispatches -> [slot : Dispatches \cup {"none"}, child : Names,
                                 status : {"none", "active", "complete"}]]
    BY <1>3, Completing
  <2>4. place' \in [Dispatches -> Places] /\ sent' \subseteq sent
        /\ UNCHANGED <<works, children, evidence>>
    BY <1>3 DEF FleetInv, Complete, Reply
  <2> QED BY <2>1, <2>2, <2>3, <2>4 DEF FleetInv
<1>4. ASSUME NEW p \in sent, ReserveDenied(p) PROVE FleetTypes'
  BY <1>4 DEF FleetInv, ReserveDenied, Reply, Rows, NoPermit
<1>5. ASSUME NEW p \in sent, CompleteRaises(p) PROVE FleetTypes'
  BY <1>5 DEF FleetInv, CompleteRaises, Reply, Rows, NoPermit
<1>6. ASSUME NEW c \in Dispatches, StartTask(c) PROVE FleetTypes'
  BY <1>6 DEF FleetInv, StartTask, Rows, NoPermit
<1>7. ASSUME NEW c \in Dispatches, TaskFails(c) PROVE FleetTypes'
  BY <1>7 DEF FleetInv, TaskFails, Rows, NoPermit
<1>8. ASSUME NEW c \in Dispatches, TaskEnds(c) PROVE FleetTypes'
  <2>1. Post("complete", c, works[c]) \in Requests
    BY DEF FleetInv, Requests, Post
  <2>2. place' \in [Dispatches -> Places] /\ sent' \subseteq Requests
    BY <1>8, <2>1 DEF FleetInv, TaskEnds
  <2> QED BY <1>8, <2>2 DEF FleetInv, TaskEnds, Rows, NoPermit
<1>9. ASSUME NEW p \in sent, GiveUp(p) PROVE FleetTypes'
  <2>1. place' \in [Dispatches -> Places] /\ sent' \subseteq Requests
    BY <1>9, GivingUp DEF FleetInv, GiveUp
  <2> QED BY <1>9, <2>1 DEF FleetInv, GiveUp, Rows, NoPermit
<1>10. CASE RuntimeDies
  <2>1. place' \in [Dispatches -> Places]
    BY <1>10 DEF FleetInv, RuntimeDies
  <2>2. sent' \subseteq Requests
    BY <1>10, GivingUp DEF RuntimeDies
  <2> QED BY <1>10, <2>1, <2>2 DEF FleetInv, RuntimeDies, Rows, NoPermit
<1>11. CASE FleetSnapshot
  BY <1>11 DEF FleetInv, FleetSnapshot, Rows, NoPermit
<1> HIDE DEF FleetTypes, Names, Places
<1> QED BY <1>1, <1>2, <1>3, <1>4, <1>5, <1>6, <1>7, <1>8, <1>9, <1>10, <1>11 DEF FleetNext

(* Every other step leaves the ledger alone.                               *)
LEMMA LedgerSteps ==
    ASSUME FleetNext
    PROVE  UNCHANGED permit \/ \E p \in sent : ReserveSlot(p) \/ Complete(p)
BY DEF FleetNext, BeginTask, StartTask, TaskFails, TaskEnds, ReserveDenied, CompleteRaises,
       GiveUp, RuntimeDies, FleetSnapshot

(* Every step keeps one child to a slot and one active call to a child.    *)
LEMMA SlotsStep ==
    ASSUME FleetInv, FleetNext
    PROVE  SlotsStand' /\ SlotsAreCounted'
<1>1. CASE UNCHANGED permit
  BY <1>1 DEF FleetInv, SlotsStand, SlotsAreCounted, Slots, Rows
<1>2. ASSUME NEW p \in sent, ReserveSlot(p) PROVE SlotsStand' /\ SlotsAreCounted'
  <2> DEFINE c == p.call
  <2>1. \A d \in Rows : permit[d].slot \in Rows /\ permit'[d] = permit[d] /\ d # c /\ d \in Dispatches
    BY <1>2, Reserving DEF FleetInv, SlotsStand, Rows
  <2>2. /\ c \in Dispatches \ Rows /\ Rows' = Rows \cup {c}
        /\ permit'[c].child = p.child /\ permit'[c].status = "active"
    BY <1>2, Reserving
  <2>3. CASE p.child = Unnamed /\ permit'[c].slot = c /\ Cardinality(Slots) < MaxIdentities - 1
    <3>1. SlotsStand'
      BY <2>1, <2>2, <2>3 DEF FleetInv, SlotsStand
    <3>2. Slots' = Slots \cup {c}
      BY <2>1, <2>2, <2>3 DEF Slots
    <3>3. IsFiniteSet(Slots)
      BY FS_Subset, FleetAssumption DEF FleetInv, FleetTypes, Slots
    <3>4. Cardinality(Slots \cup {c}) = IF c \in Slots THEN Cardinality(Slots)
                                       ELSE Cardinality(Slots) + 1
      BY <3>3, FS_AddElement
    <3>5. Cardinality(Slots) \in Nat
      BY <3>3, FS_CardinalityType
    <3> QED BY <2>3, <3>1, <3>2, <3>4, <3>5, FleetAssumption DEF SlotsAreCounted
  <2>4. CASE /\ p.child # Unnamed /\ permit'[c].slot \in Rows
             /\ permit[permit'[c].slot].slot = permit'[c].slot
             /\ permit[permit'[c].slot].child = p.child
             /\ \A d \in Rows : permit[d].child = p.child => permit[d].slot = permit'[c].slot
             /\ \A d \in Rows : permit[d].slot = permit'[c].slot => permit[d].status # "active"
    <3>1. SlotsStand'
      BY <2>1, <2>2, <2>4 DEF FleetInv, SlotsStand
    <3>2. Slots' = Slots
      BY <2>1, <2>2, <2>4 DEF Slots
    <3> QED BY <3>1, <3>2 DEF FleetInv, SlotsAreCounted
  <2> QED BY <1>2, <2>3, <2>4, Reserving
<1>3. ASSUME NEW p \in sent, Complete(p) PROVE SlotsStand' /\ SlotsAreCounted'
  <2> DEFINE c == p.call
  <2>1. \A d \in Rows : d # c => permit'[d] = permit[d]
    BY <1>3, Completing DEF Rows
  <2>2. /\ c \in Rows /\ p.child \in ChildIds /\ Rows' = Rows
        /\ permit'[c].child = p.child /\ permit'[c].status = "complete"
        /\ permit'[c].slot = permit[c].slot
        /\ permit[c].child \in {Unnamed, p.child}
        /\ \A d \in Rows : permit[d].child = p.child => permit[d].slot = permit[c].slot
    BY <1>3, Completing
  <2>3. p.child # Unnamed
    BY <2>2, FleetAssumption
  <2>4. \A d \in Rows : permit'[d].slot = permit[d].slot
                        /\ (permit'[d].status = "active" => permit[d].status = "active")
    BY <2>1, <2>2
  <2>5. Slots' = Slots
    BY <2>2, <2>4 DEF Slots
  <2>6. SlotsStand'
    <3>1. \A d \in Rows' :
             /\ permit'[d].slot \in Rows' /\ permit'[permit'[d].slot].slot = permit'[d].slot
             /\ permit'[d].slot # d =>
                   permit'[d].child # Unnamed /\ permit'[permit'[d].slot].child = permit'[d].child
             /\ permit'[d].status = "complete" => permit'[d].child # Unnamed
      BY <2>1, <2>2, <2>3, <2>4 DEF FleetInv, SlotsStand
    <3>2. \A d, e \in Rows' :
             permit'[d].child # Unnamed /\ permit'[d].child = permit'[e].child
             => permit'[d].slot = permit'[e].slot
      BY <2>1, <2>2, <2>3, <2>4 DEF FleetInv, SlotsStand
    <3>3. \A d, e \in Rows' :
             /\ permit'[d].status = "active" /\ permit'[e].status = "active"
             /\ permit'[d].slot = permit'[e].slot
             => d = e
      BY <2>2, <2>4 DEF FleetInv, SlotsStand
    <3> QED BY <3>1, <3>2, <3>3 DEF SlotsStand
  <2> QED BY <2>5, <2>6 DEF FleetInv, SlotsAreCounted
<1> QED BY <1>1, <1>2, <1>3, LedgerSteps

(* Every step keeps what a call at each place knows of its child.          *)
LEMMA TasksStep ==
    ASSUME FleetInv, FleetNext
    PROVE  TasksStand'
<1>1. ASSUME NEW c \in Dispatches, NEW t \in children \cup {Unnamed}, BeginTask(c, t)
      PROVE  TasksStand'
  <2>1. \A d \in Dispatches :
           place'[d] = place[d] \/ (place'[d] = "reserving" /\ place[d] \in {"idle", "failed"})
    BY <1>1 DEF FleetInv, FleetTypes, BeginTask
  <2>2. \A p \in sent' : p.op = "complete" => p \in sent
    BY <1>1 DEF BeginTask, Post
  <2>3. UNCHANGED <<permit, works, children, evidence, Rows>>
    BY <1>1 DEF BeginTask, Rows
  <2>4. \A p \in sent : p.call \in Dispatches
    BY DEF FleetInv, FleetTypes, Requests
  <2> QED BY <2>1, <2>2, <2>3, <2>4 DEF FleetInv, TasksStand
<1>2. ASSUME NEW p \in sent, ReserveSlot(p) PROVE TasksStand'
  <2> DEFINE c == p.call
  <2>1. /\ c \in Dispatches \ Rows /\ Rows' = Rows \cup {c}
        /\ permit'[c].child = p.child /\ permit'[c].status = "active"
        /\ \A d \in Rows : permit'[d] = permit[d]
    BY <1>2, Reserving DEF Rows
  <2>2. /\ \A d \in Dispatches : d # c => place'[d] = place[d]
        /\ UNCHANGED <<works, children, evidence>> /\ sent' \subseteq sent
    BY <1>2 DEF FleetInv, FleetTypes, ReserveSlot, Reply
  <2>3. place'[c] \in {place[c], "admitted"} /\ place[c] \notin {"admitted", "working"}
    BY <1>2, <2>1 DEF FleetInv, FleetTypes, TasksStand, ReserveSlot, Reply
  <2>4. works[c] = Unnamed
    BY <2>1 DEF FleetInv, TasksStand
  <2>5. \A q \in sent : q.op = "complete" => q.call \in Rows /\ q.call # c
    BY <2>1 DEF FleetInv, FleetTypes, Requests, TasksStand
  <2>6. permit'[c].child # Unnamed => works[permit'[c].slot] = permit'[c].child
    <3>1. SUFFICES ASSUME p.child # Unnamed PROVE works[permit'[c].slot] = p.child
      BY <2>1
    <3>2. permit'[c].slot \in Rows /\ permit[permit'[c].slot].slot = permit'[c].slot
          /\ permit[permit'[c].slot].child = p.child
      BY <1>2, <3>1, Reserving
    <3> QED BY <3>1, <3>2 DEF FleetInv, TasksStand
  <2>7. \A d \in Dispatches :
           /\ works'[d] # Unnamed =>
                 /\ d \in Rows' /\ place'[d] # "admitted"
                 /\ works'[permit'[d].slot] = works'[d]
                 /\ works'[d] \in children'
           /\ place'[d] \in {"admitted", "working"} => d \in Rows' /\ permit'[d].status = "active"
           /\ place'[d] = "working" => works'[d] # Unnamed
    BY <2>1, <2>2, <2>3, <2>4 DEF FleetInv, TasksStand
  <2>8. \A d \in Rows' : permit'[d].child # Unnamed => works'[permit'[d].slot] = permit'[d].child
    BY <2>1, <2>2, <2>6 DEF FleetInv, TasksStand
  <2>9. \A d, e \in Rows' :
           /\ permit'[d].slot = d /\ permit'[e].slot = e
           /\ works'[d] = works'[e] /\ works'[d] # Unnamed
           => d = e
    BY <2>1, <2>2, <2>4 DEF FleetInv, TasksStand
  <2>10. \A q \in sent' : q.op = "complete" =>
            /\ works'[q.call] = q.child /\ q.child # Unnamed
            /\ place'[q.call] \notin {"admitted", "working"}
    BY <2>2, <2>5 DEF FleetInv, FleetTypes, Requests, TasksStand
  <2>11. /\ \A x \in children' : \E d \in Rows' : permit'[d].slot = d /\ works'[d] = x
         /\ \A x \in evidence' : \E d \in Rows' : permit'[d].child = x
                                                  /\ permit'[d].status = "complete"
    BY <2>1, <2>2 DEF FleetInv, TasksStand
  <2> QED BY <2>7, <2>8, <2>9, <2>10, <2>11 DEF TasksStand
<1>3. ASSUME NEW p \in sent, Complete(p) PROVE TasksStand'
  <2> DEFINE c == p.call
  <2>1. /\ c \in Rows /\ works[c] = p.child /\ works[permit[c].slot] = p.child /\ Rows' = Rows
        /\ permit'[c].child = p.child /\ permit'[c].status = "complete" /\ permit'[c].slot = permit[c].slot
        /\ permit[c].child \in {Unnamed, p.child}
        /\ \A d \in Rows : d # c => permit'[d] = permit[d]
    BY <1>3, Completing DEF Rows
  <2>2. /\ \A d \in Dispatches : d # c => place'[d] = place[d]
        /\ place'[c] \in {place[c], "done"}
        /\ UNCHANGED <<works, children, evidence>> /\ sent' \subseteq sent
    BY <1>3 DEF FleetInv, FleetTypes, Complete, Reply
  <2>3. place[c] \notin {"admitted", "working"}
    BY <1>3 DEF FleetInv, TasksStand, Complete
  <2>4. \A d \in Rows : permit'[d].slot = permit[d].slot
    BY <2>1
  <2>5. \A q \in sent : q.call \in Dispatches
    BY DEF FleetInv, FleetTypes, Requests
  <2>6. \A d \in Dispatches :
           /\ works'[d] # Unnamed =>
                 /\ d \in Rows' /\ place'[d] # "admitted"
                 /\ works'[permit'[d].slot] = works'[d]
                 /\ works'[d] \in children'
           /\ place'[d] \in {"admitted", "working"} => d \in Rows' /\ permit'[d].status = "active"
           /\ place'[d] = "working" => works'[d] # Unnamed
    BY <2>1, <2>2, <2>3, <2>4 DEF FleetInv, TasksStand
  <2>7. \A d \in Rows' : permit'[d].child # Unnamed => works'[permit'[d].slot] = permit'[d].child
    BY <2>1, <2>2, <2>4 DEF FleetInv, TasksStand
  <2>8. \A d, e \in Rows' :
           /\ permit'[d].slot = d /\ permit'[e].slot = e
           /\ works'[d] = works'[e] /\ works'[d] # Unnamed
           => d = e
    BY <2>1, <2>2, <2>4 DEF FleetInv, TasksStand
  <2>9. \A q \in sent' : q.op = "complete" =>
            /\ works'[q.call] = q.child /\ q.child # Unnamed
            /\ place'[q.call] \notin {"admitted", "working"}
    BY <2>2, <2>3, <2>5 DEF FleetInv, TasksStand
  <2>10. \A x \in children' : \E d \in Rows' : permit'[d].slot = d /\ works'[d] = x
    BY <2>1, <2>2, <2>4 DEF FleetInv, TasksStand
  <2>11. \A d \in Rows : permit[d].status = "complete" =>
            permit'[d].child = permit[d].child /\ permit'[d].status = "complete"
    BY <2>1 DEF FleetInv, SlotsStand
  <2>12. \A x \in evidence' : \E d \in Rows' : permit'[d].child = x
                                                /\ permit'[d].status = "complete"
    BY <2>1, <2>2, <2>11 DEF FleetInv, TasksStand
  <2> QED BY <2>6, <2>7, <2>8, <2>9, <2>10, <2>12 DEF TasksStand
<1>4. ASSUME NEW c \in Dispatches, StartTask(c) PROVE TasksStand'
  <2>1. /\ c \in Rows /\ permit[c].status = "active" /\ works[c] = Unnamed /\ place'[c] = "working"
        /\ \A d \in Dispatches : d # c => place'[d] = place[d] /\ works'[d] = works[d]
        /\ UNCHANGED <<permit, sent, evidence, Rows>>
    BY <1>4 DEF FleetInv, FleetTypes, TasksStand, StartTask, Rows
  <2>2. \A q \in sent : q.op = "complete" => q.call # c /\ q.call \in Dispatches
    BY <1>4 DEF FleetInv, FleetTypes, Requests, TasksStand, StartTask
  <2>3. Rows \subseteq Dispatches
    BY DEF Rows
  <2>4. CASE permit[c].child = Unnamed
    <3>1. permit[c].slot = c
      BY <2>1, <2>4 DEF FleetInv, SlotsStand
    <3>2. \A d \in Rows : permit[d].slot = c => works[d] = Unnamed /\ permit[d].child = Unnamed
      BY <2>1, <2>3 DEF FleetInv, TasksStand
    <3>3. PICK x \in ChildIds \ children :
             children' = children \cup {x} /\ works' = [works EXCEPT ![c] = x]
      BY <1>4, <2>4 DEF StartTask
    <3>4. works'[c] = x /\ x # Unnamed /\ \A d \in Dispatches : works[d] # x
      BY <3>3, <2>1, <2>3, FleetAssumption DEF FleetInv, FleetTypes, TasksStand
    <3>5. \A d \in Rows : permit[d].slot \in Dispatches
      BY DEF FleetInv, FleetTypes
    <3>6. \A d \in Dispatches :
             /\ works'[d] # Unnamed =>
                   /\ d \in Rows /\ place'[d] # "admitted"
                   /\ works'[permit[d].slot] = works'[d]
                   /\ works'[d] \in children'
             /\ place'[d] \in {"admitted", "working"} => d \in Rows /\ permit[d].status = "active"
             /\ place'[d] = "working" => works'[d] # Unnamed
      BY <2>1, <2>3, <3>1, <3>2, <3>3, <3>4, <3>5 DEF FleetInv, TasksStand
    <3>7. \A d \in Rows : permit[d].child # Unnamed => works'[permit[d].slot] = permit[d].child
      BY <2>1, <3>2, <3>5 DEF FleetInv, TasksStand
    <3>8. \A d, e \in Rows :
             /\ permit[d].slot = d /\ permit[e].slot = e
             /\ works'[d] = works'[e] /\ works'[d] # Unnamed
             => d = e
      BY <2>1, <2>3, <3>4 DEF FleetInv, TasksStand
    <3>9. \A q \in sent : q.op = "complete" =>
             /\ works'[q.call] = q.child /\ q.child # Unnamed
             /\ place'[q.call] \notin {"admitted", "working"}
      BY <2>1, <2>2 DEF FleetInv, TasksStand
    <3>10. \A y \in children' : \E d \in Rows : permit[d].slot = d /\ works'[d] = y
      <4>1. Unnamed \notin children
        BY FleetAssumption DEF FleetInv, FleetTypes
      <4>2. \A y \in children : \E d \in Rows : permit[d].slot = d /\ works[d] = y /\ d # c
        BY <2>1, <4>1 DEF FleetInv, TasksStand
      <4> QED BY <2>1, <2>3, <3>1, <3>3, <3>4, <4>2
    <3> QED BY <2>1, <3>6, <3>7, <3>8, <3>9, <3>10 DEF FleetInv, TasksStand
  <2>5. CASE permit[c].child # Unnamed
    <3>1. works[permit[c].slot] = permit[c].child /\ permit[c].slot # c
      BY <2>1, <2>5 DEF FleetInv, TasksStand
    <3>2. works'[c] = permit[c].child /\ UNCHANGED children
      BY <1>4, <2>5 DEF FleetInv, FleetTypes, StartTask
    <3>3. permit[c].slot \in Rows /\ permit[permit[c].slot].slot = permit[c].slot
      BY <2>1 DEF FleetInv, SlotsStand
    <3>4. \A d \in Rows : permit[d].slot # c
      BY <2>1, <3>1, <2>3 DEF FleetInv, SlotsStand
    <3>5. works[permit[c].slot] \in children
      BY <2>5, <3>1, <3>3, <2>3 DEF FleetInv, TasksStand
    <3>6. \A d \in Rows : permit[d].slot \in Dispatches
      BY DEF FleetInv, FleetTypes
    <3> QED BY <2>1, <2>2, <2>3, <2>5, <3>1, <3>2, <3>3, <3>4, <3>5, <3>6
            DEF FleetInv, TasksStand
  <2> QED BY <2>4, <2>5
<1>5. ASSUME UNCHANGED <<permit, works, children, evidence>>,
             \A d \in Dispatches : place'[d] \in {"admitted", "working"} => place'[d] = place[d],
             \A q \in sent' : q.op = "complete" =>
                 /\ q.call \in Dispatches /\ works[q.call] = q.child /\ q.child # Unnamed
                 /\ place'[q.call] \notin {"admitted", "working"}
      PROVE  TasksStand'
  BY <1>5 DEF FleetInv, TasksStand, Rows
<1>6. \A q \in sent : q.op = "complete" =>
          /\ q.call \in Dispatches /\ works[q.call] = q.child /\ q.child # Unnamed
          /\ place[q.call] \notin {"admitted", "working"}
  BY DEF FleetInv, FleetTypes, Requests, TasksStand
<1>7. ASSUME NEW p \in sent, ReserveDenied(p) \/ CompleteRaises(p) PROVE TasksStand'
  <2>1. /\ \A d \in Dispatches : place'[d] \in {place[d], "failed"}
        /\ sent' \subseteq sent /\ UNCHANGED <<permit, works, children, evidence>>
    BY <1>7 DEF FleetInv, FleetTypes, ReserveDenied, CompleteRaises, Reply
  <2> QED BY <1>5, <1>6, <2>1
<1>8. ASSUME NEW c \in Dispatches, TaskFails(c) PROVE TasksStand'
  <2>1. /\ \A d \in Dispatches : place'[d] \in {place[d], "failed"}
        /\ sent' = sent /\ UNCHANGED <<permit, works, children, evidence>>
    BY <1>8 DEF FleetInv, FleetTypes, TaskFails
  <2> QED BY <1>5, <1>6, <2>1
<1>9. ASSUME NEW c \in Dispatches, TaskEnds(c) PROVE TasksStand'
  <2>1. /\ \A d \in Dispatches : place'[d] \in {place[d], "completing"}
        /\ place'[c] = "completing" /\ works[c] # Unnamed
        /\ UNCHANGED <<permit, works, children, evidence>>
    BY <1>9 DEF FleetInv, FleetTypes, TasksStand, TaskEnds
  <2>2. \A q \in sent' : q \in sent \/ (q.call = c /\ q.child = works[c])
    BY <1>9 DEF TaskEnds, Post
  <2> QED BY <1>5, <1>6, <2>1, <2>2
<1>10. ASSUME NEW p \in sent, GiveUp(p) PROVE TasksStand'
  <2>1. /\ \A d \in Dispatches : place'[d] \in {place[d], "failed"}
        /\ UNCHANGED <<permit, works, children, evidence>>
    BY <1>10 DEF FleetInv, FleetTypes, GiveUp
  <2>2. \A q \in sent' : q \in sent \/ q = GivenUp(p)
    BY <1>10 DEF GiveUp
  <2> QED BY <1>5, <1>6, <2>1, <2>2, GivingUp
<1>11. CASE RuntimeDies
  <2>1. /\ \A d \in Dispatches : place'[d] \in {place[d], "failed"}
        /\ UNCHANGED <<permit, works, children, evidence>>
    BY <1>11 DEF FleetInv, FleetTypes, RuntimeDies
  <2>2. \A q \in sent' : \E p \in sent : q = GivenUp(p)
    BY <1>11 DEF RuntimeDies
  <2> QED BY <1>5, <1>6, <2>1, <2>2, GivingUp
<1>12. CASE FleetSnapshot
  <2>1. \A x \in children : \E c \in Rows : permit[c].child = x /\ permit[c].status = "complete"
    BY <1>12 DEF FleetSnapshot, FleetReconciles
  <2> QED BY <1>12, <2>1 DEF FleetInv, TasksStand, FleetSnapshot, Rows
<1> QED BY <1>1, <1>2, <1>3, <1>4, <1>7, <1>8, <1>9, <1>10, <1>11, <1>12 DEF FleetNext

(* The inductive invariant holds of every fleet.                           *)
THEOREM FleetInvariant == FleetSpec => []FleetInv
<1>1. FleetInit => FleetInv
  <2> SUFFICES ASSUME FleetInit PROVE FleetInv
    OBVIOUS
  <2>1. FleetTypes /\ Rows = {} /\ Slots = {}
    BY DEF FleetInit, FleetTypes, Names, Places, Requests, NoPermit, Rows, Slots
  <2>2. SlotsStand /\ TasksStand
    BY <2>1 DEF FleetInit, SlotsStand, TasksStand
  <2>3. SlotsAreCounted
    BY <2>1, FS_EmptySet, FleetAssumption DEF SlotsAreCounted
  <2> QED BY <2>1, <2>2, <2>3 DEF FleetInv
<1>2. FleetInv /\ UNCHANGED fleetVars => FleetInv'
  BY DEF FleetInv, FleetTypes, SlotsStand, SlotsAreCounted, TasksStand, Slots, Rows, fleetVars
<1>3. FleetInv /\ [FleetNext]_fleetVars => FleetInv'
  BY <1>2, TypesStep, SlotsStep, TasksStep DEF FleetInv
<1> QED BY <1>1, <1>3, PTL DEF FleetSpec

(* However many calls are lost, repeated or interrupted, and whenever the  *)
(* runtime dies: a fleet has no more identities than its plan, and its     *)
(* ledger tells its children apart (native_admission.py).                  *)
THEOREM FleetStaysBounded == FleetSpec => []FleetIsBounded
<1>1. FleetInv => FleetIsBounded
  <2> SUFFICES ASSUME FleetInv PROVE FleetIsBounded
    OBVIOUS
  <2>1. Cardinality(children) < MaxIdentities
    <3> DEFINE T == {works[s] : s \in Slots}
               f == [s \in Slots |-> works[s]]
    <3>1. IsFiniteSet(Slots)
      BY FS_Subset, FleetAssumption DEF FleetInv, FleetTypes, Slots
    <3>2. f \in Surjection(Slots, T)
      BY DEF Surjection
    <3>3. IsFiniteSet(T) /\ Cardinality(T) <= Cardinality(Slots)
      <4> HIDE DEF T, f
      <4> QED BY <3>1, <3>2, FS_Surjection
    <3>4. children \in SUBSET T
      BY DEF FleetInv, TasksStand, Slots
    <3>5. IsFiniteSet(children) /\ Cardinality(children) <= Cardinality(T)
      <4> HIDE DEF T, f
      <4> QED BY <3>3, <3>4, FS_Subset
    <3>6. Cardinality(children) \in Nat /\ Cardinality(T) \in Nat /\ Cardinality(Slots) \in Nat
      <4> HIDE DEF T, f
      <4> QED BY <3>1, <3>3, <3>5, FS_CardinalityType
    <3> HIDE DEF T, f
    <3> QED BY <3>3, <3>5, <3>6, FleetAssumption DEF FleetInv, SlotsAreCounted
  <2>2. \A c, d \in Rows : permit[c].status = "complete" /\ permit[d].status = "complete" =>
           (permit[c].slot = permit[d].slot <=> permit[c].child = permit[d].child)
    BY DEF FleetInv, SlotsStand, TasksStand
  <2>3. \A c, d \in Dispatches :
           place[c] = "working" /\ place[d] = "working" /\ works[c] = works[d] => c = d
    BY DEF FleetInv, SlotsStand, TasksStand
  <2> QED BY <2>1, <2>2, <2>3 DEF FleetInv, TasksStand, FleetIsBounded
<1> QED BY <1>1, FleetInvariant, PTL
=============================================================================
