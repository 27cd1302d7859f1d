--------------------------- MODULE CommandsProofs ---------------------------
(***************************************************************************)
(* Theorems about Commands: what is published is never rewritten, the      *)
(* revision current.yaml names is whole and the archive's, a saved         *)
(* checkpoint is backed by staged pages, and a run is made from the        *)
(* revisions its lineage names by the mapping of its command, whatever     *)
(* crashes come between two file-system calls.                             *)
(***************************************************************************)
EXTENDS Commands, InductionLemmas, FiniteSetTheorems

-----------------------------------------------------------------------------
(* The effect of one call.                                                 *)

\* What the calls write: a call is one of these.
IsCall(o) == o.op \in {"create", "put", "rename", "remove", "move", "absent"}

\* Which files the disk has after a call, and what is in them.
LEMMA AppliedFacts ==
    ASSUME NEW d, NEW o
    PROVE  LET e == Applied(d, o)
           IN  /\ o.op \in {"create", "put"} =>
                    /\ DOMAIN e = DOMAIN d \cup {o.path} /\ e[o.path] = o.data
                    /\ \A p \in DOMAIN d : p # o.path => e[p] = d[p]
               /\ o.op = "rename" =>
                    /\ DOMAIN e = (DOMAIN d \ {o.path}) \cup {o.to} /\ e[o.to] = o.data
                    /\ \A p \in DOMAIN d : p # o.path /\ p # o.to => e[p] = d[p]
               /\ o.op = "remove" =>
                    /\ DOMAIN e = DOMAIN d \ {o.path}
                    /\ \A p \in DOMAIN d : p # o.path => e[p] = d[p]
               /\ o.op = "absent" => e = d
<1> DEFINE e == Applied(d, o)
<1>1. ASSUME o.op \in {"create", "put"}
      PROVE  /\ DOMAIN e = DOMAIN d \cup {o.path} /\ e[o.path] = o.data
             /\ \A p \in DOMAIN d : p # o.path => e[p] = d[p]
  <2>1. e = Written(d, o.path, o.data)
    BY <1>1 DEF Applied
  <2> QED BY <2>1 DEF Written
<1>2. ASSUME o.op = "rename"
      PROVE  /\ DOMAIN e = (DOMAIN d \ {o.path}) \cup {o.to} /\ e[o.to] = o.data
             /\ \A p \in DOMAIN d : p # o.path /\ p # o.to => e[p] = d[p]
  <2>1. e = Written(Without(d, {o.path}), o.to, o.data)
    BY <1>2 DEF Applied
  <2> QED BY <2>1 DEF Written, Without
<1>3. ASSUME o.op = "remove"
      PROVE  DOMAIN e = DOMAIN d \ {o.path} /\ \A p \in DOMAIN d : p # o.path => e[p] = d[p]
  <2>1. e = Without(d, {o.path})
    BY <1>3 DEF Applied
  <2> QED BY <2>1 DEF Without
<1>4. ASSUME o.op = "absent" PROVE e = d
  BY <1>4 DEF Applied
<1> HIDE DEF e
<1> QED BY <1>1, <1>2, <1>3, <1>4 DEF e

\* Paths are records of a directory, a name and a number.
IsPath(p) == p = At(p.dir, p.name, p.n)

\* A directory that is not there is filled by a move.
LEMMA MovedFacts ==
    ASSUME NEW d, NEW o, o.op = "move", \A p \in DOMAIN d : IsPath(p),
           o.path.dir # o.to.dir, ~DirExists(d, o.to.dir)
    PROVE  LET e == Applied(d, o)
           IN  /\ \A p \in DOMAIN d : p.dir # o.path.dir => p \in DOMAIN e /\ e[p] = d[p]
               /\ \A p \in DOMAIN e : \/ p \in DOMAIN d /\ p.dir # o.path.dir
                                      \/ p.dir = o.to.dir
               /\ \A name, n : /\ Has(d, At(o.path.dir, name, n)) =>
                                    /\ Has(e, At(o.to.dir, name, n))
                                    /\ e[At(o.to.dir, name, n)] = d[At(o.path.dir, name, n)]
                               /\ Has(e, At(o.to.dir, name, n)) => Has(d, At(o.path.dir, name, n))
               /\ \A p \in DOMAIN e : IsPath(p)
<1> DEFINE from == o.path.dir
           to == o.to.dir
           e == Applied(d, o)
           moved == {p \in DOMAIN d : p.dir = from}
           there == {[p EXCEPT !.dir = to] : p \in moved}
<1>1. e = [p \in (DOMAIN d \ moved) \cup there |->
             IF p \in there THEN d[[p EXCEPT !.dir = from]] ELSE d[p]]
  BY DEF Applied, Moved
<1>2. \A p \in moved : [p EXCEPT !.dir = to] = At(to, p.name, p.n) /\ p = At(from, p.name, p.n)
  BY DEF IsPath, At
<1>3. \A p \in there : p.dir = to /\ IsPath(p) /\ At(from, p.name, p.n) \in moved
                       /\ [p EXCEPT !.dir = from] = At(from, p.name, p.n)
  BY <1>2 DEF IsPath, At
<1>4. \A p \in DOMAIN d : p.dir # to
  BY DEF DirExists
<1>5. ASSUME NEW name, NEW n, At(from, name, n) \in DOMAIN d
      PROVE  At(from, name, n) \in moved /\ At(to, name, n) \in there
  <2> DEFINE x == At(from, name, n)
  <2>1. x.dir = from /\ x.name = name /\ x.n = n
    BY DEF At
  <2>2. x \in DOMAIN d
    BY <1>5
  <2> HIDE DEF x
  <2>3. x \in moved
    BY <2>1, <2>2
  <2>4. [x EXCEPT !.dir = to] = At(to, name, n)
    BY <1>2, <2>1, <2>3
  <2>5. [x EXCEPT !.dir = to] \in there
    BY <2>3
  <2> QED BY <2>3, <2>4, <2>5 DEF x
<1>6. \A name, n : At(to, name, n).dir = to /\ At(to, name, n).name = name /\ At(to, name, n).n = n
  BY DEF At
<1>7. DOMAIN e = (DOMAIN d \ moved) \cup there
  BY <1>1
<1>8. \A p \in there : e[p] = d[At(from, p.name, p.n)]
  BY <1>1, <1>3
<1>9. \A p \in DOMAIN d : p \notin moved => p \notin there /\ e[p] = d[p]
  BY <1>1, <1>3, <1>4
<1> HIDE DEF e, there
<1>10. \A p \in DOMAIN d : p.dir # from => p \in DOMAIN e /\ e[p] = d[p]
  BY <1>7, <1>9
<1>11. \A p \in DOMAIN e : (p \in DOMAIN d /\ p.dir # from) \/ p.dir = to
  BY <1>3, <1>7
<1>12. ASSUME NEW name, NEW n, Has(d, At(from, name, n))
       PROVE  Has(e, At(to, name, n)) /\ e[At(to, name, n)] = d[At(from, name, n)]
  BY <1>5, <1>6, <1>7, <1>8, <1>12 DEF Has
<1>13. ASSUME NEW name, NEW n, Has(e, At(to, name, n)) PROVE Has(d, At(from, name, n))
  <2>1. At(to, name, n) \in there
    BY <1>4, <1>6, <1>7, <1>13 DEF Has
  <2> DEFINE x == At(to, name, n)
  <2>2. x \in there /\ x.name = name /\ x.n = n
    BY <2>1, <1>6
  <2> HIDE DEF x
  <2>3. At(from, x.name, x.n) \in moved
    BY <1>3, <2>2
  <2>4. At(from, name, n) \in DOMAIN d
    BY <2>2, <2>3
  <2> QED BY <2>4 DEF Has
<1>14. \A p \in DOMAIN e : IsPath(p)
  BY <1>3, <1>7
<1> QED BY <1>10, <1>11, <1>12, <1>13, <1>14 DEF e

\* The directories a move publishes and, but for its temporary files, a source
\* root: all this is final once it is there.
Sealed == {"revision", "cache", "output"}
IsFinal(p) == \/ p.dir[1] \in Sealed
              \/ p.dir[1] = "source" /\ p.name \notin {"current.tmp", "partition.tmp"}

\* Nothing final is changed or lost from d to e.
Kept(d, e) == \A p \in DOMAIN d : IsFinal(p) => p \in DOMAIN e /\ e[p] = d[p]

AllPaths(d) == \A p \in DOMAIN d : IsPath(p)

\* A saved checkpoint counts its pages.
Counted(checkpoint) ==
    /\ DOMAIN checkpoint = {"query", "committed", "next", "cursors", "pages", "terminal"}
    /\ checkpoint.committed \in Nat
Counts(o) == /\ o.op = "rename" /\ o.to.name = "checkpoint.json" => Counted(o.data)
             /\ o.op \in {"create", "put"} => o.path.name # "checkpoint.json"
DiskCounts(d) == \A p \in DOMAIN d : p.dir[1] = "staging" /\ p.name = "checkpoint.json" =>
                                      Counted(d[p])

\* A call that touches something final only by a move, or by the rename that
\* makes current.yaml or partition.yaml.
Pointer(o) == o.op = "rename" /\ IsFinal(o.to)
Harmless(o) ==
    /\ IsCall(o) /\ Counts(o)
    /\ o.op \in {"create", "put", "remove", "rename"} => IsPath(o.path) /\ ~IsFinal(o.path)
    /\ o.op = "rename" => IsPath(o.to) /\ o.to.dir[1] \notin Sealed
    /\ o.op = "move" => o.path.dir[1] \notin Sealed \cup {"source"} /\ o.to.dir[1] \in Sealed

\* What the call makes does not exist yet.
Free(d, o) == /\ o.op = "move" => ~DirExists(d, o.to.dir)
              /\ Pointer(o) => ~Has(d, o.to)

\* The files a call may add.
Makes(o, p) == \/ o.op \in {"create", "put"} /\ p = o.path
               \/ o.op = "rename" /\ p = o.to
               \/ o.op = "move" /\ p.dir = o.to.dir

\* A harmless call whose target is free keeps everything final.
LEMMA CallKept ==
    ASSUME NEW d, NEW o, AllPaths(d), Harmless(o), Free(d, o)
    PROVE  LET e == Applied(d, o)
           IN  Kept(d, e) /\ AllPaths(e) /\ \A p \in DOMAIN e : p \in DOMAIN d \/ Makes(o, p)
<1> DEFINE e == Applied(d, o)
<1>1. CASE o.op \in {"create", "put"}
  <2>1. DOMAIN e = DOMAIN d \cup {o.path} /\ \A p \in DOMAIN d : p # o.path => e[p] = d[p]
    BY <1>1, AppliedFacts
  <2>2. IsPath(o.path) /\ ~IsFinal(o.path)
    BY <1>1 DEF Harmless
  <2> HIDE DEF e
  <2>3. Kept(d, e)
    BY <2>1, <2>2 DEF Kept
  <2>4. AllPaths(e) /\ \A p \in DOMAIN e : p \in DOMAIN d \/ Makes(o, p)
    BY <1>1, <2>1, <2>2 DEF AllPaths, Makes
  <2> QED BY <2>3, <2>4 DEF e
<1>2. CASE o.op = "rename"
  <2>1. /\ DOMAIN e = (DOMAIN d \ {o.path}) \cup {o.to}
        /\ \A p \in DOMAIN d : p # o.path /\ p # o.to => e[p] = d[p]
    BY <1>2, AppliedFacts
  <2>2. IsPath(o.path) /\ ~IsFinal(o.path) /\ IsPath(o.to) /\ (IsFinal(o.to) => o.to \notin DOMAIN d)
    BY <1>2 DEF Harmless, Free, Pointer, Has
  <2> HIDE DEF e
  <2>3. Kept(d, e)
    BY <2>1, <2>2 DEF Kept
  <2>4. AllPaths(e) /\ \A p \in DOMAIN e : p \in DOMAIN d \/ Makes(o, p)
    BY <1>2, <2>1, <2>2 DEF AllPaths, Makes
  <2> QED BY <2>3, <2>4 DEF e
<1>3. CASE o.op = "remove"
  <2>1. DOMAIN e = DOMAIN d \ {o.path} /\ \A p \in DOMAIN d : p # o.path => e[p] = d[p]
    BY <1>3, AppliedFacts
  <2>2. ~IsFinal(o.path)
    BY <1>3 DEF Harmless
  <2> HIDE DEF e
  <2> QED BY <2>1, <2>2 DEF Kept, AllPaths, e
<1>4. CASE o.op = "absent"
  <2>1. e = d
    BY <1>4, AppliedFacts
  <2> HIDE DEF e
  <2> QED BY <2>1 DEF Kept, e
<1>5. CASE o.op = "move"
  <2>1. ~DirExists(d, o.to.dir) /\ o.path.dir[1] \notin Sealed \cup {"source"}
        /\ o.to.dir[1] \in Sealed
    BY <1>5 DEF Harmless, Free
  <2>2. o.path.dir # o.to.dir /\ \A p \in DOMAIN d : IsFinal(p) => p.dir # o.path.dir
    BY <2>1 DEF IsFinal
  <2>3. \A p \in DOMAIN d : IsPath(p)
    BY DEF AllPaths
  <2>4. /\ \A p \in DOMAIN d : p.dir # o.path.dir => p \in DOMAIN e /\ e[p] = d[p]
        /\ \A p \in DOMAIN e : (p \in DOMAIN d /\ p.dir # o.path.dir) \/ p.dir = o.to.dir
        /\ \A p \in DOMAIN e : IsPath(p)
    BY <1>5, <2>1, <2>2, <2>3, MovedFacts
  <2> HIDE DEF e
  <2>5. Kept(d, e)
    BY <2>2, <2>4 DEF Kept
  <2>6. AllPaths(e) /\ \A p \in DOMAIN e : p \in DOMAIN d \/ Makes(o, p)
    BY <1>5, <2>4 DEF AllPaths, Makes
  <2> QED BY <2>5, <2>6 DEF e
<1> QED BY <1>1, <1>2, <1>3, <1>4, <1>5 DEF Harmless, IsCall

\* The k-th call, a move, finds its target free: it is now, or an earlier call
\* of the list tests it.
Guarded(d, s, k) ==
    \/ ~DirExists(d, s[k].to.dir)
    \/ \E j \in 1..(k - 1) : s[j].op = "absent" /\ s[j].path.dir = s[k].to.dir

\* The calls left of an operation: each is harmless, one at most is a move and
\* one at most a pointer, and their targets are free when their turn comes.
OpsOK(d, s) ==
    /\ IsSeq(s)
    /\ \A k \in 1..Len(s) : Harmless(s[k])
    /\ \A k \in 1..Len(s) : s[k].op = "move" => Guarded(d, s, k)
    /\ \A j, k \in 1..Len(s) : s[j].op = "move" /\ s[k].op = "move" => j = k
    /\ \A k \in 1..Len(s) : Pointer(s[k]) => ~Has(d, s[k].to)
    /\ \A j, k \in 1..Len(s) : Pointer(s[j]) /\ Pointer(s[k]) => j = k

\* After the first call the rest is in order, and nothing final has changed.
LEMMA CallOK ==
    ASSUME NEW d, NEW s, AllPaths(d), s # <<>>, OpsOK(d, s), ~Refused(d, s[1])
    PROVE  LET e == Applied(d, s[1])
           IN  Kept(d, e) /\ AllPaths(e) /\ OpsOK(e, Tail(s))
<1> DEFINE o == s[1]
           t == Tail(s)
           e == Applied(d, o)
<1>1. /\ Len(s) \in Nat /\ Len(s) >= 1 /\ IsSeq(t) /\ Len(t) = Len(s) - 1
      /\ \A n \in 1..(Len(s) - 1) : t[n] = s[n + 1]
  BY SeqFacts DEF OpsOK
<1>2. 1 \in 1..Len(s) /\ \A n \in 1..Len(t) : n + 1 \in 1..Len(s) /\ t[n] = s[n + 1] /\ n + 1 # 1
  BY <1>1
<1>3. Harmless(o) /\ Free(d, o)
  <2>1. o.op = "move" => ~DirExists(d, o.to.dir)
    BY <1>2 DEF OpsOK, Guarded
  <2> QED BY <1>2, <2>1 DEF OpsOK, Free
<1>4. Kept(d, e) /\ AllPaths(e) /\ \A p \in DOMAIN e : p \in DOMAIN d \/ Makes(o, p)
  BY <1>3, CallKept
<1>5. \A k \in 1..Len(t) : Harmless(t[k])
  BY <1>2 DEF OpsOK
<1>6. \A j, k \in 1..Len(t) : t[j].op = "move" /\ t[k].op = "move" => j = k
  <2> SUFFICES ASSUME NEW j \in 1..Len(t), NEW k \in 1..Len(t), t[j].op = "move", t[k].op = "move"
               PROVE  j = k
    OBVIOUS
  <2>1. j + 1 = k + 1
    BY <1>2 DEF OpsOK
  <2> QED BY <2>1, <1>1
<1>7. \A j, k \in 1..Len(t) : Pointer(t[j]) /\ Pointer(t[k]) => j = k
  <2> SUFFICES ASSUME NEW j \in 1..Len(t), NEW k \in 1..Len(t), Pointer(t[j]), Pointer(t[k])
               PROVE  j = k
    OBVIOUS
  <2>1. j + 1 = k + 1
    BY <1>2 DEF OpsOK
  <2> QED BY <2>1, <1>1
<1>8. ASSUME NEW k \in 1..Len(t), t[k].op = "move" PROVE Guarded(e, t, k)
  <2>1. k + 1 \in 1..Len(s) /\ s[k + 1] = t[k] /\ k + 1 # 1
    BY <1>2
  <2>2. o.op # "move" /\ Guarded(d, s, k + 1) /\ Harmless(t[k])
    BY <1>2, <1>8, <2>1 DEF OpsOK
  <2>3. ASSUME ~DirExists(d, t[k].to.dir) PROVE ~DirExists(e, t[k].to.dir)
    <3>1. t[k].to.dir[1] \in Sealed
      BY <1>8, <2>2 DEF Harmless
    <3>2. \A p : Makes(o, p) => p.dir[1] \notin Sealed
      BY <1>3, <2>2 DEF Harmless, Makes, IsFinal
    <3> HIDE DEF e
    <3> QED BY <1>4, <2>3, <3>1, <3>2 DEF DirExists
  <2>4. CASE ~DirExists(d, s[k + 1].to.dir)
    BY <2>1, <2>3, <2>4 DEF Guarded
  <2>5. ASSUME NEW j \in 1..((k + 1) - 1), s[j].op = "absent", s[j].path.dir = s[k + 1].to.dir
        PROVE  Guarded(e, t, k)
    <3>1. CASE j = 1
      <4>1. ~DirExists(d, t[k].to.dir)
        BY <2>1, <2>5, <3>1 DEF Refused
      <4> QED BY <2>3, <4>1 DEF Guarded
    <3>2. CASE j # 1
      <4>1. j - 1 \in 1..(k - 1) /\ j - 1 \in 1..Len(t) /\ (j - 1) + 1 = j
        BY <1>1, <3>2
      <4>2. t[j - 1] = s[j]
        BY <1>2, <4>1
      <4> QED BY <2>1, <2>5, <4>1, <4>2 DEF Guarded
    <3> QED BY <3>1, <3>2
  <2> QED BY <2>2, <2>4, <2>5 DEF Guarded
<1>9. ASSUME NEW k \in 1..Len(t), Pointer(t[k]) PROVE ~Has(e, t[k].to)
  <2>1. k + 1 \in 1..Len(s) /\ s[k + 1] = t[k] /\ k + 1 # 1
    BY <1>2
  <2>2. ~Pointer(o) /\ ~Has(d, t[k].to) /\ Harmless(t[k])
    BY <1>2, <1>9, <2>1 DEF OpsOK
  <2>3. t[k].op = "rename" /\ IsFinal(t[k].to) /\ t[k].to.dir[1] \notin Sealed
    BY <1>9, <2>2 DEF Pointer, Harmless
  <2>4. ~Makes(o, t[k].to)
    BY <1>3, <2>2, <2>3 DEF Harmless, Makes, Pointer
  <2> HIDE DEF e, t
  <2> QED BY <1>4, <2>2, <2>4 DEF Has
<1>10. OpsOK(e, t)
  <2> HIDE DEF e, t
  <2> QED BY <1>1, <1>5, <1>6, <1>7, <1>8, <1>9 DEF OpsOK
<1> QED BY <1>4, <1>10

-----------------------------------------------------------------------------
(* The operations of the commands are such lists.                          *)

\* Calls that make nothing final.
Quiet(s) == IsSeq(s) /\ \A k \in 1..Len(s) : Harmless(s[k]) /\ s[k].op # "move" /\ ~Pointer(s[k])

\* Quiet lists join.
LEMMA QuietConcat ==
    ASSUME NEW s, NEW t, Quiet(s), Quiet(t)
    PROVE  Quiet(s \o t)
<1>1. /\ IsSeq(s \o t) /\ Len(s \o t) = Len(s) + Len(t)
      /\ \A n \in 1..Len(s) : (s \o t)[n] = s[n]
      /\ \A n \in (Len(s) + 1)..(Len(s) + Len(t)) : (s \o t)[n] = t[n - Len(s)]
  BY ConcatFacts DEF Quiet
<1>2. Len(s) \in Nat /\ Len(t) \in Nat
  BY SeqFacts DEF Quiet
<1> SUFFICES ASSUME NEW k \in 1..Len(s \o t)
             PROVE  Harmless((s \o t)[k]) /\ (s \o t)[k].op # "move" /\ ~Pointer((s \o t)[k])
  BY <1>1 DEF Quiet
<1>3. CASE k <= Len(s)
  <2>1. k \in 1..Len(s)
    BY <1>1, <1>2, <1>3
  <2> QED BY <1>1, <2>1 DEF Quiet
<1>4. CASE k > Len(s)
  <2>1. k \in (Len(s) + 1)..(Len(s) + Len(t)) /\ k - Len(s) \in 1..Len(t)
    BY <1>1, <1>2, <1>4
  <2> QED BY <1>1, <2>1 DEF Quiet
<1> QED BY <1>1, <1>2, <1>3, <1>4

\* Lists join, if one at most has a move and one at most a pointer.
LEMMA JoinOK ==
    ASSUME NEW d, NEW s, NEW t, OpsOK(d, s), OpsOK(d, t),
           \/ \A k \in 1..Len(s) : ~Pointer(s[k])
           \/ \A k \in 1..Len(t) : ~Pointer(t[k]),
           \/ \A k \in 1..Len(s) : s[k].op # "move"
           \/ \A k \in 1..Len(t) : t[k].op # "move"
    PROVE  OpsOK(d, s \o t)
<1> DEFINE u == s \o t
           n == Len(s)
<1>1. /\ IsSeq(u) /\ Len(u) = n + Len(t)
      /\ \A k \in 1..n : u[k] = s[k]
      /\ \A k \in (n + 1)..(n + Len(t)) : u[k] = t[k - n]
  BY ConcatFacts DEF OpsOK
<1>2. n \in Nat /\ Len(t) \in Nat
  BY SeqFacts DEF OpsOK
<1> HIDE DEF u
<1>3. \A k \in 1..Len(u) : \/ k \in 1..n /\ u[k] = s[k]
                           \/ k - n \in 1..Len(t) /\ u[k] = t[k - n]
  <2> HIDE DEF n
  <2> SUFFICES ASSUME NEW k \in 1..Len(u)
               PROVE  \/ k \in 1..n /\ u[k] = s[k]
                      \/ k - n \in 1..Len(t) /\ u[k] = t[k - n]
    OBVIOUS
  <2>1. CASE k <= n
    <3>1. k \in 1..n
      BY <1>1, <1>2, <2>1
    <3> QED BY <1>1, <3>1
  <2>2. CASE k > n
    <3>1. k \in (n + 1)..(n + Len(t)) /\ k - n \in 1..Len(t)
      BY <1>1, <1>2, <2>2
    <3> QED BY <1>1, <3>1
  <2> QED BY <1>1, <1>2, <2>1, <2>2
<1>4. \A k \in 1..Len(u) : Harmless(u[k])
  BY <1>3 DEF OpsOK
<1>5. \A j, k \in 1..Len(u) : j - n = k - n => j = k
  <2> HIDE DEF n
  <2> QED BY <1>1, <1>2
<1>6. \A j, k \in 1..Len(u) : u[j].op = "move" /\ u[k].op = "move" => j = k
  BY <1>3, <1>5 DEF OpsOK
<1>7. \A j, k \in 1..Len(u) : Pointer(u[j]) /\ Pointer(u[k]) => j = k
  BY <1>3, <1>5 DEF OpsOK
<1>8. \A k \in 1..Len(u) : Pointer(u[k]) => ~Has(d, u[k].to)
  BY <1>3 DEF OpsOK
<1>9. ASSUME NEW k \in 1..Len(u), u[k].op = "move" PROVE Guarded(d, u, k)
  <2>1. CASE k \in 1..n /\ u[k] = s[k]
    <3>1. Guarded(d, s, k)
      BY <1>9, <2>1 DEF OpsOK
    <3>2. \A j \in 1..(k - 1) : u[j] = s[j]
      <4> HIDE DEF n
      <4> QED BY <1>1, <1>2, <2>1
    <3> QED BY <2>1, <3>1, <3>2 DEF Guarded
  <2>2. CASE k - n \in 1..Len(t) /\ u[k] = t[k - n]
    <3>1. Guarded(d, t, k - n)
      BY <1>9, <2>2 DEF OpsOK
    <3> HIDE DEF n
    <3>2. ASSUME NEW j \in 1..((k - n) - 1), t[j].op = "absent", t[j].path.dir = t[k - n].to.dir
          PROVE  Guarded(d, u, k)
      <4>1. j + n \in 1..(k - 1) /\ j + n \in (n + 1)..(n + Len(t)) /\ (j + n) - n = j
        BY <1>1, <1>2, <2>2
      <4>2. u[j + n] = t[j]
        BY <1>1, <4>1
      <4> QED BY <2>2, <3>2, <4>1, <4>2 DEF Guarded
    <3> QED BY <2>2, <3>1, <3>2 DEF Guarded
  <2> QED BY <1>3, <2>1, <2>2
<1>10. OpsOK(d, u)
  BY <1>1, <1>4, <1>6, <1>7, <1>8, <1>9 DEF OpsOK
<1> QED BY <1>10 DEF u

\* In particular a quiet list may come before any other.
LEMMA QuietThen ==
    ASSUME NEW d, NEW s, Quiet(s)
    PROVE  OpsOK(d, s) /\ \A t : OpsOK(d, t) => OpsOK(d, s \o t)
<1>1. OpsOK(d, s)
  BY DEF Quiet, OpsOK
<1>2. ASSUME NEW t, OpsOK(d, t) PROVE OpsOK(d, s \o t)
  BY <1>1, <1>2, JoinOK DEF Quiet
<1> QED BY <1>1, <1>2

\* Where temporary and staged files live: nothing there is final.
Scratch(dir) == dir[1] \in {"staging", "build", "outstaging"}

\* A call on scratch files is quiet, whatever it is.
LEMMA QuietCalls ==
    /\ \A p : IsPath(p) /\ ~IsFinal(p) /\ p.name # "checkpoint.json" => Quiet(<<Create(p)>>)
    /\ \A p, data : IsPath(p) /\ ~IsFinal(p) /\ p.name # "checkpoint.json" => Quiet(<<Put(p, data)>>)
    /\ \A p : IsPath(p) /\ ~IsFinal(p) => Quiet(<<Unlink(p)>>)
    /\ \A p, to, data : IsPath(p) /\ ~IsFinal(p) /\ IsPath(to) /\ ~IsFinal(to)
                        /\ (to.name = "checkpoint.json" => Counted(data))
                        => Quiet(<<Rename(p, to, data)>>)
    /\ \A dir, error : Quiet(<<Absent(dir, error)>>)
<1> DEFINE One(o) == IsSeq(<<o>>) /\ Len(<<o>>) = 1 /\ <<o>>[1] = o
<1>1. \A o : One(o)
  BY TupleFacts
<1>2. ASSUME NEW o, Harmless(o), o.op # "move", ~Pointer(o) PROVE Quiet(<<o>>)
  <2>1. One(o)
    BY <1>1
  <2>2. \A k \in 1..Len(<<o>>) : <<o>>[k] = o
    BY <2>1
  <2> QED BY <1>2, <2>1, <2>2 DEF Quiet
<1>3. ASSUME NEW p, IsPath(p), ~IsFinal(p), p.name # "checkpoint.json" PROVE Quiet(<<Create(p)>>)
  <2> DEFINE o == Create(p)
  <2>1. o.op = "create" /\ o.path = p
    BY DEF Create, Call
  <2> HIDE DEF o
  <2>2. Harmless(o) /\ o.op # "move" /\ ~Pointer(o)
    BY <1>3, <2>1 DEF Harmless, IsCall, Counts, Pointer
  <2> QED BY <1>2, <2>2 DEF o
<1>4. ASSUME NEW p, NEW data, IsPath(p), ~IsFinal(p), p.name # "checkpoint.json"
      PROVE  Quiet(<<Put(p, data)>>)
  <2> DEFINE o == Put(p, data)
  <2>1. o.op = "put" /\ o.path = p
    BY DEF Put, Call
  <2> HIDE DEF o
  <2>2. Harmless(o) /\ o.op # "move" /\ ~Pointer(o)
    BY <1>4, <2>1 DEF Harmless, IsCall, Counts, Pointer
  <2> QED BY <1>2, <2>2 DEF o
<1>5. ASSUME NEW p, IsPath(p), ~IsFinal(p) PROVE Quiet(<<Unlink(p)>>)
  <2> DEFINE o == Unlink(p)
  <2>1. o.op = "remove" /\ o.path = p
    BY DEF Unlink, Call
  <2> HIDE DEF o
  <2>2. Harmless(o) /\ o.op # "move" /\ ~Pointer(o)
    BY <1>5, <2>1 DEF Harmless, IsCall, Counts, Pointer
  <2> QED BY <1>2, <2>2 DEF o
<1>6. ASSUME NEW p, NEW to, NEW data, IsPath(p), ~IsFinal(p), IsPath(to), ~IsFinal(to),
             to.name = "checkpoint.json" => Counted(data)
      PROVE  Quiet(<<Rename(p, to, data)>>)
  <2> DEFINE o == Rename(p, to, data)
  <2>1. o.op = "rename" /\ o.path = p /\ o.to = to /\ o.data = data
    BY DEF Rename, Call
  <2> HIDE DEF o
  <2>2. o.op # "move" /\ ~Pointer(o) /\ Counts(o) /\ IsCall(o)
    BY <1>6, <2>1 DEF IsCall, Counts, Pointer
  <2>3. o.to.dir[1] \notin Sealed
    BY <1>6, <2>1 DEF IsFinal
  <2>4. Harmless(o)
    BY <1>6, <2>1, <2>2, <2>3 DEF Harmless
  <2> QED BY <1>2, <2>2, <2>4 DEF o
<1>7. ASSUME NEW dir, NEW error PROVE Quiet(<<Absent(dir, error)>>)
  <2> DEFINE o == Absent(dir, error)
  <2>1. o.op = "absent"
    BY DEF Absent, Call
  <2> HIDE DEF o
  <2>2. Harmless(o) /\ o.op # "move" /\ ~Pointer(o)
    BY <2>1 DEF Harmless, IsCall, Counts, Pointer
  <2> QED BY <1>2, <2>2 DEF o
<1> QED BY <1>3, <1>4, <1>5, <1>6, <1>7

\* Two quiet calls, one after the other.
LEMMA QuietPair ==
    ASSUME NEW a, NEW b, Quiet(<<a>>), Quiet(<<b>>)
    PROVE  Quiet(<<a, b>>)
<1>1. Harmless(a) /\ a.op # "move" /\ ~Pointer(a) /\ Harmless(b) /\ b.op # "move" /\ ~Pointer(b)
  BY TupleFacts DEF Quiet
<1>2. IsSeq(<<a, b>>) /\ \A k \in 1..Len(<<a, b>>) : <<a, b>>[k] = a \/ <<a, b>>[k] = b
  BY TupleFacts
<1> QED BY <1>1, <1>2 DEF Quiet

\* A file of a scratch directory is written quietly.
LEMMA QuietWrite ==
    ASSUME NEW dir, NEW name, NEW tmp, NEW n, NEW data, Scratch(dir), tmp # "checkpoint.json",
           name = "checkpoint.json" => Counted(data)
    PROVE  Quiet(WriteAtomic(At(dir, name, n), At(dir, tmp, n), data))
<1> DEFINE p == At(dir, name, n)
           q == At(dir, tmp, n)
<1>1. /\ IsPath(p) /\ p.dir = dir /\ p.name = name
      /\ IsPath(q) /\ q.dir = dir /\ q.name = tmp
  BY DEF IsPath, At
<1> HIDE DEF p, q
<1>2. ~IsFinal(p) /\ ~IsFinal(q)
  BY <1>1 DEF IsFinal, Scratch, Sealed
<1>3. Quiet(<<Create(q)>>)
  BY <1>1, <1>2, QuietCalls
<1>4. Quiet(<<Rename(q, p, data)>>)
  BY <1>1, <1>2, QuietCalls
<1> QED BY <1>3, <1>4, QuietPair DEF WriteAtomic, p, q

\* So is making a scratch directory.
LEMMA QuietMake ==
    ASSUME NEW dir, Scratch(dir)
    PROVE  Quiet(<<MakeDir(dir)>>)
<1> DEFINE p == DirMark(dir)
<1>1. IsPath(p) /\ p.name # "checkpoint.json" /\ p.dir = dir
  BY DEF DirMark, File, At, IsPath
<1>2. MakeDir(dir) = Put(p, "dir")
  BY DEF MakeDir, Put
<1> HIDE DEF p
<1>3. ~IsFinal(p)
  BY <1>1 DEF IsFinal, Scratch, Sealed
<1> QED BY <1>1, <1>2, <1>3, QuietCalls

\* A list that ends in a move into a directory one of its calls tests.
LEMMA GuardedMove ==
    ASSUME NEW d, NEW s, IsSeq(s), Len(s) >= 1,
           \A k \in 1..(Len(s) - 1) : Harmless(s[k]) /\ s[k].op # "move" /\ ~Pointer(s[k]),
           Harmless(s[Len(s)]), s[Len(s)].op = "move",
           \E j \in 1..(Len(s) - 1) : s[j].op = "absent" /\ s[j].path.dir = s[Len(s)].to.dir
    PROVE  OpsOK(d, s) /\ \A k \in 1..Len(s) : ~Pointer(s[k])
<1> DEFINE n == Len(s)
<1>1. n \in Nat /\ n >= 1 /\ n \in 1..n
  BY SeqFacts
<1> HIDE DEF n
<1>2. \A k \in 1..n : k = n \/ k \in 1..(n - 1)
  BY <1>1
<1>3. \A k \in 1..n : Harmless(s[k]) /\ ~Pointer(s[k]) /\ (s[k].op = "move" => k = n)
  BY <1>2 DEF n, Pointer
<1>4. Guarded(d, s, n)
  BY DEF Guarded, n
<1> QED BY <1>3, <1>4 DEF OpsOK, n

\* The move of a tested directory, alone.
LEMMA MovePair ==
    ASSUME NEW d, NEW from, NEW to, NEW error, Scratch(from), to[1] \in Sealed
    PROVE  /\ OpsOK(d, <<Absent(to, error), MoveDir(from, to)>>)
           /\ \A k \in 1..2 : ~Pointer(<<Absent(to, error), MoveDir(from, to)>>[k])
<1> DEFINE a == Absent(to, error)
           m == MoveDir(from, to)
           s == <<a, m>>
<1>1. a.op = "absent" /\ a.path.dir = to
  BY DEF Absent, Call, DirMark, File, At
<1>2. m.op = "move" /\ m.path.dir = from /\ m.to.dir = to
  BY DEF MoveDir, Call, DirMark, File, At
<1> HIDE DEF a, m
<1>3. Harmless(a) /\ ~Pointer(a) /\ Harmless(m) /\ ~Pointer(m)
  BY <1>1, <1>2 DEF Harmless, IsCall, Counts, Pointer, Scratch, Sealed
<1>4. IsSeq(s) /\ Len(s) = 2 /\ s[1] = a /\ s[2] = m
  BY TupleFacts
<1> HIDE DEF s
<1>5. \A k \in 1..(Len(s) - 1) : k = 1
  BY <1>4
<1>6. 1 \in 1..(Len(s) - 1) /\ Len(s) >= 1
  BY <1>4
<1>7. \E j \in 1..(Len(s) - 1) : s[j].op = "absent" /\ s[j].path.dir = s[Len(s)].to.dir
  BY <1>1, <1>2, <1>4, <1>6
<1>8. OpsOK(d, s) /\ \A k \in 1..Len(s) : ~Pointer(s[k])
  BY <1>1, <1>2, <1>3, <1>4, <1>5, <1>6, <1>7, GuardedMove
<1> QED BY <1>4, <1>8 DEF s, a, m

\* The pointers a list makes.
Pointers(s) == {s[k].to : k \in {k \in 1..Len(s) : Pointer(s[k])}}

\* A quiet list makes none.
LEMMA QuietPointers ==
    ASSUME NEW s, Quiet(s)
    PROVE  Pointers(s) = {}
BY DEF Quiet, Pointers

\* Joined lists make the pointers of both.
LEMMA JoinPointers ==
    ASSUME NEW s, NEW t, IsSeq(s), IsSeq(t)
    PROVE  Pointers(s \o t) \subseteq Pointers(s) \cup Pointers(t)
<1> DEFINE u == s \o t
           n == Len(s)
<1>1. /\ IsSeq(u) /\ Len(u) = n + Len(t)
      /\ \A k \in 1..n : u[k] = s[k]
      /\ \A k \in (n + 1)..(n + Len(t)) : u[k] = t[k - n]
  BY ConcatFacts
<1>2. n \in Nat /\ Len(t) \in Nat
  BY SeqFacts
<1> HIDE DEF u, n
<1> SUFFICES ASSUME NEW k \in 1..Len(u), Pointer(u[k])
             PROVE  u[k].to \in Pointers(s) \cup Pointers(t)
  BY DEF Pointers, u
<1>3. CASE k <= n
  <2>1. k \in 1..n
    BY <1>1, <1>2, <1>3
  <2>2. u[k] = s[k]
    BY <1>1, <2>1
  <2> QED BY <2>1, <2>2 DEF Pointers, n
<1>4. CASE k > n
  <2>1. k \in (n + 1)..(n + Len(t)) /\ k - n \in 1..Len(t)
    BY <1>1, <1>2, <1>4
  <2>2. u[k] = t[k - n]
    BY <1>1, <2>1
  <2> QED BY <2>1, <2>2 DEF Pointers
<1> QED BY <1>1, <1>2, <1>3, <1>4

\* A quiet call and a rename point at most to the rename's target.
LEMMA PointerOfPair ==
    ASSUME NEW a, NEW tmp, NEW to, NEW data, Quiet(<<a>>)
    PROVE  Pointers(<<a, Rename(tmp, to, data)>>) \subseteq {to}
<1> DEFINE r == Rename(tmp, to, data)
           s == <<a, r>>
<1>1. r.to = to
  BY DEF Rename, Call
<1>2. Len(s) = 2 /\ s[1] = a /\ s[2] = r
  BY TupleFacts
<1>3. ~Pointer(a)
  BY TupleFacts DEF Quiet
<1> HIDE DEF r, s
<1>4. \A k \in 1..Len(s) : k = 1 \/ k = 2
  BY <1>2
<1>5. \A k \in 1..Len(s) : Pointer(s[k]) => s[k].to = to
  BY <1>1, <1>2, <1>3, <1>4
<1>6. Pointers(s) \subseteq {to}
  BY <1>5 DEF Pointers
<1> QED BY <1>6 DEF r, s

\* A pointer to a file that is not there, after its temporary file.
LEMMA PointerPair ==
    ASSUME NEW d, NEW a, NEW tmp, NEW to, NEW data, Quiet(<<a>>),
           IsPath(tmp), ~IsFinal(tmp), IsPath(to), to.dir[1] = "source",
           to.name # "checkpoint.json", ~Has(d, to)
    PROVE  /\ OpsOK(d, <<a, Rename(tmp, to, data)>>)
           /\ \A k \in 1..2 : <<a, Rename(tmp, to, data)>>[k].op # "move"
<1> DEFINE r == Rename(tmp, to, data)
           s == <<a, r>>
<1>1. r.op = "rename" /\ r.path = tmp /\ r.to = to
  BY DEF Rename, Call
<1>2. IsSeq(s) /\ Len(s) = 2 /\ s[1] = a /\ s[2] = r
  BY TupleFacts
<1> HIDE DEF r, s
<1>3. Harmless(r) /\ r.op # "move"
  BY <1>1 DEF Harmless, IsCall, Counts, Sealed
<1>4. Harmless(a) /\ a.op # "move" /\ ~Pointer(a)
  BY TupleFacts DEF Quiet
<1>5. \A k \in 1..Len(s) : k = 1 \/ k = 2
  BY <1>2
<1>6. \A k \in 1..Len(s) : s[k].op # "move" /\ Harmless(s[k]) /\ (Pointer(s[k]) => k = 2)
  BY <1>2, <1>3, <1>4, <1>5
<1>7. OpsOK(d, s)
  BY <1>1, <1>2, <1>6 DEF OpsOK
<1> QED BY <1>2, <1>6, <1>7 DEF r, s

\* create_for_partition
LEMMA CreateOK ==
    ASSUME NEW d, NEW key
    PROVE  OpsOK(d, CreateOps(d, key)) /\ Pointers(CreateOps(d, key)) \subseteq {PartitionFile(key)}
<1> DEFINE mark == <<MakeDir(Attempt(key))>>
           tmp == File(SourceRoot(key), "partition.tmp")
           to == PartitionFile(key)
<1>1. Quiet(mark)
  BY QuietMake DEF Scratch, Attempt
<1>2. /\ IsPath(tmp) /\ tmp.dir[1] = "source" /\ tmp.name = "partition.tmp"
      /\ IsPath(to) /\ to.dir[1] = "source" /\ to.name = "partition.yaml"
  BY DEF IsPath, PartitionFile, File, At, SourceRoot
<1> HIDE DEF mark, tmp, to
<1>3. CASE Has(d, PartitionFile(key))
  <2>1. CreateOps(d, key) = <<>> \o mark
    BY <1>3 DEF CreateOps, LayoutOps, mark
  <2>2. Quiet(<<>>)
    BY TupleFacts DEF Quiet
  <2>3. OpsOK(d, <<>> \o mark)
    BY <1>1, <2>2, QuietThen
  <2>4. Pointers(<<>> \o mark) \subseteq {}
    BY <1>1, <2>2, JoinPointers, QuietPointers DEF Quiet
  <2> QED BY <2>1, <2>3, <2>4
<1>4. CASE ~Has(d, PartitionFile(key))
  <2> DEFINE s == <<Put(tmp, "tmp"), Rename(tmp, to, key)>>
  <2>1. CreateOps(d, key) = s \o mark
    BY <1>4 DEF CreateOps, LayoutOps, mark, tmp, to
  <2>2. ~IsFinal(tmp) /\ tmp.name # "checkpoint.json"
    BY <1>2 DEF IsFinal, Sealed
  <2>3. Quiet(<<Put(tmp, "tmp")>>)
    BY <1>2, <2>2, QuietCalls
  <2>4. OpsOK(d, s) /\ \A k \in 1..2 : s[k].op # "move"
    BY <1>2, <1>4, <2>2, <2>3, PointerPair DEF to
  <2>5. Len(s) = 2
    BY TupleFacts
  <2>6. OpsOK(d, mark) /\ \A k \in 1..Len(mark) : ~Pointer(mark[k])
    BY <1>1, QuietThen DEF Quiet
  <2>7. Pointers(s) \subseteq {to}
    BY <2>3, PointerOfPair
  <2> HIDE DEF s
  <2>8. OpsOK(d, s \o mark)
    BY <2>4, <2>5, <2>6, JoinOK
  <2>9. Pointers(s \o mark) \subseteq {to}
    BY <1>1, <2>4, <2>7, JoinPointers, QuietPointers DEF Quiet, OpsOK
  <2> QED BY <2>1, <2>8, <2>9 DEF to
<1> QED BY <1>3, <1>4

\* stage_page and the checkpoint after it
LEMMA SaveQuiet ==
    ASSUME NEW key, NEW n, NEW page, NEW saved, Counted(saved)
    PROVE  Quiet(SavePage(key, n, page, saved))
<1> DEFINE dir == Attempt(key)
           object == WriteAtomic(PageObject(dir, n), At(dir, "page.zst.tmp", n), page)
           meta == WriteAtomic(PageMeta(dir, n), At(dir, "page.tmp", n), page)
           mark == SaveCheckpoint(dir, saved)
<1>1. Scratch(dir)
  BY DEF Scratch, Attempt
<1> HIDE DEF dir
<1>2. Quiet(object)
  BY <1>1, QuietWrite DEF PageObject
<1>3. Quiet(meta)
  BY <1>1, QuietWrite DEF PageMeta
<1>4. Quiet(mark)
  BY <1>1, QuietWrite DEF SaveCheckpoint, Checkpoint, File
<1>5. Quiet(<<>>)
  BY TupleFacts DEF Quiet
<1> DEFINE staged == StagePageOps(disk, dir, n, page)
<1> HIDE DEF mark
<1>6. Quiet(staged)
  BY <1>2, <1>3, <1>5, QuietConcat DEF StagePageOps
<1> HIDE DEF staged
<1>7. Quiet(staged \o mark)
  BY <1>4, <1>6, QuietConcat
<1> QED BY <1>7 DEF SavePage, staged, mark, dir

\* A call for each number.
LEMMA QuietEach ==
    ASSUME NEW n \in Nat, NEW f, \A i \in 1..n : Quiet(<<f[i]>>)
    PROVE  Quiet([i \in 1..n |-> f[i]])
<1> DEFINE s == [i \in 1..n |-> f[i]]
<1>1. \A i \in 1..n : Harmless(f[i]) /\ f[i].op # "move" /\ ~Pointer(f[i])
  <2>1. ASSUME NEW a, Quiet(<<a>>) PROVE Harmless(a) /\ a.op # "move" /\ ~Pointer(a)
    BY <2>1, TupleFacts DEF Quiet
  <2> QED BY <2>1
<1>2. s \in Seq({f[i] : i \in 1..n}) /\ Len(s) = n
  OBVIOUS
<1>3. \A k \in 1..n : s[k] = f[k]
  OBVIOUS
<1> HIDE DEF s
<1>4. Quiet(s)
  BY <1>1, <1>2, <1>3 DEF Quiet, IsSeq
<1> QED BY <1>4 DEF s

\* publish, to the manifest
LEMMA SealQuiet ==
    ASSUME NEW key, NEW revision, Len(revision.pages) \in Nat
    PROVE  Quiet(SealOps(key, revision))
<1> DEFINE dir == Attempt(key)
           n == Len(revision.pages)
           f == [i \in 1..n |-> Unlink(PageMeta(dir, i - 1))]
           first == <<Unlink(Checkpoint(dir)), Unlink(File(dir, "daily.yaml"))>>
           manifest == WriteAtomic(File(dir, "manifest.yaml"), File(dir, "manifest.tmp"), revision)
<1>1. Scratch(dir)
  BY DEF Scratch, Attempt
<1> HIDE DEF dir
<1>2. \A name, k : IsPath(At(dir, name, k)) /\ At(dir, name, k).dir = dir
  BY DEF IsPath, At
<1>3. \A name, k : ~IsFinal(At(dir, name, k))
  BY <1>1, <1>2 DEF IsFinal, Scratch, Sealed
<1>4. \A name, k : Quiet(<<Unlink(At(dir, name, k))>>)
  BY <1>2, <1>3, QuietCalls
<1>5. Quiet(first)
  BY <1>4, QuietPair DEF Checkpoint, File
<1>6. Quiet(f)
  <2>1. \A i \in 1..n : f[i] = Unlink(At(dir, "page.yaml", i - 1))
    BY DEF PageMeta
  <2>2. \A i \in 1..n : Quiet(<<f[i]>>)
    BY <1>4, <2>1
  <2>3. f = [i \in 1..n |-> f[i]]
    OBVIOUS
  <2> HIDE DEF f, n
  <2>4. n \in Nat
    BY DEF n
  <2> QED BY <2>2, <2>3, <2>4, QuietEach
<1>7. Quiet(manifest)
  BY <1>1, QuietWrite DEF File
<1>8. SealOps(key, revision) = first \o f \o manifest
  BY DEF SealOps, dir
<1> HIDE DEF first, f, manifest
<1>9. Quiet(first \o f)
  BY <1>5, <1>6, QuietConcat
<1> QED BY <1>7, <1>8, <1>9, QuietConcat

\* the daily instrument and publish
LEMMA PublishOK ==
    ASSUME NEW d, NEW key, NEW daily, NEW revision, Len(revision.pages) \in Nat,
           ~Has(d, Current(key))
    PROVE  LET s == StageDailyOps(Attempt(key), daily) \o PublishOps(key, revision)
           IN  OpsOK(d, s) /\ Pointers(s) \subseteq {Current(key)}
<1> DEFINE dir == Attempt(key)
           tmp == File(SourceRoot(key), "current.tmp")
           to == Current(key)
           stage == StageDailyOps(dir, daily)
           seal == SealOps(key, revision)
           move == MoveOps(key, revision)
           point == PointOps(key, revision)
<1>1. Scratch(dir)
  BY DEF Scratch, Attempt
<1>2. Quiet(stage)
  <2> HIDE DEF dir
  <2>1. Quiet(WriteAtomic(File(dir, "daily.zst"), File(dir, "daily.zst.tmp"), daily))
    BY <1>1, QuietWrite DEF File
  <2>2. Quiet(WriteAtomic(File(dir, "daily.yaml"), File(dir, "daily.tmp"), daily))
    BY <1>1, QuietWrite DEF File
  <2> QED BY <2>1, <2>2, QuietConcat DEF StageDailyOps
<1>3. Quiet(seal)
  BY SealQuiet
<1>4. /\ OpsOK(d, move) /\ Len(move) = 2 /\ \A k \in 1..2 : ~Pointer(move[k])
  <2>1. RevisionDir(key, revision)[1] \in Sealed
    BY DEF RevisionDir, Sealed
  <2>2. Len(move) = 2
    BY TupleFacts DEF MoveOps
  <2> QED BY <1>1, <2>1, <2>2, MovePair DEF MoveOps
<1>5. /\ OpsOK(d, point) /\ Len(point) = 2 /\ (\A k \in 1..2 : point[k].op # "move")
      /\ Pointers(point) \subseteq {to}
  <2>1. /\ IsPath(tmp) /\ tmp.dir[1] = "source" /\ tmp.name = "current.tmp"
        /\ IsPath(to) /\ to.dir[1] = "source" /\ to.name = "current.yaml"
    BY DEF IsPath, Current, File, At, SourceRoot
  <2>2. point = <<Create(tmp), Rename(tmp, to, revision)>>
    BY DEF PointOps, WriteAtomic
  <2> HIDE DEF tmp, to, point
  <2>3. ~IsFinal(tmp) /\ tmp.name # "checkpoint.json"
    BY <2>1 DEF IsFinal, Sealed
  <2>4. Quiet(<<Create(tmp)>>)
    BY <2>1, <2>3, QuietCalls
  <2>5. Pointers(point) \subseteq {to}
    BY <2>2, <2>4, PointerOfPair
  <2>6. ~Has(d, to) /\ to.name # "checkpoint.json"
    BY <2>1 DEF to
  <2>7. OpsOK(d, point) /\ \A k \in 1..2 : point[k].op # "move"
    BY <2>1, <2>2, <2>3, <2>4, <2>6, PointerPair
  <2>8. Len(point) = 2
    BY <2>2, TupleFacts
  <2> QED BY <2>5, <2>7, <2>8
<1>6. StageDailyOps(Attempt(key), daily) \o PublishOps(key, revision)
        = stage \o (seal \o (move \o point))
  BY DEF PublishOps
<1> HIDE DEF dir, tmp, to, stage, seal, move, point
<1>7. OpsOK(d, move \o point)
  BY <1>4, <1>5, JoinOK
<1>8. Pointers(move \o point) \subseteq {to}
  <2>1. Pointers(move) = {}
    BY <1>4 DEF Pointers
  <2> QED BY <1>4, <1>5, <2>1, JoinPointers DEF OpsOK
<1>9. OpsOK(d, seal \o (move \o point))
  BY <1>3, <1>7, QuietThen
<1>10. Pointers(seal \o (move \o point)) \subseteq {to}
  BY <1>3, <1>7, <1>8, JoinPointers, QuietPointers DEF OpsOK, Quiet
<1>11. OpsOK(d, stage \o (seal \o (move \o point)))
  BY <1>2, <1>9, QuietThen
<1>12. Pointers(stage \o (seal \o (move \o point))) \subseteq {to}
  BY <1>2, <1>9, <1>10, JoinPointers, QuietPointers DEF OpsOK, Quiet
<1> QED BY <1>6, <1>11, <1>12 DEF to

\* publish_events
LEMMA CacheOK ==
    ASSUME NEW d, NEW key, NEW descriptor
    PROVE  OpsOK(d, CacheOps(key, descriptor)) /\ Pointers(CacheOps(key, descriptor)) = {}
<1> DEFINE dir == CacheBuild(key)
           place == CacheDir(key, CacheIdentity(descriptor))
           begin == <<Absent(dir, "BuildAlreadyExists"), MakeDir(dir)>>
           events == WriteAtomic(File(dir, "events.bin"), File(dir, "events.bin.tmp"),
                                 descriptor.events)
           describe == WriteAtomic(File(dir, "descriptor.yaml"), File(dir, "descriptor.tmp"),
                                   descriptor)
           move == <<Absent(place, "CacheAlreadyExists"), MoveDir(dir, place)>>
<1>1. Scratch(dir) /\ place[1] \in Sealed
  BY DEF Scratch, Sealed, CacheBuild, CacheDir
<1>2. CacheOps(key, descriptor) = begin \o events \o describe \o move
  BY DEF CacheOps
<1> HIDE DEF dir, place
<1>3. Quiet(begin)
  BY <1>1, QuietMake, QuietCalls, QuietPair
<1>4. Quiet(events)
  BY <1>1, QuietWrite DEF File
<1>5. Quiet(describe)
  BY <1>1, QuietWrite DEF File
<1>6. OpsOK(d, move) /\ Len(move) = 2 /\ \A k \in 1..2 : ~Pointer(move[k])
  <2>1. Len(move) = 2
    BY TupleFacts
  <2> QED BY <1>1, <2>1, MovePair
<1> HIDE DEF begin, events, describe, move
<1>7. Quiet(begin \o events \o describe)
  BY <1>3, <1>4, <1>5, QuietConcat
<1>8. Pointers(move) = {}
  BY <1>6 DEF Pointers
<1>9. OpsOK(d, begin \o events \o describe \o move)
  BY <1>6, <1>7, QuietThen
<1>10. Pointers(begin \o events \o describe \o move) = {}
  BY <1>6, <1>7, <1>8, JoinPointers, QuietPointers DEF OpsOK, Quiet
<1> QED BY <1>2, <1>9, <1>10

\* publish_artifacts
LEMMA ArtifactsOK ==
    ASSUME NEW d, NEW o, NEW files
    PROVE  LET s == PublishArtifacts(o, files)
           IN  OpsOK(d, s) /\ Pointers(s) = {}
<1> DEFINE dir == OutputStaging(o)
           out == OutputDir(o)
           test == Absent(out, "OutputExists")
           begin == <<test, Absent(dir, "OutputExists"), MakeDir(dir)>>
           f == [i \in 1..Len(ArtifactFiles) |->
                   Put(File(dir, ArtifactFiles[i]), files[ArtifactFiles[i]])]
           m == MoveDir(dir, out)
<1>1. Scratch(dir) /\ out[1] \in Sealed
  BY DEF Scratch, Sealed, OutputStaging, OutputDir
<1>2. PublishArtifacts(o, files) = begin \o f \o <<m>>
  BY DEF PublishArtifacts
<1> HIDE DEF dir, out
<1>3. Quiet(<<test>>) /\ Quiet(<<Absent(dir, "OutputExists")>>) /\ Quiet(<<MakeDir(dir)>>)
  BY <1>1, QuietMake, QuietCalls
<1>4. Quiet(begin) /\ Len(begin) = 3 /\ begin[1] = test
  <2>1. ASSUME NEW a, NEW b, NEW c PROVE IsSeq(<<a, b, c>>) /\ Len(<<a, b, c>>) = 3
                                         /\ <<a, b, c>>[1] = a
                                         /\ \A k \in 1..3 : <<a, b, c>>[k] \in {a, b, c}
    <3>1. <<a, b, c>> \in Seq({a, b, c})
      OBVIOUS
    <3>2. Len(<<a, b, c>>) = 3 /\ <<a, b, c>>[1] = a
          /\ \A k \in 1..3 : <<a, b, c>>[k] \in {a, b, c}
      OBVIOUS
    <3> QED BY <3>1, <3>2 DEF IsSeq
  <2>2. ASSUME NEW a, Quiet(<<a>>) PROVE Harmless(a) /\ a.op # "move" /\ ~Pointer(a)
    BY <2>2, TupleFacts DEF Quiet
  <2>3. \A a \in {test, Absent(dir, "OutputExists"), MakeDir(dir)} :
          Harmless(a) /\ a.op # "move" /\ ~Pointer(a)
    BY <1>3, <2>2
  <2> HIDE DEF test
  <2>4. IsSeq(begin) /\ Len(begin) = 3 /\ begin[1] = test
    BY <2>1, Zenon
  <2>5. \A k \in 1..3 : begin[k] \in {test, Absent(dir, "OutputExists"), MakeDir(dir)}
    BY <2>1
  <2> HIDE DEF begin
  <2> QED BY <2>3, <2>4, <2>5 DEF Quiet
<1>5. Quiet(f) /\ Len(f) = 3
  <2>1. /\ Len(ArtifactFiles) = 3
        /\ \A i \in 1..3 : ArtifactFiles[i] \in {"ledger.bin", "run-manifest.yaml", "strategy.json"}
    BY DEF ArtifactFiles
  <2>2. ASSUME NEW name, NEW data, name # "checkpoint.json"
        PROVE  Quiet(<<Put(File(dir, name), data)>>)
    <3> DEFINE p == File(dir, name)
    <3>1. IsPath(p) /\ p.dir = dir /\ p.name = name
      BY DEF IsPath, File, At
    <3> HIDE DEF p
    <3>2. ~IsFinal(p)
      BY <1>1, <3>1 DEF IsFinal, Scratch, Sealed
    <3> QED BY <2>2, <3>1, <3>2, QuietCalls DEF p
  <2>3. \A i \in 1..3 : f[i] = Put(File(dir, ArtifactFiles[i]), files[ArtifactFiles[i]])
    BY <2>1
  <2>4. \A i \in 1..3 : Quiet(<<f[i]>>)
    <3> HIDE DEF f
    <3> QED BY <2>1, <2>2, <2>3
  <2>5. f = [i \in 1..3 |-> f[i]] /\ Len(f) = 3
    BY <2>1
  <2> HIDE DEF f
  <2> QED BY <2>4, <2>5, QuietEach
<1>6. test.op = "absent" /\ test.path.dir = out /\ m.op = "move" /\ m.path.dir = dir /\ m.to.dir = out
  BY DEF Absent, MoveDir, Call, DirMark, File, At
<1> HIDE DEF test, begin, f, m
<1> DEFINE q == begin \o f
           s == q \o <<m>>
<1>7. Quiet(q) /\ Len(q) = 6 /\ q[1] = test
  <2>1. Quiet(q)
    BY <1>4, <1>5, QuietConcat
  <2>2. Len(q) = Len(begin) + Len(f) /\ \A n \in 1..Len(begin) : q[n] = begin[n]
    BY <1>4, <1>5, ConcatFacts DEF Quiet
  <2> QED BY <1>4, <1>5, <2>1, <2>2
<1> HIDE DEF q
<1>8. /\ IsSeq(s) /\ Len(s) = 7 /\ (\A n \in 1..6 : s[n] = q[n]) /\ s[7] = m
  <2>1. IsSeq(<<m>>) /\ Len(<<m>>) = 1 /\ <<m>>[1] = m
    BY TupleFacts
  <2>2. /\ IsSeq(s) /\ Len(s) = Len(q) + Len(<<m>>)
        /\ \A n \in 1..Len(q) : s[n] = q[n]
        /\ \A n \in (Len(q) + 1)..(Len(q) + Len(<<m>>)) : s[n] = <<m>>[n - Len(q)]
    BY <1>7, <2>1, ConcatFacts DEF Quiet
  <2>3. s[7] = <<m>>[7 - 6]
    BY <1>7, <2>1, <2>2
  <2> HIDE DEF s
  <2> QED BY <1>7, <2>1, <2>2, <2>3
<1>9. Harmless(m)
  BY <1>1, <1>6 DEF Harmless, IsCall, Counts, Scratch, Sealed
<1> HIDE DEF s
<1>10. \A k \in 1..(Len(s) - 1) : Harmless(s[k]) /\ s[k].op # "move" /\ ~Pointer(s[k])
  <2>1. \A k \in 1..(Len(s) - 1) : k \in 1..6
    BY <1>8
  <2> QED BY <1>7, <1>8, <2>1 DEF Quiet
<1>11. \E j \in 1..(Len(s) - 1) : s[j].op = "absent" /\ s[j].path.dir = s[Len(s)].to.dir
  <2>1. 1 \in 1..(Len(s) - 1) /\ s[1] = test /\ s[Len(s)] = m
    BY <1>7, <1>8
  <2> QED BY <1>6, <2>1
<1>12. OpsOK(d, s) /\ \A k \in 1..Len(s) : ~Pointer(s[k])
  <2>1. Len(s) >= 1 /\ s[Len(s)] = m
    BY <1>8
  <2> QED BY <1>6, <1>8, <1>9, <1>10, <1>11, <2>1, GuardedMove
<1>13. Pointers(s) = {}
  BY <1>12 DEF Pointers
<1> QED BY <1>2, <1>12, <1>13 DEF s, q

-----------------------------------------------------------------------------
(* The disk and the running command.                                       *)

\* What every disk of the system is like.
DiskOK(d) == AllPaths(d) /\ IsFiniteSet(DOMAIN d) /\ DiskCounts(d)

\* The values a function takes on a finite set.
LEMMA FiniteImage ==
    ASSUME NEW S, NEW T, IsFiniteSet(S), NEW f \in [S -> T], \A t \in T : \E x \in S : f[x] = t
    PROVE  IsFiniteSet(T)
<1>1. f \in Surjection(S, T)
  BY DEF Surjection
<1> QED BY <1>1, FS_Surjection

\* A call leaves finitely many files and counted checkpoints.
LEMMA CallDisk ==
    ASSUME NEW d, NEW o, DiskOK(d), Harmless(o), Free(d, o)
    PROVE  DiskOK(Applied(d, o))
<1> DEFINE e == Applied(d, o)
<1>1. AllPaths(e)
  BY CallKept DEF DiskOK
<1>2. CASE o.op \in {"create", "put"}
  <2>1. /\ DOMAIN e = DOMAIN d \cup {o.path}
        /\ \A p \in DOMAIN d : p # o.path => e[p] = d[p]
    BY <1>2, AppliedFacts
  <2>2. o.path.name # "checkpoint.json"
    BY <1>2 DEF Harmless, Counts
  <2> HIDE DEF e
  <2>3. IsFiniteSet(DOMAIN e)
    BY <2>1, FS_AddElement DEF DiskOK
  <2>4. DiskCounts(e)
    BY <2>1, <2>2 DEF DiskCounts, DiskOK
  <2> QED BY <1>1, <2>3, <2>4 DEF DiskOK, e
<1>3. CASE o.op = "rename"
  <2>1. /\ DOMAIN e = (DOMAIN d \ {o.path}) \cup {o.to} /\ e[o.to] = o.data
        /\ \A p \in DOMAIN d : p # o.path /\ p # o.to => e[p] = d[p]
    BY <1>3, AppliedFacts
  <2>2. o.to.name = "checkpoint.json" => Counted(o.data)
    BY <1>3 DEF Harmless, Counts
  <2> HIDE DEF e
  <2>3. IsFiniteSet(DOMAIN d \ {o.path})
    BY FS_Subset DEF DiskOK
  <2>4. IsFiniteSet(DOMAIN e)
    BY <2>1, <2>3, FS_AddElement
  <2>5. DiskCounts(e)
    BY <2>1, <2>2 DEF DiskCounts, DiskOK
  <2> QED BY <1>1, <2>4, <2>5 DEF DiskOK, e
<1>4. CASE o.op = "remove"
  <2>1. DOMAIN e = DOMAIN d \ {o.path} /\ \A p \in DOMAIN d : p # o.path => e[p] = d[p]
    BY <1>4, AppliedFacts
  <2> HIDE DEF e
  <2>2. IsFiniteSet(DOMAIN e)
    BY <2>1, FS_Subset DEF DiskOK
  <2>3. DiskCounts(e)
    BY <2>1 DEF DiskCounts, DiskOK
  <2> QED BY <1>1, <2>2, <2>3 DEF DiskOK, e
<1>5. CASE o.op = "absent"
  BY <1>5, AppliedFacts
<1>6. CASE o.op = "move"
  <2>1. ~DirExists(d, o.to.dir) /\ o.path.dir[1] \notin Sealed \cup {"source"}
        /\ o.to.dir[1] \in Sealed
    BY <1>6 DEF Harmless, Free
  <2>2. o.path.dir # o.to.dir
    BY <2>1
  <2>3. \A p \in DOMAIN d : IsPath(p)
    BY DEF AllPaths, DiskOK
  <2>4. /\ \A p \in DOMAIN d : p.dir # o.path.dir => p \in DOMAIN e /\ e[p] = d[p]
        /\ \A p \in DOMAIN e : (p \in DOMAIN d /\ p.dir # o.path.dir) \/ p.dir = o.to.dir
    BY <1>6, <2>1, <2>2, <2>3, MovedFacts
  <2>5. IsFiniteSet(DOMAIN e)
    <3> DEFINE moved == {p \in DOMAIN d : p.dir = o.path.dir}
               there == {[p EXCEPT !.dir = o.to.dir] : p \in moved}
    <3>1. DOMAIN e = (DOMAIN d \ moved) \cup there
      BY <1>6 DEF Applied, Moved
    <3>2. IsFiniteSet(moved) /\ IsFiniteSet(DOMAIN d \ moved)
      BY FS_Subset DEF DiskOK
    <3>3. IsFiniteSet(there)
      <4> HIDE DEF moved
      <4> DEFINE f == [p \in moved |-> [p EXCEPT !.dir = o.to.dir]]
      <4>1. f \in [moved -> there] /\ \A t \in there : \E p \in moved : f[p] = t
        OBVIOUS
      <4> HIDE DEF f, there
      <4> QED BY <3>2, <4>1, FiniteImage
    <3> HIDE DEF moved, there, e
    <3> QED BY <3>1, <3>2, <3>3, FS_Union
  <2> HIDE DEF e
  <2>6. DiskCounts(e)
    BY <2>1, <2>4 DEF DiskCounts, DiskOK, Sealed
  <2> QED BY <1>1, <2>5, <2>6 DEF DiskOK, e
<1> QED BY <1>2, <1>3, <1>4, <1>5, <1>6 DEF Harmless, IsCall

\* resume_at gives a list of pages.
LEMMA ResumedIsSeq ==
    ASSUME NEW d, NEW dir, NEW n \in Nat, IsFiniteSet(DOMAIN d), ~ResumeRefused(d, dir, n)
    PROVE  IsSeq(ResumedPages(d, dir, n)) /\ Len(ResumedPages(d, dir, n)) = n
<1> DEFINE files == {q \in DOMAIN d : q.dir = dir /\ q.name = "page.yaml"}
           pages == {p.n : p \in files}
           size == Cardinality(pages)
           metas == StagedMetas(d, dir)
<1>1. IsFiniteSet(files)
  BY FS_Subset
<1>2. IsFiniteSet(pages)
  <2> HIDE DEF files
  <2> DEFINE f == [p \in files |-> p.n]
  <2>1. f \in [files -> pages] /\ \A t \in pages : \E p \in files : f[p] = t
    OBVIOUS
  <2> HIDE DEF f, pages
  <2> QED BY <1>1, <2>1, FiniteImage
<1>3. size \in Nat
  <2> HIDE DEF pages
  <2> QED BY <1>2, FS_CardinalityType
<1> DEFINE Ordered(i) == CHOOSE m \in pages : Cardinality({l \in pages : l < m}) = i - 1
<1>4. metas = [i \in 1..size |-> d[PageMeta(dir, Ordered(i))]]
  BY DEF StagedMetas
<1> HIDE DEF metas, size, Ordered
<1>5. metas \in Seq({d[PageMeta(dir, Ordered(i))] : i \in 1..size}) /\ Len(metas) = size
  BY <1>3, <1>4
<1>6. n <= size
  BY <1>3, <1>5 DEF ResumeRefused, metas
<1>7. \A S : metas \in Seq(S) => SubSeq(metas, 1, n) \in Seq(S) /\ Len(SubSeq(metas, 1, n)) = n
  BY <1>3, <1>5, <1>6
<1> QED BY <1>5, <1>7 DEF ResumedPages, IsSeq, metas

\* The partitions of a plan that a sync downloads, and what they need: no
\* revision of theirs is published or about to be.
Wanted(p) == ~Reused(p) /\ p.source # "Reject"
Fresh(d, s, plan) ==
    /\ IsSeq(plan)
    /\ \A i, j \in 1..Len(plan) : plan[i].key.place = plan[j].key.place => i = j
    /\ \A i \in 1..Len(plan) : Wanted(plan[i]) =>
         ~Has(d, Current(plan[i].key)) /\ Current(plan[i].key) \notin Pointers(s)

\* current.yaml is final.
LEMMA CurrentFacts ==
    ASSUME NEW key
    PROVE  LET p == Current(key)
           IN  /\ p.dir[1] = "source" /\ p.dir[2] = key.place /\ p.name = "current.yaml"
               /\ IsFinal(p) /\ p.dir[1] \notin Sealed
<1> DEFINE p == Current(key)
<1>1. p.dir[1] = "source" /\ p.dir[2] = key.place /\ p.name = "current.yaml"
  BY DEF Current, File, At, SourceRoot
<1> HIDE DEF p
<1>2. IsFinal(p) /\ p.dir[1] \notin Sealed
  BY <1>1 DEF IsFinal, Sealed
<1> QED BY <1>1, <1>2 DEF p

\* The rest of a list points where the list did.
LEMMA TailPointers ==
    ASSUME NEW s, IsSeq(s), s # <<>>
    PROVE  Pointers(Tail(s)) \subseteq Pointers(s)
<1>1. /\ Len(s) \in Nat /\ Len(Tail(s)) = Len(s) - 1
      /\ \A n \in 1..(Len(s) - 1) : Tail(s)[n] = s[n + 1]
  BY SeqFacts
<1> DEFINE t == Tail(s)
<1> HIDE DEF t
<1>2. \A n \in 1..Len(t) : n + 1 \in 1..Len(s) /\ t[n] = s[n + 1]
  BY <1>1 DEF t
<1>3. Pointers(t) \subseteq Pointers(s)
  BY <1>2 DEF Pointers
<1> QED BY <1>3 DEF t

\* A call publishes only what its list points to.
LEMMA FreshCall ==
    ASSUME NEW d, NEW s, NEW plan, AllPaths(d), s # <<>>, OpsOK(d, s), ~Refused(d, s[1]),
           Fresh(d, s, plan)
    PROVE  Fresh(Applied(d, s[1]), Tail(s), plan)
<1> DEFINE o == s[1]
           e == Applied(d, o)
<1>1. 1 \in 1..Len(s) /\ IsSeq(s)
  BY SeqFacts DEF OpsOK
<1>2. Harmless(o) /\ Free(d, o)
  <2>1. o.op = "move" => ~DirExists(d, o.to.dir)
    BY <1>1 DEF OpsOK, Guarded
  <2> QED BY <1>1, <2>1 DEF OpsOK, Free
<1>3. \A p \in DOMAIN e : p \in DOMAIN d \/ Makes(o, p)
  BY <1>2, CallKept
<1> HIDE DEF e
<1>4. \A key : Makes(o, Current(key)) => Current(key) \in Pointers(s)
  <2> SUFFICES ASSUME NEW key, Makes(o, Current(key)) PROVE Current(key) \in Pointers(s)
    OBVIOUS
  <2> DEFINE p == Current(key)
  <2>1. IsFinal(p) /\ p.dir[1] \notin Sealed
    BY CurrentFacts
  <2> HIDE DEF p
  <2>2. o.op = "rename" /\ o.to = p
    BY <1>2, <2>1 DEF Makes, Harmless, p
  <2>3. Pointer(s[1])
    BY <2>1, <2>2 DEF Pointer
  <2> QED BY <1>1, <2>2, <2>3 DEF Pointers, p
<1>5. Pointers(Tail(s)) \subseteq Pointers(s)
  BY <1>1, TailPointers
<1>6. \A i \in 1..Len(plan) : Wanted(plan[i]) =>
         ~Has(e, Current(plan[i].key)) /\ Current(plan[i].key) \notin Pointers(Tail(s))
  BY <1>3, <1>4, <1>5 DEF Fresh, Has
<1> QED BY <1>6 DEF Fresh, e

\* The rest of the plan is fresh as well.
LEMMA FreshTail ==
    ASSUME NEW d, NEW s, NEW plan, Fresh(d, s, plan), plan # <<>>
    PROVE  Fresh(d, s, Tail(plan))
<1>1. /\ Len(plan) \in Nat /\ IsSeq(Tail(plan)) /\ Len(Tail(plan)) = Len(plan) - 1
      /\ \A n \in 1..(Len(plan) - 1) : Tail(plan)[n] = plan[n + 1]
  BY SeqFacts DEF Fresh
<1> DEFINE t == Tail(plan)
<1> HIDE DEF t
<1>2. \A n \in 1..Len(t) : n + 1 \in 1..Len(plan) /\ t[n] = plan[n + 1]
  BY <1>1 DEF t
<1>3. ASSUME NEW i \in 1..Len(t), NEW j \in 1..Len(t), t[i].key.place = t[j].key.place
      PROVE  i = j
  <2>1. i + 1 = j + 1
    BY <1>2, <1>3 DEF Fresh
  <2> QED BY <1>1, <2>1 DEF t
<1>4. \A i \in 1..Len(t) : Wanted(t[i]) =>
         ~Has(d, Current(t[i].key)) /\ Current(t[i].key) \notin Pointers(s)
  BY <1>2 DEF Fresh
<1>5. Fresh(d, s, t)
  BY <1>1, <1>3, <1>4 DEF Fresh, t
<1> QED BY <1>5 DEF t

NoReject(plan) == \A i \in 1..Len(plan) : plan[i].source # "Reject"

\* Nor is any of it rejected, if none of the plan was.
LEMMA NoRejectTail ==
    ASSUME NEW plan, IsSeq(plan), NoReject(plan), plan # <<>>
    PROVE  NoReject(Tail(plan))
<1>1. /\ Len(plan) \in Nat /\ Len(Tail(plan)) = Len(plan) - 1
      /\ \A n \in 1..(Len(plan) - 1) : Tail(plan)[n] = plan[n + 1]
  BY SeqFacts
<1>2. \A n \in 1..Len(Tail(plan)) : n + 1 \in 1..Len(plan) /\ Tail(plan)[n] = plan[n + 1]
  BY <1>1
<1> QED BY <1>2 DEF NoReject

\* A plan just made is fresh: a partition that is not published is what
\* inspect finds missing or building.
LEMMA PlanFresh ==
    ASSUME NEW config \in Configs, NEW mapping
    PROVE  Fresh(disk, <<>>, Plan(config, mapping))
<1> DEFINE plan == Plan(config, mapping)
<1>1. /\ Len(config) \in Nat /\ DOMAIN config = 1..Len(config)
      /\ \A i, j \in DOMAIN config : config[i].place = config[j].place => i = j
  BY ConfigAssumption
<1>2. plan = [i \in 1..Len(config) |-> Planned(config[i], mapping)]
  BY DEF Plan
<1> HIDE DEF plan
<1>3. IsSeq(plan) /\ Len(plan) = Len(config)
  <2>1. plan \in Seq({Planned(config[i], mapping) : i \in 1..Len(config)})
    BY <1>1, <1>2
  <2>2. Len(plan) = Len(config)
    BY <1>1, <1>2
  <2> QED BY <2>1, <2>2 DEF IsSeq
<1>4. \A key : /\ Planned(key, mapping).key = key
               /\ Planned(key, mapping).source = SourceAction(Inspect(disk, key))
  BY DEF Planned
<1>5. ASSUME NEW key, Has(disk, Current(key))
      PROVE  SourceAction(Inspect(disk, key)) \in {"ReuseCompleteSource", "Reject"}
  <2>1. Inspect(disk, key) \in {"Corrupt", "Complete", "Incomplete"}
    BY <1>5 DEF Inspect, ErrorState
  <2> QED BY <2>1 DEF SourceAction
<1>6. \A i \in 1..Len(plan) : plan[i] = Planned(config[i], mapping)
  BY <1>2, <1>3
<1>7. \A i \in 1..Len(plan) : Wanted(plan[i]) => ~Has(disk, Current(plan[i].key))
  BY <1>4, <1>5, <1>6 DEF Wanted, Reused
<1>8. \A i, j \in 1..Len(plan) : plan[i].key.place = plan[j].key.place => i = j
  BY <1>1, <1>3, <1>4, <1>6
<1>9. Pointers(<<>>) = {}
  BY TupleFacts DEF Pointers
<1> QED BY <1>3, <1>7, <1>8, <1>9 DEF Fresh, plan

\* A command: the calls left are in order, a sync stage always follows a plan
\* stage, and while it syncs the partitions to come are not published.
Fields == {"step", "ops", "stages", "keys", "mapping", "output", "plan", "todo", "sync"}
Syncs == {"sync", "sync if required"}
StagesOK(st) == IsSeq(st) /\ \A k \in 2..Len(st) : st[k] \in Syncs => st[k - 1] = "plan"
SyncOK(sync) == /\ DOMAIN sync = {"daily", "pages", "checkpoint"}
                /\ IsSeq(sync.pages) /\ Counted(sync.checkpoint)
Active(d, j) ==
    /\ DOMAIN j = Fields
    /\ j.step \in {"stage", "fetch", "open", "pages", "prepare"}
    /\ OpsOK(d, j.ops)
    /\ StagesOK(j.stages)
    /\ j.keys \in Configs
    /\ j.step = "stage" /\ j.stages # <<>> /\ j.stages[1] \in Syncs => Fresh(d, j.ops, j.plan)
    /\ j.step # "stage" => j.stages # <<>> /\ j.stages[1] # "plan"
    /\ j.step \in {"fetch", "open", "pages"} => Fresh(d, j.ops, j.todo) /\ NoReject(j.todo)
    /\ j.step \in {"open", "pages"} => j.todo # <<>> /\ ~Reused(j.todo[1]) /\ SyncOK(j.sync)
CommandInv == DiskOK(disk) /\ (job = Idle \/ Active(disk, job))

\* The stages of every command are in such an order.
LEMMA StagesAreOK ==
    ASSUME NEW command \in CommandNames
    PROVE  LET st == Stages(command) IN StagesOK(st) /\ st # <<>> /\ st[1] \notin Syncs
<1> DEFINE st == Stages(command)
<1>1. /\ IsSeq(st)
      /\ \/ Len(st) = 1 /\ st[1] \notin Syncs
         \/ Len(st) = 2 /\ st[1] = "plan"
         \/ Len(st) = 6 /\ st[1] = "plan" /\ st[3] \notin Syncs /\ st[4] \notin Syncs
                        /\ st[5] \notin Syncs /\ st[6] \notin Syncs
  <2> DEFINE Long(g) == <<"plan", "sync if required", "plan", "prepare", "plan", g>>
  <2>1. \/ st = <<"verify">> \/ st = <<"inspect">>
        \/ st = <<"plan", "sync">> \/ st = <<"plan", "prepare">>
        \/ st = <<"plan", "replay">> \/ st = <<"plan", "backtest">>
        \/ st = Long("replay") \/ st = Long("backtest")
    BY DEF CommandNames, Stages
  <2>2. ASSUME NEW g
        PROVE  /\ Len(Long(g)) = 6 /\ Long(g)[1] = "plan"
               /\ Long(g)[3] = "plan" /\ Long(g)[4] = "prepare" /\ Long(g)[5] = "plan"
               /\ Long(g)[6] = g
    OBVIOUS
  <2>3. ASSUME NEW g PROVE IsSeq(Long(g))
    <3>1. Long(g) \in Seq({"plan", "sync if required", "prepare", g})
      OBVIOUS
    <3> QED BY <3>1 DEF IsSeq
  <2>4. \A a : a \in {"verify", "inspect", "plan", "prepare", "replay", "backtest"} => a \notin Syncs
    BY DEF Syncs
  <2> HIDE DEF st, Long
  <2> QED BY <2>1, <2>2, <2>3, <2>4, TupleFacts
<1> HIDE DEF st
<1>2. IsSeq(st) /\ Len(st) >= 1 /\ st # <<>>
  BY <1>1, TupleFacts
<1>3. st[1] \notin Syncs
  BY <1>1 DEF Syncs
<1>4. \A k \in 2..Len(st) : st[k] \in Syncs => st[k - 1] = "plan"
  <2>1. CASE Len(st) = 1
    BY <2>1
  <2>2. CASE Len(st) # 1
    <3>1. ASSUME NEW k \in 2..Len(st), st[k] \in Syncs PROVE k = 2
      BY <1>1, <2>2, <3>1
    <3>2. st[1] = "plan"
      BY <1>1, <2>2
    <3> QED BY <3>1, <3>2
  <2> QED BY <2>1, <2>2
<1> QED BY <1>2, <1>3, <1>4 DEF StagesOK, st

\* The order survives the end of a stage.
LEMMA StagesTail ==
    ASSUME NEW st, StagesOK(st), st # <<>>
    PROVE  StagesOK(Tail(st)) /\ (st[1] # "plan" /\ Tail(st) # <<>> => Tail(st)[1] \notin Syncs)
<1>1. /\ Len(st) \in Nat /\ IsSeq(Tail(st)) /\ Len(Tail(st)) = Len(st) - 1
      /\ \A n \in 1..(Len(st) - 1) : Tail(st)[n] = st[n + 1]
  BY SeqFacts DEF StagesOK
<1> DEFINE t == Tail(st)
<1>2. t # <<>> => Len(t) >= 1
  BY <1>1, SeqFacts
<1> HIDE DEF t
<1>3. \A k \in 2..Len(t) : t[k] = st[k + 1] /\ t[k - 1] = st[k] /\ k + 1 \in 2..Len(st) /\ (k + 1) - 1 = k
  <2> SUFFICES ASSUME NEW k \in 2..Len(t)
               PROVE  t[k] = st[k + 1] /\ t[k - 1] = st[k] /\ k + 1 \in 2..Len(st) /\ (k + 1) - 1 = k
    OBVIOUS
  <2>1. k \in 1..(Len(st) - 1) /\ k - 1 \in 1..(Len(st) - 1) /\ (k - 1) + 1 = k
        /\ k + 1 \in 2..Len(st) /\ (k + 1) - 1 = k
    BY <1>1 DEF t
  <2>2. \A n \in 1..(Len(st) - 1) : t[n] = st[n + 1]
    BY <1>1 DEF t
  <2>3. t[k] = st[k + 1]
    BY <2>1, <2>2
  <2>4. t[k - 1] = st[(k - 1) + 1]
    BY <2>1, <2>2
  <2> QED BY <2>1, <2>3, <2>4
<1>4. \A k \in 2..Len(t) : t[k] \in Syncs => t[k - 1] = "plan"
  BY <1>3 DEF StagesOK
<1>5. ASSUME st[1] # "plan", t # <<>> PROVE t[1] \notin Syncs
  <2>1. 1 \in 1..(Len(st) - 1) /\ 2 \in 2..Len(st)
    BY <1>1, <1>2, <1>5 DEF t
  <2>2. t[1] = st[2]
    BY <1>1, <2>1 DEF t
  <2> QED BY <1>5, <2>1, <2>2 DEF StagesOK
<1> QED BY <1>1, <1>4, <1>5 DEF StagesOK, t

\* An empty list of calls is in order.
LEMMA NoOps ==
    ASSUME NEW d
    PROVE  OpsOK(d, <<>>) /\ Pointers(<<>>) = {}
<1>1. Quiet(<<>>)
  BY TupleFacts DEF Quiet
<1> QED BY <1>1, QuietThen, QuietPointers

\* What the plan needs of the calls is that they point elsewhere.
LEMMA FreshOps ==
    ASSUME NEW d, NEW s, NEW t, NEW plan, Fresh(d, s, plan),
           \A i \in 1..Len(plan) : Wanted(plan[i]) => Current(plan[i].key) \notin Pointers(t)
    PROVE  Fresh(d, t, plan)
BY DEF Fresh

\* A stage ends: the next is a sync only after a plan.
LEMMA StageEnds ==
    ASSUME NEW d, NEW j, NEW s, Active(d, j), j.stages # <<>>, j.stages[1] # "plan", OpsOK(d, s)
    PROVE  Active(d, [j EXCEPT !.stages = Tail(@), !.step = "stage", !.ops = s])
<1> DEFINE n == [j EXCEPT !.stages = Tail(@), !.step = "stage", !.ops = s]
<1>1. /\ DOMAIN n = Fields /\ n.step = "stage" /\ n.stages = Tail(j.stages)
      /\ n.ops = s /\ n.keys = j.keys /\ n.plan = j.plan /\ n.todo = j.todo
      /\ n.sync = j.sync
  BY DEF Active, Fields
<1>2. StagesOK(n.stages) /\ (n.stages # <<>> => n.stages[1] \notin Syncs)
  BY <1>1, StagesTail DEF Active
<1> HIDE DEF n
<1>3. Active(d, n)
  BY <1>1, <1>2 DEF Active
<1> QED BY <1>3 DEF n

\* The next file-system call of the command.
LEMMA FileCallStep ==
    ASSUME CommandInv, FileCall
    PROVE  CommandInv' /\ Kept(disk, disk')
<1> DEFINE s == job.ops
           o == Head(job.ops)
<1>1. Active(disk, job) /\ DiskOK(disk) /\ s # <<>>
  BY DEF CommandInv, FileCall
<1>2. OpsOK(disk, s) /\ IsSeq(s) /\ AllPaths(disk)
  BY <1>1 DEF Active, OpsOK, DiskOK
<1>3. o = s[1] /\ 1 \in 1..Len(s)
  BY <1>1, <1>2, SeqFacts
<1>4. CASE Refused(disk, o)
  <2>1. job' = Idle /\ disk' = disk
    BY <1>4 DEF FileCall, Fail
  <2> QED BY <1>1, <2>1 DEF CommandInv, Kept
<1>5. CASE ~Refused(disk, o)
  <2> DEFINE n == [job EXCEPT !.ops = Tail(@)]
             e == Applied(disk, o)
  <2>1. job' = n /\ disk' = e
    BY <1>5 DEF FileCall
  <2>2. Kept(disk, e) /\ OpsOK(e, Tail(s))
    BY <1>1, <1>2, <1>3, <1>5, CallOK
  <2>3. DiskOK(e)
    <3>1. Harmless(o)
      BY <1>2, <1>3 DEF OpsOK
    <3>2. Free(disk, o)
      <4>1. o.op = "move" => ~DirExists(disk, o.to.dir)
        BY <1>2, <1>3 DEF OpsOK, Guarded
      <4> QED BY <1>2, <1>3, <4>1 DEF OpsOK, Free
    <3> QED BY <1>1, <3>1, <3>2, CallDisk
  <2>4. \A plan : Fresh(disk, s, plan) => Fresh(e, Tail(s), plan)
    BY <1>1, <1>2, <1>3, <1>5, FreshCall
  <2>5. /\ DOMAIN n = Fields /\ n.step = job.step /\ n.stages = job.stages
        /\ n.ops = Tail(s) /\ n.keys = job.keys /\ n.plan = job.plan /\ n.todo = job.todo
        /\ n.sync = job.sync
    BY <1>1 DEF Active, Fields
  <2> HIDE DEF n, e
  <2>6. Active(e, n)
    BY <1>1, <2>2, <2>4, <2>5 DEF Active
  <2> QED BY <2>1, <2>2, <2>3, <2>6 DEF CommandInv
<1> QED BY <1>4, <1>5

\* A step that leaves the disk alone keeps the invariant if its command does.
LEMMA ProceedStep ==
    ASSUME NEW n, DiskOK(disk), Active(disk, n), Proceed(n)
    PROVE  CommandInv' /\ disk' = disk
BY DEF Proceed, CommandInv

LEMMA FailStep ==
    ASSUME CommandInv, job' = Idle, disk' = disk
    PROVE  CommandInv' /\ disk' = disk
BY DEF CommandInv

\* A command begins.
LEMMA BeginStep ==
    ASSUME CommandInv, Begin
    PROVE  CommandInv' /\ disk' = disk
<1>1. PICK command \in CommandNames, config \in Configs, mapping \in Mappings, o \in Outputs :
        job' = [step |-> "stage", ops |-> <<>>, stages |-> Stages(command),
                keys |-> config, mapping |-> mapping, output |-> o,
                plan |-> <<>>, todo |-> <<>>, sync |-> <<>>]
  BY DEF Begin
<1> DEFINE st == Stages(command)
           n == [step |-> "stage", ops |-> <<>>, stages |-> st,
                 keys |-> config, mapping |-> mapping, output |-> o,
                 plan |-> <<>>, todo |-> <<>>, sync |-> <<>>]
<1>2. StagesOK(st) /\ st # <<>> /\ st[1] \notin Syncs
  BY StagesAreOK
<1> HIDE DEF st
<1>3. /\ DOMAIN n = Fields /\ n.step = "stage" /\ n.stages = st /\ n.ops = <<>> /\ n.keys = config
  BY DEF Fields
<1> HIDE DEF n
<1>4. OpsOK(disk, <<>>)
  BY NoOps
<1>5. Active(disk, n)
  BY <1>2, <1>3, <1>4 DEF Active
<1>6. job' = n /\ disk' = disk
  BY <1>1 DEF Begin, n, st
<1> QED BY <1>5, <1>6 DEF CommandInv

\* What every step of a command that is between two operations knows.
LEMMA ReadyFacts ==
    ASSUME CommandInv, NEW step, Ready(step)
    PROVE  /\ DiskOK(disk) /\ Active(disk, job) /\ job.ops = <<>> /\ job.step = step
           /\ OpsOK(disk, <<>>)
BY NoOps DEF CommandInv, Ready

LEMMA AtStageFacts ==
    ASSUME CommandInv, NEW name, AtStage(name)
    PROVE  /\ DiskOK(disk) /\ Active(disk, job) /\ job.ops = <<>> /\ job.step = "stage"
           /\ OpsOK(disk, <<>>) /\ job.stages # <<>> /\ job.stages[1] = name /\ Head(job.stages) = name
<1>1. Ready("stage") /\ job.stages # <<>> /\ Head(job.stages) = name
  BY DEF AtStage
<1>2. /\ DiskOK(disk) /\ Active(disk, job) /\ job.ops = <<>> /\ job.step = "stage"
      /\ OpsOK(disk, <<>>)
  BY <1>1, ReadyFacts
<1>3. Head(job.stages) = job.stages[1]
  BY <1>1, <1>2, SeqFacts DEF Active, StagesOK
<1> QED BY <1>1, <1>2, <1>3

\* NextStage of a stage that is not a plan.
LEMMA NextStageOK ==
    ASSUME DiskOK(disk), Active(disk, job), job.ops = <<>>, job.stages # <<>>, job.stages[1] # "plan"
    PROVE  Active(disk, NextStage)
<1> DEFINE n == [job EXCEPT !.stages = Tail(@), !.step = "stage", !.ops = <<>>]
<1>1. Active(disk, n)
  BY NoOps, StageEnds
<1>2. NextStage = n
  BY DEF NextStage, Active
<1> QED BY <1>1, <1>2

\* The plan is made afresh.
LEMMA PlanStep ==
    ASSUME CommandInv, PlanStage
    PROVE  CommandInv' /\ disk' = disk
<1> DEFINE plan == Plan(job.keys, job.mapping)
           n == [NextStage EXCEPT !.plan = plan]
<1>1. /\ DiskOK(disk) /\ Active(disk, job) /\ job.ops = <<>> /\ job.step = "stage"
      /\ OpsOK(disk, <<>>) /\ job.stages # <<>>
  BY AtStageFacts DEF PlanStage
<1>2. Fresh(disk, <<>>, plan)
  BY <1>1, PlanFresh DEF Active
<1> HIDE DEF plan
<1>3. /\ DOMAIN n = Fields /\ n.step = "stage" /\ n.stages = Tail(job.stages)
      /\ n.ops = <<>> /\ n.keys = job.keys /\ n.plan = plan
  BY <1>1 DEF Active, Fields, NextStage
<1>4. StagesOK(n.stages)
  BY <1>1, <1>3, StagesTail DEF Active
<1> HIDE DEF n
<1>5. Active(disk, n)
  BY <1>1, <1>2, <1>3, <1>4 DEF Active
<1>6. Proceed(n)
  BY DEF PlanStage, n, plan
<1> QED BY <1>1, <1>5, <1>6, ProceedStep

LEMMA VerifyStep ==
    ASSUME CommandInv, VerifyStage \/ InspectStage
    PROVE  CommandInv' /\ disk' = disk
<1>1. /\ DiskOK(disk) /\ Active(disk, job) /\ job.ops = <<>>
      /\ job.stages # <<>> /\ job.stages[1] # "plan"
  BY AtStageFacts DEF VerifyStage, InspectStage
<1>2. Active(disk, NextStage)
  BY <1>1, NextStageOK
<1>3. Proceed(NextStage) \/ (job' = Idle /\ disk' = disk)
  BY DEF VerifyStage, InspectStage, Fail
<1> QED BY <1>1, <1>2, <1>3, ProceedStep, FailStep

\* A sync begins with the plan just made, none of it rejected.
LEMMA SyncStep ==
    ASSUME CommandInv, SyncStage
    PROVE  CommandInv' /\ disk' = disk
<1> DEFINE n == [job EXCEPT !.todo = job.plan, !.step = "fetch"]
<1>1. /\ DiskOK(disk) /\ Active(disk, job) /\ job.ops = <<>> /\ job.step = "stage"
      /\ job.stages # <<>> /\ job.stages[1] \in Syncs /\ job.stages[1] # "plan"
  <2>1. PICK name \in Syncs : AtStage(name)
    BY DEF SyncStage, Syncs
  <2>2. name # "plan"
    BY DEF Syncs
  <2> QED BY <2>1, <2>2, AtStageFacts
<1>2. Active(disk, NextStage)
  BY <1>1, NextStageOK
<1> DEFINE rejected == \E i \in 1..Len(job.plan) : job.plan[i].source = "Reject"
<1>3. \/ Proceed(NextStage)
      \/ job' = Idle /\ disk' = disk
      \/ ~rejected /\ Proceed(n)
  <2> DEFINE network == \E i \in 1..Len(job.plan) : RequiresNetwork(job.plan[i].source)
             skip == ~network /\ Head(job.stages) = "sync if required"
             rest == IF network THEN n ELSE NextStage
  <2>1. \/ skip /\ Proceed(NextStage)
        \/ ~skip /\ rejected /\ Fail("SourceNotComplete")
        \/ ~skip /\ ~rejected /\ Proceed(rest)
    BY DEF SyncStage
  <2>2. rest = n \/ rest = NextStage
    OBVIOUS
  <2> HIDE DEF network, skip, rejected, rest, n
  <2> QED BY <2>1, <2>2 DEF Fail
<1>4. ASSUME ~rejected PROVE Active(disk, n)
  <2>1. /\ DOMAIN n = Fields /\ n.step = "fetch" /\ n.stages = job.stages
        /\ n.ops = job.ops /\ n.keys = job.keys /\ n.todo = job.plan
    BY <1>1 DEF Active, Fields
  <2>2. NoReject(job.plan)
    BY <1>4 DEF NoReject
  <2>3. Fresh(disk, job.ops, job.plan)
    BY <1>1 DEF Active
  <2> HIDE DEF n
  <2> QED BY <1>1, <2>1, <2>2, <2>3 DEF Active
<1> HIDE DEF rejected, n
<1> QED BY <1>1, <1>2, <1>3, <1>4, ProceedStep, FailStep

\* The command goes on to its next stage, or stops.
LEMMA DoneStep ==
    ASSUME CommandInv, SyncDone \/ PrepareDone
    PROVE  CommandInv' /\ disk' = disk
<1>1. /\ DiskOK(disk) /\ Active(disk, job) /\ job.ops = <<>> /\ job.step # "stage"
  BY ReadyFacts DEF SyncDone, PrepareDone
<1>2. Active(disk, NextStage)
  BY <1>1, NextStageOK DEF Active
<1> QED BY <1>1, <1>2, ProceedStep DEF SyncDone, PrepareDone

LEMMA StopStep ==
    ASSUME CommandInv, Finish \/ TransportFails \/ Crash
    PROVE  CommandInv' /\ disk' = disk
<1>1. job' = Idle /\ disk' = disk
  BY DEF Finish, TransportFails, Crash, Fail
<1> QED BY <1>1, FailStep

\* One partition less to download.
LEMMA SkipStep ==
    ASSUME CommandInv, SkipReused
    PROVE  CommandInv' /\ disk' = disk
<1> DEFINE n == [job EXCEPT !.todo = Tail(@)]
<1>1. /\ DiskOK(disk) /\ Active(disk, job) /\ job.ops = <<>> /\ job.step = "fetch"
      /\ job.todo # <<>>
  BY ReadyFacts DEF SkipReused
<1>2. /\ DOMAIN n = Fields /\ n.step = "fetch" /\ n.stages = job.stages
      /\ n.ops = job.ops /\ n.keys = job.keys /\ n.todo = Tail(job.todo)
  BY <1>1 DEF Active, Fields
<1>3. Fresh(disk, job.ops, job.todo) /\ NoReject(job.todo)
  BY <1>1 DEF Active
<1>4. Fresh(disk, job.ops, Tail(job.todo)) /\ NoReject(Tail(job.todo))
  <2>1. IsSeq(job.todo)
    BY <1>3 DEF Fresh
  <2> QED BY <1>1, <1>3, <2>1, FreshTail, NoRejectTail
<1> HIDE DEF n
<1>5. Active(disk, n)
  BY <1>1, <1>2, <1>4 DEF Active
<1>6. Proceed(n)
  BY DEF SkipReused, n
<1> QED BY <1>1, <1>5, <1>6, ProceedStep

LEMMA FetchStep ==
    ASSUME CommandInv, FetchSingles
    PROVE  CommandInv' /\ disk' = disk
<1> DEFINE key == Head(job.todo).key
           sync == [daily |-> Daily(remote, key), pages |-> <<>>, checkpoint |-> FirstCheckpoint(key)]
           n == [job EXCEPT !.step = "open", !.sync = sync]
<1>1. /\ DiskOK(disk) /\ Active(disk, job) /\ job.ops = <<>> /\ job.step = "fetch"
      /\ job.todo # <<>> /\ ~Reused(Head(job.todo))
  BY ReadyFacts DEF FetchSingles
<1>2. SyncOK(sync)
  BY TupleFacts DEF SyncOK, FirstCheckpoint, Counted
<1> HIDE DEF sync
<1>3. /\ DOMAIN n = Fields /\ n.step = "open" /\ n.stages = job.stages
      /\ n.ops = job.ops /\ n.keys = job.keys /\ n.todo = job.todo /\ n.sync = sync
  BY <1>1 DEF Active, Fields
<1>4. Head(job.todo) = job.todo[1]
  BY <1>1, SeqFacts DEF Active, Fresh
<1>5. ~Reused(job.todo[1])
  BY <1>1, <1>4
<1> HIDE DEF n
<1>6. Active(disk, n)
  BY <1>1, <1>2, <1>3, <1>5 DEF Active
<1>7. Proceed(n)
  BY DEF FetchSingles, n, sync
<1> QED BY <1>1, <1>6, <1>7, ProceedStep

\* An earlier attempt is resumed, or a new one made.
LEMMA OpenStep ==
    ASSUME CommandInv, OpenStaging
    PROVE  CommandInv' /\ disk' = disk
<1> DEFINE key == Head(job.todo).key
           dir == Attempt(key)
           saved == disk[Checkpoint(dir)]
           pages == ResumedPages(disk, dir, saved.committed)
           resumed == [job EXCEPT !.step = "pages", !.sync.checkpoint = saved, !.sync.pages = pages]
           created == [job EXCEPT !.step = "pages", !.ops = CreateOps(disk, key)]
<1>1. /\ DiskOK(disk) /\ Active(disk, job) /\ job.ops = <<>> /\ job.step = "open"
  BY ReadyFacts DEF OpenStaging
<1>2. SyncOK(job.sync) /\ job.todo # <<>> /\ Fresh(disk, job.ops, job.todo)
  BY <1>1 DEF Active
<1>3. \/ job' = Idle /\ disk' = disk
      \/ /\ Has(disk, Checkpoint(dir)) /\ ~ResumeRefused(disk, dir, saved.committed)
         /\ Proceed(resumed)
      \/ Proceed(created)
  BY DEF OpenStaging, Fail, LoadCheckpoint
<1>4. ASSUME Has(disk, Checkpoint(dir)), ~ResumeRefused(disk, dir, saved.committed)
      PROVE  Active(disk, resumed)
  <2>1. Counted(saved)
    <3>1. Checkpoint(dir).dir[1] = "staging" /\ Checkpoint(dir).name = "checkpoint.json"
      BY DEF Checkpoint, File, At, Attempt
    <3> QED BY <1>1, <1>4, <3>1 DEF DiskOK, DiskCounts, Has
  <2>2. IsSeq(pages)
    BY <1>1, <1>4, <2>1, ResumedIsSeq DEF DiskOK, Counted
  <2> HIDE DEF saved, pages
  <2> DEFINE sync == [[job.sync EXCEPT !.checkpoint = saved] EXCEPT !.pages = pages]
  <2>3. /\ DOMAIN resumed = Fields /\ resumed.step = "pages" /\ resumed.stages = job.stages
        /\ resumed.ops = job.ops /\ resumed.keys = job.keys /\ resumed.todo = job.todo
        /\ resumed.sync = sync
    BY <1>1 DEF Active, Fields
  <2>4. SyncOK(sync)
    BY <1>2, <2>1, <2>2 DEF SyncOK
  <2> HIDE DEF resumed, sync
  <2> QED BY <1>1, <2>3, <2>4 DEF Active
<1>5. Active(disk, created)
  <2> DEFINE s == CreateOps(disk, key)
  <2>1. OpsOK(disk, s) /\ Pointers(s) \subseteq {PartitionFile(key)}
    BY CreateOK
  <2>2. \A k : Current(k).name = "current.yaml"
    BY DEF Current, File, At
  <2>3. PartitionFile(key).name = "partition.yaml"
    BY DEF PartitionFile, File, At
  <2> HIDE DEF s, key
  <2>4. \A k : Current(k) \notin Pointers(s)
    BY <2>1, <2>2, <2>3
  <2>5. /\ DOMAIN created = Fields /\ created.step = "pages" /\ created.stages = job.stages
        /\ created.ops = s /\ created.keys = job.keys /\ created.todo = job.todo
        /\ created.sync = job.sync
    BY <1>1 DEF Active, Fields, s
  <2>6. Fresh(disk, s, job.todo)
    BY <1>2, <2>4, FreshOps
  <2> HIDE DEF created
  <2> QED BY <1>1, <2>1, <2>5, <2>6 DEF Active
<1> HIDE DEF resumed, created, saved, dir
<1> QED BY <1>1, <1>3, <1>4, <1>5, ProceedStep, FailStep

\* The next page is staged and counted.
LEMMA PageStep ==
    ASSUME CommandInv, FetchPage
    PROVE  CommandInv' /\ disk' = disk
<1> DEFINE key == Head(job.todo).key
           checkpoint == job.sync.checkpoint
           k == Len(job.sync.pages)
           page == Archive(remote, key, checkpoint.next)
           next == Committed(checkpoint, page)
           s == SavePage(key, k, page, next)
           n == [job EXCEPT !.ops = s, !.sync.checkpoint = next, !.sync.pages = Append(@, page)]
<1>1. /\ DiskOK(disk) /\ Active(disk, job) /\ job.ops = <<>> /\ job.step = "pages"
  BY ReadyFacts DEF FetchPage
<1>2. SyncOK(job.sync) /\ job.todo # <<>> /\ Fresh(disk, job.ops, job.todo)
  BY <1>1 DEF Active
<1>3. (job' = Idle /\ disk' = disk) \/ Proceed(n)
  BY DEF FetchPage, Fail
<1>4. Counted(next)
  BY <1>2 DEF SyncOK, Counted, Committed
<1>5. Quiet(s)
  BY <1>4, SaveQuiet
<1>6. IsSeq(Append(job.sync.pages, page))
  <2>1. PICK S : job.sync.pages \in Seq(S)
    BY <1>2 DEF SyncOK, IsSeq
  <2>2. job.sync.pages \in Seq(S \cup {page})
    BY <2>1
  <2>3. Append(job.sync.pages, page) \in Seq(S \cup {page})
    BY <2>2
  <2> QED BY <2>3 DEF IsSeq
<1> HIDE DEF s, next, page
<1> DEFINE sync == [[job.sync EXCEPT !.checkpoint = next] EXCEPT !.pages = Append(@, page)]
<1>7. /\ DOMAIN n = Fields /\ n.step = "pages" /\ n.stages = job.stages
      /\ n.ops = s /\ n.keys = job.keys /\ n.todo = job.todo /\ n.sync = sync
  BY <1>1 DEF Active, Fields
<1>8. SyncOK(sync)
  BY <1>2, <1>4, <1>6 DEF SyncOK
<1>9. OpsOK(disk, s) /\ Pointers(s) = {}
  BY <1>5, QuietThen, QuietPointers
<1>10. Fresh(disk, s, job.todo)
  BY <1>2, <1>9, FreshOps
<1> HIDE DEF n, sync
<1>11. Active(disk, n)
  BY <1>1, <1>7, <1>8, <1>9, <1>10 DEF Active
<1> QED BY <1>1, <1>3, <1>11, ProceedStep, FailStep

\* The partition is published; the others to come are elsewhere.
LEMMA PublishStep ==
    ASSUME CommandInv, PublishRevision
    PROVE  CommandInv' /\ disk' = disk
<1> DEFINE key == Head(job.todo).key
           revision == RevisionOf(job.sync.pages, job.sync.daily)
           s == StageDailyOps(Attempt(key), job.sync.daily) \o PublishOps(key, revision)
           n == [job EXCEPT !.step = "fetch", !.todo = Tail(@), !.sync = <<>>, !.ops = s]
           t == Tail(job.todo)
<1>1. /\ DiskOK(disk) /\ Active(disk, job) /\ job.ops = <<>> /\ job.step = "pages"
  BY ReadyFacts DEF PublishRevision
<1>2. /\ SyncOK(job.sync) /\ job.todo # <<>> /\ Fresh(disk, job.ops, job.todo)
      /\ NoReject(job.todo) /\ ~Reused(job.todo[1]) /\ IsSeq(job.todo)
  BY <1>1 DEF Active, Fresh
<1>3. /\ Head(job.todo) = job.todo[1] /\ 1 \in 1..Len(job.todo) /\ Len(job.todo) \in Nat
      /\ Len(t) = Len(job.todo) - 1 /\ \A i \in 1..(Len(job.todo) - 1) : t[i] = job.todo[i + 1]
  BY <1>2, SeqFacts
<1>4. ~Has(disk, Current(key))
  BY <1>2, <1>3 DEF Fresh, Wanted, NoReject
<1>5. Len(revision.pages) \in Nat
  BY <1>2, SeqFacts DEF RevisionOf, SyncOK
<1>6. OpsOK(disk, s) /\ Pointers(s) \subseteq {Current(key)}
  BY <1>4, <1>5, PublishOK
<1> HIDE DEF s
<1>7. /\ DOMAIN n = Fields /\ n.step = "fetch" /\ n.stages = job.stages
      /\ n.ops = s /\ n.keys = job.keys /\ n.todo = t
  BY <1>1 DEF Active, Fields
<1>8. Fresh(disk, job.ops, t) /\ NoReject(t)
  BY <1>2, FreshTail, NoRejectTail
<1>9. \A i \in 1..Len(t) : t[i].key.place # key.place
  <2> SUFFICES ASSUME NEW i \in 1..Len(t) PROVE t[i].key.place # key.place
    OBVIOUS
  <2> HIDE DEF t
  <2>1. i + 1 \in 1..Len(job.todo) /\ t[i] = job.todo[i + 1] /\ i + 1 # 1
    BY <1>3
  <2> QED BY <1>2, <1>3, <2>1 DEF Fresh
<1>10. \A i \in 1..Len(t) : Current(t[i].key) \notin Pointers(s)
  <2>1. \A a, b : Current(a) = Current(b) => a.place = b.place
    BY CurrentFacts
  <2> HIDE DEF t, key
  <2> QED BY <1>6, <1>9, <2>1
<1>11. Fresh(disk, s, t)
  BY <1>8, <1>10, FreshOps
<1> HIDE DEF n, t
<1>12. Active(disk, n)
  BY <1>1, <1>6, <1>7, <1>8, <1>11 DEF Active
<1>13. Proceed(n)
  BY DEF PublishRevision, n, s
<1> QED BY <1>1, <1>12, <1>13, ProceedStep

\* Caches are built one partition after the other.
LEMMA PrepareStep ==
    ASSUME CommandInv, PrepareStage \/ PreparePartition
    PROVE  CommandInv' /\ disk' = disk
<1>1. CASE PrepareStage
  <2> DEFINE n == [job EXCEPT !.todo = job.plan, !.step = "prepare"]
  <2>1. /\ DiskOK(disk) /\ Active(disk, job) /\ job.ops = <<>>
        /\ job.stages # <<>> /\ job.stages[1] # "plan"
    BY <1>1, AtStageFacts DEF PrepareStage
  <2>2. /\ DOMAIN n = Fields /\ n.step = "prepare" /\ n.stages = job.stages
        /\ n.ops = job.ops /\ n.keys = job.keys
    BY <2>1 DEF Active, Fields
  <2>3. Proceed(n)
    BY <1>1 DEF PrepareStage
  <2> HIDE DEF n
  <2>4. Active(disk, n)
    BY <2>1, <2>2 DEF Active
  <2> QED BY <2>1, <2>3, <2>4, ProceedStep
<1>2. CASE PreparePartition
  <2> DEFINE p == Head(job.todo)
             revision == disk[Current(p.key)]
             s == CacheOps(p.key, Descriptor(p.key, revision, job.mapping,
                           Normalized(job.mapping, TickRecords(revision.pages))))
             rest == [job EXCEPT !.todo = Tail(@)]
             built == [rest EXCEPT !.ops = s]
  <2>1. DiskOK(disk) /\ Active(disk, job) /\ job.ops = <<>> /\ job.step = "prepare"
    BY <1>2, ReadyFacts DEF PreparePartition
  <2>2. (job' = Idle /\ disk' = disk) \/ Proceed(rest) \/ Proceed(built)
    BY <1>2 DEF PreparePartition, Fail
  <2>3. OpsOK(disk, s)
    BY CacheOK
  <2> HIDE DEF s
  <2>4. /\ DOMAIN rest = Fields /\ rest.step = "prepare" /\ rest.stages = job.stages
        /\ rest.ops = job.ops /\ rest.keys = job.keys
    BY <2>1 DEF Active, Fields
  <2>5. /\ DOMAIN built = Fields /\ built.step = "prepare" /\ built.stages = job.stages
        /\ built.ops = s /\ built.keys = job.keys
    BY <2>1 DEF Active, Fields
  <2> HIDE DEF rest, built
  <2>6. Active(disk, rest) /\ Active(disk, built)
    BY <2>1, <2>3, <2>4, <2>5 DEF Active
  <2> QED BY <2>1, <2>2, <2>6, ProceedStep, FailStep
<1> QED BY <1>1, <1>2

\* A run is published.
LEMMA ReplayStep ==
    ASSUME CommandInv, ReplayStage
    PROVE  CommandInv' /\ disk' = disk
<1> DEFINE s == PublishArtifacts(job.output, Artifacts(job.plan, StreamEvents(job.plan)))
           n == [NextStage EXCEPT !.ops = s]
           m == [job EXCEPT !.stages = Tail(@), !.step = "stage", !.ops = s]
<1>1. /\ DiskOK(disk) /\ Active(disk, job) /\ job.ops = <<>>
      /\ job.stages # <<>> /\ job.stages[1] # "plan"
  <2>1. PICK name \in {"replay", "backtest"} : AtStage(name)
    BY DEF ReplayStage
  <2>2. name # "plan"
    OBVIOUS
  <2> QED BY <2>1, <2>2, AtStageFacts
<1>2. Active(disk, NextStage)
  BY <1>1, NextStageOK
<1>3. OpsOK(disk, s)
  BY ArtifactsOK
<1>4. \/ job' = Idle /\ disk' = disk
      \/ Proceed(NextStage) \/ Proceed(n)
  BY DEF ReplayStage, Fail
<1> HIDE DEF s
<1>5. Active(disk, m)
  BY <1>1, <1>3, StageEnds
<1>6. n = m
  BY <1>1 DEF NextStage, Active, Fields
<1> HIDE DEF n, m
<1> QED BY <1>1, <1>2, <1>4, <1>5, <1>6, ProceedStep, FailStep

\* What is published and not a page or a payload.
Published(p) ==
    /\ p.name \in {"current.yaml", "manifest.yaml"} \cup ToSet(ArtifactFiles)
    /\ p.dir[1] \in {"source", "revision", "output"}

\* Damage is to a page or a payload.
LEMMA DamageStep ==
    ASSUME CommandInv, Damage
    PROVE  CommandInv' /\ \A p \in DOMAIN disk : Published(p) => p \in DOMAIN disk' /\ disk'[p] = disk[p]
<1>1. PICK p \in DOMAIN disk :
        \/ /\ p.dir[1] = "revision" /\ p.name = "page.zst"
           /\ disk' = [disk EXCEPT ![p].items = <<"damaged">>]
        \/ /\ p.dir[1] = "cache" /\ p.name = "events.bin"
           /\ disk' = [disk EXCEPT ![p].records = <<"damaged">>]
  BY DEF Damage
<1>2. DOMAIN disk' = DOMAIN disk /\ \A q \in DOMAIN disk : q # p => disk'[q] = disk[q]
  BY <1>1
<1>3. p.name \in {"page.zst", "events.bin"} /\ p.dir[1] \in {"revision", "cache"}
  BY <1>1
<1>4. ToSet(ArtifactFiles) = {"ledger.bin", "run-manifest.yaml", "strategy.json"}
  BY DEF ToSet, ArtifactFiles
<1>5. ~Published(p)
  BY <1>3, <1>4 DEF Published
<1>6. job' = Idle
  BY DEF Damage
<1>7. DiskOK(disk')
  <2>1. DiskOK(disk)
    BY DEF CommandInv
  <2>2. AllPaths(disk') /\ IsFiniteSet(DOMAIN disk')
    BY <1>2, <2>1 DEF DiskOK, AllPaths
  <2>3. DiskCounts(disk')
    BY <1>2, <1>3, <2>1 DEF DiskOK, DiskCounts
  <2> QED BY <2>2, <2>3 DEF DiskOK
<1> QED BY <1>2, <1>5, <1>6, <1>7 DEF CommandInv

-----------------------------------------------------------------------------
(* What is published stays.                                                *)

\* The invariant holds at the start.
LEMMA CommandInit == Init => CommandInv
<1> SUFFICES ASSUME Init PROVE CommandInv
  OBVIOUS
<1>1. DOMAIN disk = {} /\ job = Idle
  BY DEF Init
<1>2. IsFiniteSet({})
  BY FS_EmptySet
<1> QED BY <1>1, <1>2 DEF CommandInv, DiskOK, AllPaths, DiskCounts

\* Every step keeps it, and no step rewrites or removes what is published.
LEMMA CommandNext ==
    ASSUME CommandInv, [Next]_vars
    PROVE  CommandInv' /\ \A p \in DOMAIN disk : Published(p) => p \in DOMAIN disk' /\ disk'[p] = disk[p]
<1>1. CASE FileCall
  <2>1. CommandInv' /\ Kept(disk, disk')
    BY <1>1, FileCallStep
  <2>2. \A p \in DOMAIN disk : Published(p) => IsFinal(p)
    <3>1. ToSet(ArtifactFiles) = {"ledger.bin", "run-manifest.yaml", "strategy.json"}
      BY DEF ToSet, ArtifactFiles
    <3> QED BY <3>1 DEF Published, IsFinal, Sealed
  <2> QED BY <2>1, <2>2 DEF Kept
<1>2. CASE Damage
  BY <1>2, DamageStep
<1>3. CASE ArchiveChanges \/ UNCHANGED vars
  <2>1. disk' = disk /\ job' = job
    BY <1>3 DEF ArchiveChanges, vars
  <2> QED BY <2>1 DEF CommandInv
<1>4. CASE \/ Begin \/ Finish \/ PlanStage \/ VerifyStage \/ SyncStage \/ SyncDone \/ SkipReused
           \/ FetchSingles \/ OpenStaging \/ FetchPage \/ PublishRevision \/ PrepareStage
           \/ PrepareDone \/ PreparePartition \/ ReplayStage \/ InspectStage
           \/ TransportFails \/ Crash
  <2>1. CommandInv' /\ disk' = disk
    BY <1>4, BeginStep, StopStep, PlanStep, VerifyStep, SyncStep, DoneStep, SkipStep, FetchStep,
       OpenStep, PageStep, PublishStep, PrepareStep, ReplayStep
  <2> QED BY <2>1
<1> QED BY <1>1, <1>2, <1>3, <1>4 DEF Next, Step

\* What is published stays, whatever commands run, fail and crash:
\* current.yaml, the manifest of a revision and the files of a run are never
\* rewritten or removed (StagingRevision::publish, publish_artifacts and
\* execute_sync_plan, which downloads only what is not published).
THEOREM PublishedNeverRewritten == Spec => PublishedIsImmutable
<1>1. Init => CommandInv
  BY CommandInit
<1>2. CommandInv /\ [Next]_vars => CommandInv'
  BY CommandNext
<1>3. CommandInv /\ [Next]_vars =>
        [\A p \in DOMAIN disk :
           p.name \in {"current.yaml", "manifest.yaml"} \cup ToSet(ArtifactFiles)
             /\ p.dir[1] \in {"source", "revision", "output"} =>
           Has(disk', p) /\ disk'[p] = disk[p]]_vars
  BY CommandNext DEF Published, Has
<1> QED BY <1>1, <1>2, <1>3, PTL DEF Spec, PublishedIsImmutable

-----------------------------------------------------------------------------
(* Staged pages, checkpoints and revisions are whole.                      *)

Staging(p) == p.dir[1] = "staging"

\* The call changes or removes the file.
Touches(o, p) == \/ o.op \in {"create", "put", "remove"} /\ o.path = p
                 \/ o.op = "rename" /\ (o.path = p \/ o.to = p)
                 \/ o.op = "move" /\ o.path.dir = p.dir

\* What a call does to a file of an attempt.
LEMMA StagingEffect ==
    ASSUME NEW d, NEW o, NEW p, AllPaths(d), Harmless(o), Free(d, o), Staging(p)
    PROVE  LET e == Applied(d, o)
           IN  /\ Has(e, p) => \/ Has(d, p)
                               \/ o.op \in {"create", "put"} /\ o.path = p
                               \/ o.op = "rename" /\ o.to = p
               /\ Has(d, p) /\ ~Touches(o, p) => Has(e, p) /\ e[p] = d[p]
               /\ o.op = "rename" /\ o.to = p => Has(e, p) /\ e[p] = o.data
               /\ o.op = "remove" /\ o.path = p => ~Has(e, p)
               /\ o.op = "move" /\ o.path.dir = p.dir => ~Has(e, p)
<1> DEFINE e == Applied(d, o)
           Effect == /\ Has(e, p) => \/ Has(d, p)
                                     \/ o.op \in {"create", "put"} /\ o.path = p
                                     \/ o.op = "rename" /\ o.to = p
                     /\ Has(d, p) /\ ~Touches(o, p) => Has(e, p) /\ e[p] = d[p]
                     /\ o.op = "rename" /\ o.to = p => Has(e, p) /\ e[p] = o.data
                     /\ o.op = "remove" /\ o.path = p => ~Has(e, p)
                     /\ o.op = "move" /\ o.path.dir = p.dir => ~Has(e, p)
<1> SUFFICES Effect
  OBVIOUS
<1>1. CASE o.op \in {"create", "put"}
  <2>1. /\ DOMAIN e = DOMAIN d \cup {o.path}
        /\ \A q \in DOMAIN d : q # o.path => e[q] = d[q]
    BY <1>1, AppliedFacts
  <2> HIDE DEF e
  <2> QED BY <1>1, <2>1 DEF Has, Touches
<1>2. CASE o.op = "rename"
  <2>1. /\ DOMAIN e = (DOMAIN d \ {o.path}) \cup {o.to} /\ e[o.to] = o.data
        /\ \A q \in DOMAIN d : q # o.path /\ q # o.to => e[q] = d[q]
    BY <1>2, AppliedFacts
  <2> HIDE DEF e
  <2> QED BY <1>2, <2>1 DEF Has, Touches
<1>3. CASE o.op = "remove"
  <2>1. DOMAIN e = DOMAIN d \ {o.path} /\ \A q \in DOMAIN d : q # o.path => e[q] = d[q]
    BY <1>3, AppliedFacts
  <2> HIDE DEF e
  <2> QED BY <1>3, <2>1 DEF Has, Touches
<1>4. CASE o.op = "absent"
  <2>1. e = d
    BY <1>4, AppliedFacts
  <2> HIDE DEF e
  <2> QED BY <1>4, <2>1
<1>5. CASE o.op = "move"
  <2>1. ~DirExists(d, o.to.dir) /\ o.path.dir[1] \notin Sealed \cup {"source"}
        /\ o.to.dir[1] \in Sealed
    BY <1>5 DEF Harmless, Free
  <2>2. o.path.dir # o.to.dir /\ p.dir # o.to.dir
    BY <2>1 DEF Staging, Sealed
  <2>3. \A q \in DOMAIN d : IsPath(q)
    BY DEF AllPaths
  <2>4. /\ \A q \in DOMAIN d : q.dir # o.path.dir => q \in DOMAIN e /\ e[q] = d[q]
        /\ \A q \in DOMAIN e : (q \in DOMAIN d /\ q.dir # o.path.dir) \/ q.dir = o.to.dir
    BY <1>5, <2>1, <2>2, <2>3, MovedFacts
  <2> HIDE DEF e
  <2> QED BY <1>5, <2>2, <2>4 DEF Has, Touches
<1> QED BY <1>1, <1>2, <1>3, <1>4, <1>5 DEF Harmless, IsCall

\* No call before the k-th writes the file, or changes it to anything but x.
NotBefore(s, k, p) == \A i \in 1..(k - 1) : s[i].op = "rename" => s[i].to # p
Stays(s, k, p, x) ==
    \A i \in 1..(k - 1) :
      /\ s[i].op \in {"create", "put", "remove"} => s[i].path # p
      /\ s[i].op = "rename" => s[i].path # p /\ (s[i].to = p => s[i].data = x)
      /\ s[i].op = "move" => s[i].path.dir # p.dir

\* When the turn of the k-th call comes, the file holds x.
Comes(d, s, k, p, x) ==
    /\ Stays(s, k, p, x)
    /\ \/ Has(d, p) /\ d[p] = x
       \/ \E i \in 1..(k - 1) : s[i].op = "rename" /\ s[i].to = p

\* The calls before the first.
LEMMA ComesNow ==
    ASSUME NEW d, NEW s, NEW p, NEW x, Comes(d, s, 1, p, x)
    PROVE  Has(d, p) /\ d[p] = x
<1>1. 1..(1 - 1) = {}
  OBVIOUS
<1> QED BY <1>1 DEF Comes

\* The calls left after the first, by their number in the list.
LEMMA TailBefore ==
    ASSUME NEW s, IsSeq(s), s # <<>>, NEW k \in 1..(Len(Tail(s)) + 1)
    PROVE  /\ k \in Nat /\ 1 \in 1..((k + 1) - 1)
           /\ \A i \in 1..(k - 1) : i + 1 \in 1..((k + 1) - 1) /\ Tail(s)[i] = s[i + 1]
           /\ \A i \in 1..((k + 1) - 1) : i = 1 \/ (i - 1 \in 1..(k - 1) /\ Tail(s)[i - 1] = s[i])
<1>1. /\ Len(s) \in Nat /\ Len(Tail(s)) = Len(s) - 1 /\ Len(s) >= 1
      /\ \A n \in 1..(Len(s) - 1) : Tail(s)[n] = s[n + 1]
  BY SeqFacts
<1> DEFINE t == Tail(s)
<1> HIDE DEF t
<1>2. k \in Nat /\ 1 \in 1..((k + 1) - 1) /\ k <= Len(s)
  BY <1>1 DEF t
<1>3. \A i \in 1..(k - 1) : i + 1 \in 1..((k + 1) - 1) /\ i \in 1..(Len(s) - 1)
  BY <1>1, <1>2
<1>4. ASSUME NEW i \in 1..((k + 1) - 1), i # 1
      PROVE  i - 1 \in 1..(k - 1) /\ i - 1 \in 1..(Len(s) - 1) /\ (i - 1) + 1 = i
  BY <1>1, <1>2, <1>4
<1>5. ASSUME NEW i \in 1..((k + 1) - 1), i # 1 PROVE t[i - 1] = s[i]
  BY <1>1, <1>4, <1>5 DEF t
<1>6. \A i \in 1..(k - 1) : t[i] = s[i + 1]
  BY <1>1, <1>3 DEF t
<1> QED BY <1>2, <1>3, <1>4, <1>5, <1>6 DEF t

LEMMA TailCalls ==
    ASSUME NEW s, IsSeq(s), s # <<>>, NEW k \in 1..Len(Tail(s))
    PROVE  /\ k \in Nat /\ k + 1 \in 1..Len(s) /\ Tail(s)[k] = s[k + 1]
           /\ k \in 1..(Len(Tail(s)) + 1)
<1>1. /\ Len(s) \in Nat /\ Len(Tail(s)) = Len(s) - 1
      /\ \A n \in 1..(Len(s) - 1) : Tail(s)[n] = s[n + 1]
  BY SeqFacts
<1> DEFINE n == Len(s)
           t == Tail(s)
           m == Len(Tail(s))
<1> HIDE DEF n, t, m
<1>2. k \in Nat /\ k + 1 \in 1..n /\ k \in 1..(n - 1) /\ k \in 1..(m + 1)
  BY <1>1 DEF n, m
<1> QED BY <1>1, <1>2 DEF n, m

\* A file that comes still comes after the first call.
LEMMA ComesTail ==
    ASSUME NEW d, NEW s, NEW p, NEW x, AllPaths(d), IsSeq(s), s # <<>>, Harmless(s[1]),
           Free(d, s[1]), Staging(p), NEW k \in 1..(Len(Tail(s)) + 1), Comes(d, s, k + 1, p, x)
    PROVE  Comes(Applied(d, s[1]), Tail(s), k, p, x)
<1> DEFINE o == s[1]
           e == Applied(d, o)
           t == Tail(s)
<1>1. /\ 1 \in 1..((k + 1) - 1)
      /\ \A i \in 1..(k - 1) : i + 1 \in 1..((k + 1) - 1) /\ t[i] = s[i + 1]
      /\ \A i \in 1..((k + 1) - 1) : i = 1 \/ (i - 1 \in 1..(k - 1) /\ t[i - 1] = s[i])
  BY TailBefore
<1>2. /\ Has(d, p) /\ ~Touches(o, p) => Has(e, p) /\ e[p] = d[p]
      /\ o.op = "rename" /\ o.to = p => Has(e, p) /\ e[p] = o.data
  BY StagingEffect
<1> HIDE DEF e, t
<1>3. Stays(t, k, p, x)
  <2> SUFFICES ASSUME NEW i \in 1..(k - 1)
               PROVE  /\ t[i].op \in {"create", "put", "remove"} => t[i].path # p
                      /\ t[i].op = "rename" => t[i].path # p /\ (t[i].to = p => t[i].data = x)
                      /\ t[i].op = "move" => t[i].path.dir # p.dir
    BY DEF Stays
  <2>1. i + 1 \in 1..((k + 1) - 1) /\ t[i] = s[i + 1]
    BY <1>1
  <2> QED BY <2>1 DEF Comes, Stays
<1>4. /\ o.op \in {"create", "put", "remove"} => o.path # p
      /\ o.op = "rename" => o.path # p /\ (o.to = p => o.data = x)
      /\ o.op = "move" => o.path.dir # p.dir
  BY <1>1 DEF Comes, Stays
<1>5. CASE o.op = "rename" /\ o.to = p
  BY <1>2, <1>3, <1>4, <1>5 DEF Comes, e, t
<1>6. CASE ~(o.op = "rename" /\ o.to = p)
  <2>1. ~Touches(o, p)
    BY <1>4, <1>6 DEF Touches
  <2>2. CASE Has(d, p) /\ d[p] = x
    BY <1>2, <1>3, <2>1, <2>2 DEF Comes, e, t
  <2>3. ASSUME NEW i \in 1..((k + 1) - 1), s[i].op = "rename", s[i].to = p
        PROVE  Comes(e, t, k, p, x)
    <3>1. i - 1 \in 1..(k - 1) /\ t[i - 1] = s[i]
      BY <1>1, <1>6, <2>3
    <3> QED BY <1>3, <2>3, <3>1 DEF Comes
  <2> QED BY <2>2, <2>3 DEF Comes, e, t
<1> QED BY <1>5, <1>6

\* A checkpoint and the pages it counts: one cursor chain, whose next cursor is
\* the last page's and whose earlier cursors are remembered, and what the archive,
\* in each of the versions V, answers to the query from its first page on.
Asked(V, key, pages) ==
    \A v \in V : \A i \in 1..Len(pages) :
      pages[i] = Archive(v, key, IF i = 1 THEN 0 ELSE pages[i - 1].next)
Linked(V, checkpoint, pages) ==
    /\ Counted(checkpoint) /\ IsSeq(pages) /\ Len(pages) = checkpoint.committed
    /\ IsChain(pages)
    /\ Asked(V, checkpoint.query, pages)
    /\ checkpoint.committed = 0 => ~checkpoint.terminal /\ checkpoint.next = 0
    /\ checkpoint.committed # 0 =>
         /\ checkpoint.next = pages[checkpoint.committed].next
         /\ checkpoint.terminal = (checkpoint.next = 0)
    /\ \A i \in 1..Len(pages) : pages[i].next # 0 => pages[i].next \in checkpoint.cursors

\* Staged metadata has its object, and a saved checkpoint its metadata.
Backed(V, d, dir, checkpoint) ==
    \E pages : /\ Linked(V, checkpoint, pages) /\ checkpoint.committed # 0
               /\ \A i \in 1..Len(pages) : ObjectVerifies(d, PageMeta(dir, i - 1), pages[i])
DiskFits(V, d) ==
    /\ \A p \in DOMAIN d : Staging(p) /\ p.name = "page.yaml" =>
         p.n \in Nat /\ ObjectVerifies(d, PageObject(p.dir, p.n), d[p])
    /\ \A p \in DOMAIN d : Staging(p) /\ p = Checkpoint(p.dir) => Backed(V, d, p.dir, d[p])

\* A revision's directory has everything its manifest names; or it will have
\* when the k-th call, its move, is made.
Whole(d, dir, r) ==
    /\ r.pages # <<>> /\ Len(r.pages) \in Nat
    /\ ObjectVerifies(d, File(dir, "manifest.yaml"), r)
    /\ ObjectVerifies(d, File(dir, "daily.zst"), r.daily)
    /\ \A i \in 1..Len(r.pages) : ObjectVerifies(d, PageObject(dir, i - 1), r.pages[i])
WholeSoon(d, s, k, dir, r) ==
    /\ r.pages # <<>> /\ Len(r.pages) \in Nat
    /\ Comes(d, s, k, File(dir, "manifest.yaml"), r)
    /\ Comes(d, s, k, File(dir, "daily.zst"), r.daily)
    /\ \A i \in 1..Len(r.pages) : Comes(d, s, k, PageObject(dir, i - 1), r.pages[i])

\* What a call needs of the disk when its turn comes: objects are written
\* before their metadata, metadata before the checkpoint that counts it, the
\* checkpoint goes before the metadata does, a revision is moved whole and
\* current.yaml names only what has been moved.
Renames(o, name) == o.op = "rename" /\ Staging(o.to) /\ o.to.name = name
FitsNames(o) ==
    /\ o.op \in {"create", "put", "rename"} /\ Staging(o.path) =>
         o.path.name \notin {"page.zst", "page.yaml", "checkpoint.json"}
    /\ o.op = "remove" /\ Staging(o.path) => o.path.name # "page.zst"
FitsRemove(d, s, k) ==
    s[k].op = "remove" /\ Staging(s[k].path) /\ s[k].path.name = "page.yaml" =>
      LET c == Checkpoint(s[k].path.dir)
      IN  /\ NotBefore(s, k, c)
          /\ \/ ~Has(d, c)
             \/ \E i \in 1..(k - 1) : s[i].op = "remove" /\ s[i].path = c
FitsMeta(d, s, k) ==
    Renames(s[k], "page.yaml") =>
      /\ s[k].to.n \in Nat /\ ~Has(d, s[k].to) /\ NotBefore(s, k, s[k].to)
      /\ Comes(d, s, k, PageObject(s[k].to.dir, s[k].to.n), s[k].data)
FitsObject(d, s, k) ==
    Renames(s[k], "page.zst") =>
      /\ ~Has(d, PageMeta(s[k].to.dir, s[k].to.n))
      /\ NotBefore(s, k, PageMeta(s[k].to.dir, s[k].to.n))
FitsCheckpoint(V, d, s, k) ==
    Renames(s[k], "checkpoint.json") =>
      \E pages : /\ Linked(V, s[k].data, pages) /\ s[k].data.committed # 0
                 /\ \A i \in 1..Len(pages) :
                      Comes(d, s, k, PageMeta(s[k].to.dir, i - 1), pages[i])
FitsMove(d, s, k) ==
    s[k].op = "move" /\ s[k].to.dir[1] = "revision" =>
      Staging(s[k].path) /\ WholeSoon(d, s, k, s[k].path.dir, s[k].to.dir[3])
FitsPointer(d, s, k) ==
    s[k].op = "rename" /\ s[k].to.dir[1] = "source" /\ s[k].to.name = "current.yaml" =>
      LET dir == <<"revision", s[k].to.dir[2], s[k].data>>
      IN  \/ Whole(d, dir, s[k].data)
          \/ \E i \in 1..(k - 1) : s[i].op = "move" /\ s[i].to.dir = dir
Fits(V, d, s, k) ==
    /\ FitsNames(s[k]) /\ FitsRemove(d, s, k) /\ FitsMeta(d, s, k) /\ FitsObject(d, s, k)
    /\ FitsCheckpoint(V, d, s, k) /\ FitsMove(d, s, k) /\ FitsPointer(d, s, k)

\* The parts of a path.
LEMMA PathFacts ==
    /\ \A dir, name, n : LET p == At(dir, name, n)
                         IN  p.dir = dir /\ p.name = name /\ p.n = n /\ IsPath(p)
    /\ \A dir, n : PageMeta(dir, n) = At(dir, "page.yaml", n)
    /\ \A dir, n : PageObject(dir, n) = At(dir, "page.zst", n)
    /\ \A dir : Checkpoint(dir) = At(dir, "checkpoint.json", 0)
BY DEF At, IsPath, PageMeta, PageObject, Checkpoint, File

\* A call that fits leaves staged pages and checkpoints as they should be.
LEMMA DiskFitsCall ==
    ASSUME NEW V, NEW d, NEW s, AllPaths(d), Harmless(s[1]), Free(d, s[1]), Fits(V, d, s, 1),
           DiskFits(V, d)
    PROVE  DiskFits(V, Applied(d, s[1]))
<1> DEFINE o == s[1]
           e == Applied(d, o)
<1>1. ASSUME NEW p, Staging(p)
      PROVE  /\ Has(e, p) => \/ Has(d, p)
                             \/ o.op \in {"create", "put"} /\ o.path = p
                             \/ o.op = "rename" /\ o.to = p
             /\ Has(d, p) /\ ~Touches(o, p) => Has(e, p) /\ e[p] = d[p]
             /\ o.op = "rename" /\ o.to = p => Has(e, p) /\ e[p] = o.data
             /\ o.op = "remove" /\ o.path = p => ~Has(e, p)
             /\ o.op = "move" /\ o.path.dir = p.dir => ~Has(e, p)
  BY <1>1, StagingEffect
<1>2. FitsNames(o)
  BY DEF Fits
<1> HIDE DEF e
<1>3. ASSUME NEW p \in DOMAIN e, Staging(p), p.name = "page.yaml"
      PROVE  p.n \in Nat /\ ObjectVerifies(e, PageObject(p.dir, p.n), e[p])
  <2> DEFINE q == PageObject(p.dir, p.n)
  <2>1. q.dir = p.dir /\ q.name = "page.zst" /\ q.n = p.n
    BY PathFacts
  <2>2. Staging(q)
    BY <1>3, <2>1 DEF Staging
  <2>3. CASE o.op = "rename" /\ o.to = p
    <3>1. Renames(o, "page.yaml")
      BY <1>3, <2>3 DEF Renames
    <3>2. p.n \in Nat /\ Comes(d, s, 1, q, o.data)
      BY <2>3, <3>1 DEF Fits, FitsMeta
    <3>3. Has(d, q) /\ d[q] = o.data
      BY <3>2, ComesNow
    <3> HIDE DEF q
    <3>4. ~Touches(o, q)
      BY <1>2, <1>3, <2>1, <2>2, <2>3 DEF Touches, FitsNames
    <3>5. Has(e, q) /\ e[q] = o.data /\ e[p] = o.data
      BY <1>1, <1>3, <2>2, <2>3, <3>3, <3>4
    <3> QED BY <3>2, <3>5 DEF ObjectVerifies, q
  <2>4. CASE ~(o.op = "rename" /\ o.to = p)
    <3>1. ~(o.op \in {"create", "put"} /\ o.path = p) /\ ~(o.op = "rename" /\ o.path = p)
      BY <1>2, <1>3 DEF FitsNames
    <3>2. Has(d, p) /\ ~Touches(o, p)
      BY <1>1, <1>3, <2>4, <3>1 DEF Touches, Has
    <3>3. p.n \in Nat /\ Has(d, q) /\ d[q] = d[p] /\ e[p] = d[p]
      BY <1>1, <1>3, <3>2 DEF DiskFits, ObjectVerifies, Has
    <3>4. PageMeta(q.dir, q.n) = p
      <4>1. IsPath(p)
        BY <3>2 DEF AllPaths, Has
      <4> QED BY <1>3, <2>1, <4>1, PathFacts DEF IsPath
    <3> HIDE DEF q
    <3>5. ~(o.op = "rename" /\ o.to = q)
      <4> SUFFICES ASSUME o.op = "rename", o.to = q PROVE FALSE
        OBVIOUS
      <4>1. Renames(o, "page.zst")
        BY <2>1, <2>2 DEF Renames
      <4> QED BY <3>2, <3>4, <4>1 DEF Fits, FitsObject
    <3>6. ~Touches(o, q)
      BY <1>2, <2>1, <2>2, <3>2, <3>5 DEF Touches, FitsNames
    <3>7. Has(e, q) /\ e[q] = d[q]
      BY <1>1, <2>2, <3>3, <3>6
    <3> QED BY <3>3, <3>7 DEF ObjectVerifies, q
  <2> QED BY <2>3, <2>4
<1>4. ASSUME NEW p \in DOMAIN e, Staging(p), p = Checkpoint(p.dir)
      PROVE  Backed(V, e, p.dir, e[p])
  <2>1. p.name = "checkpoint.json"
    BY <1>4, PathFacts
  <2> DEFINE Meta(i) == PageMeta(p.dir, i - 1)
  <2>2. \A i : Meta(i).dir = p.dir /\ Meta(i).name = "page.yaml" /\ Staging(Meta(i))
    BY <1>4, PathFacts DEF Staging
  <2> HIDE DEF Meta
  <2>3. CASE o.op = "rename" /\ o.to = p
    <3>1. Renames(o, "checkpoint.json")
      BY <1>4, <2>1, <2>3 DEF Renames
    <3>2. PICK pages : /\ Linked(V, o.data, pages) /\ o.data.committed # 0
                       /\ \A i \in 1..Len(pages) : Comes(d, s, 1, Meta(i), pages[i])
      BY <2>3, <3>1 DEF Fits, FitsCheckpoint, Meta
    <3>3. \A i \in 1..Len(pages) : Has(d, Meta(i)) /\ d[Meta(i)] = pages[i]
      BY <3>2, ComesNow
    <3>4. \A i : ~Touches(o, Meta(i))
      BY <1>2, <2>1, <2>2, <2>3 DEF Touches, FitsNames
    <3>5. \A i \in 1..Len(pages) : ObjectVerifies(e, Meta(i), pages[i])
      BY <1>1, <2>2, <3>3, <3>4 DEF ObjectVerifies
    <3>6. e[p] = o.data
      BY <1>1, <1>4, <2>3
    <3> QED BY <3>2, <3>5, <3>6 DEF Backed, Meta
  <2>4. CASE ~(o.op = "rename" /\ o.to = p)
    <3>1. ~(o.op \in {"create", "put"} /\ o.path = p) /\ ~(o.op = "rename" /\ o.path = p)
      BY <1>2, <1>4, <2>1 DEF FitsNames
    <3>2. Has(d, p) /\ ~Touches(o, p)
      BY <1>1, <1>4, <2>4, <3>1 DEF Touches, Has
    <3>3. e[p] = d[p] /\ Backed(V, d, p.dir, d[p])
      BY <1>1, <1>4, <3>2 DEF DiskFits, Has
    <3>4. PICK pages : /\ Linked(V, d[p], pages) /\ d[p].committed # 0
                       /\ \A i \in 1..Len(pages) : ObjectVerifies(d, Meta(i), pages[i])
      BY <3>3 DEF Backed, Meta
    <3>5. ASSUME NEW i \in 1..Len(pages) PROVE ObjectVerifies(e, Meta(i), pages[i])
      <4>1. Has(d, Meta(i)) /\ d[Meta(i)] = pages[i]
        BY <3>4 DEF ObjectVerifies
      <4>2. ~(o.op = "rename" /\ o.to = Meta(i))
        <5> SUFFICES ASSUME o.op = "rename", o.to = Meta(i) PROVE FALSE
          OBVIOUS
        <5>1. Renames(o, "page.yaml")
          BY <2>2 DEF Renames
        <5> QED BY <4>1, <5>1 DEF Fits, FitsMeta
      <4>3. ~(o.op = "remove" /\ o.path = Meta(i))
        <5> SUFFICES ASSUME o.op = "remove", o.path = Meta(i) PROVE FALSE
          OBVIOUS
        <5>1. Staging(o.path) /\ o.path.name = "page.yaml" /\ Checkpoint(o.path.dir) = p
          BY <1>4, <2>2
        <5>2. 1..(1 - 1) = {}
          OBVIOUS
        <5> QED BY <3>2, <5>1, <5>2 DEF Fits, FitsRemove
      <4>4. ~Touches(o, Meta(i))
        BY <1>2, <2>2, <3>2, <4>2, <4>3 DEF Touches, FitsNames
      <4> QED BY <1>1, <2>2, <4>1, <4>4 DEF ObjectVerifies
    <3> QED BY <3>3, <3>4, <3>5 DEF Backed, Meta
  <2> QED BY <2>3, <2>4
<1> QED BY <1>3, <1>4 DEF DiskFits, e

\* What is published whole stays whole.
LEMMA WholeKept ==
    ASSUME NEW d, NEW e, NEW dir, NEW r, Kept(d, e), dir[1] = "revision", Whole(d, dir, r)
    PROVE  Whole(e, dir, r)
<1>1. \A name, n : LET p == At(dir, name, n) IN IsFinal(p)
  BY PathFacts DEF IsFinal, Sealed
<1>2. \A name, n, x : ObjectVerifies(d, At(dir, name, n), x) => ObjectVerifies(e, At(dir, name, n), x)
  BY <1>1 DEF ObjectVerifies, Kept, Has
<1>3. \A name, x : ObjectVerifies(d, File(dir, name), x) => ObjectVerifies(e, File(dir, name), x)
  BY <1>2 DEF File
<1>4. \A n, x : ObjectVerifies(d, PageObject(dir, n), x) => ObjectVerifies(e, PageObject(dir, n), x)
  BY <1>2 DEF PageObject
<1> QED BY <1>3, <1>4 DEF Whole

\* A whole attempt becomes a whole revision.
LEMMA MoveWhole ==
    ASSUME NEW d, NEW s, AllPaths(d), Harmless(s[1]), Free(d, s[1]), s[1].op = "move",
           NEW r, WholeSoon(d, s, 1, s[1].path.dir, r)
    PROVE  Whole(Applied(d, s[1]), s[1].to.dir, r)
<1> DEFINE o == s[1]
           e == Applied(d, o)
           from == o.path.dir
           to == o.to.dir
<1>1. ~DirExists(d, to) /\ from[1] \notin Sealed \cup {"source"} /\ to[1] \in Sealed
  BY DEF Harmless, Free
<1>2. from # to
  BY <1>1
<1>3. \A q \in DOMAIN d : IsPath(q)
  BY DEF AllPaths
<1>4. \A name, n : Has(d, At(from, name, n)) =>
         Has(e, At(to, name, n)) /\ e[At(to, name, n)] = d[At(from, name, n)]
  BY <1>1, <1>2, <1>3, MovedFacts
<1> HIDE DEF e, from, to
<1>5. \A name, n, x : Comes(d, s, 1, At(from, name, n), x) => ObjectVerifies(e, At(to, name, n), x)
  BY <1>4, ComesNow DEF ObjectVerifies
<1>6. \A name, x : Comes(d, s, 1, File(from, name), x) => ObjectVerifies(e, File(to, name), x)
  BY <1>5 DEF File
<1>7. \A n, x : Comes(d, s, 1, PageObject(from, n), x) => ObjectVerifies(e, PageObject(to, n), x)
  BY <1>5 DEF PageObject
<1>8. WholeSoon(d, s, 1, from, r)
  BY DEF from
<1>9. Whole(e, to, r)
  BY <1>6, <1>7, <1>8 DEF WholeSoon, Whole
<1> QED BY <1>9 DEF e, to

\* After the first call the others fit as well.
LEMMA FitsTail ==
    ASSUME NEW V, NEW d, NEW s, AllPaths(d), s # <<>>, OpsOK(d, s), ~Refused(d, s[1]),
           \A k \in 1..Len(s) : Fits(V, d, s, k), NEW k \in 1..Len(Tail(s))
    PROVE  Fits(V, Applied(d, s[1]), Tail(s), k)
<1> DEFINE o == s[1]
           e == Applied(d, o)
           t == Tail(s)
<1>1. IsSeq(s) /\ 1 \in 1..Len(s)
  BY SeqFacts DEF OpsOK
<1>2. /\ k \in Nat /\ k + 1 \in 1..Len(s) /\ t[k] = s[k + 1] /\ 1 \in 1..((k + 1) - 1)
      /\ \A i \in 1..(k - 1) : i + 1 \in 1..((k + 1) - 1) /\ t[i] = s[i + 1]
      /\ \A i \in 1..((k + 1) - 1) : i = 1 \/ (i - 1 \in 1..(k - 1) /\ t[i - 1] = s[i])
  <2>1. /\ k \in Nat /\ k + 1 \in 1..Len(s) /\ t[k] = s[k + 1] /\ k \in 1..(Len(t) + 1)
    BY <1>1, TailCalls
  <2> QED BY <1>1, <2>1, TailBefore
<1>3. Harmless(o) /\ Free(d, o)
  <2>1. o.op = "move" => ~DirExists(d, o.to.dir)
    BY <1>1 DEF OpsOK, Guarded
  <2> QED BY <1>1, <2>1 DEF OpsOK, Free
<1>4. Fits(V, d, s, 1) /\ Fits(V, d, s, k + 1)
  BY <1>1, <1>2
<1>5. FitsNames(o)
  BY <1>4 DEF Fits
<1>6. ASSUME NEW p, Staging(p)
      PROVE  /\ Has(e, p) => \/ Has(d, p)
                             \/ o.op \in {"create", "put"} /\ o.path = p
                             \/ o.op = "rename" /\ o.to = p
             /\ o.op = "remove" /\ o.path = p => ~Has(e, p)
  BY <1>3, <1>6, StagingEffect
<1>7. Kept(d, e)
  BY <1>3, CallKept
<1>8. ASSUME NEW p, NEW x, Staging(p), Comes(d, s, k + 1, p, x) PROVE Comes(e, t, k, p, x)
  <2>1. k \in 1..(Len(t) + 1)
    BY <1>1, TailCalls
  <2> QED BY <1>1, <1>3, <1>8, <2>1, ComesTail
<1>9. ASSUME o.op = "move", o.to.dir[1] = "revision" PROVE Whole(e, o.to.dir, o.to.dir[3])
  BY <1>3, <1>4, <1>9, MoveWhole DEF Fits, FitsMove
<1> HIDE DEF e, t
<1>10. ASSUME NEW p, NotBefore(s, k + 1, p) PROVE NotBefore(t, k, p) /\ ~(o.op = "rename" /\ o.to = p)
  <2>1. ~(o.op = "rename" /\ o.to = p)
    BY <1>2, <1>10 DEF NotBefore
  <2>2. ASSUME NEW i \in 1..(k - 1) PROVE t[i].op = "rename" => t[i].to # p
    <3>1. i + 1 \in 1..((k + 1) - 1) /\ t[i] = s[i + 1]
      BY <1>2
    <3> QED BY <1>10, <3>1 DEF NotBefore
  <2> QED BY <2>1, <2>2 DEF NotBefore
<1>11. ASSUME NEW p, Staging(p), p.name \in {"page.yaml", "checkpoint.json"},
              NotBefore(s, k + 1, p), ~Has(d, p)
       PROVE  ~Has(e, p)
  BY <1>5, <1>6, <1>10, <1>11 DEF FitsNames
<1>12. FitsRemove(e, t, k)
  <2> SUFFICES ASSUME t[k].op = "remove", Staging(t[k].path), t[k].path.name = "page.yaml"
               PROVE  LET c == Checkpoint(t[k].path.dir)
                      IN  /\ NotBefore(t, k, c)
                          /\ \/ ~Has(e, c)
                             \/ \E i \in 1..(k - 1) : t[i].op = "remove" /\ t[i].path = c
    BY DEF FitsRemove
  <2> DEFINE c == Checkpoint(t[k].path.dir)
  <2>1. Staging(c) /\ c.name = "checkpoint.json"
    BY PathFacts DEF Staging
  <2>2. /\ NotBefore(s, k + 1, c)
        /\ \/ ~Has(d, c)
           \/ \E i \in 1..((k + 1) - 1) : s[i].op = "remove" /\ s[i].path = c
    BY <1>2, <1>4 DEF Fits, FitsRemove
  <2> HIDE DEF c
  <2>3. NotBefore(t, k, c)
    BY <1>10, <2>2
  <2>4. CASE ~Has(d, c)
    BY <1>11, <2>1, <2>2, <2>3, <2>4 DEF c
  <2>5. ASSUME NEW i \in 1..((k + 1) - 1), s[i].op = "remove", s[i].path = c
        PROVE  ~Has(e, c) \/ \E j \in 1..(k - 1) : t[j].op = "remove" /\ t[j].path = c
    <3>1. CASE i = 1
      BY <1>6, <2>1, <2>5, <3>1
    <3>2. CASE i # 1
      BY <1>2, <2>5, <3>2
    <3> QED BY <3>1, <3>2
  <2> QED BY <2>2, <2>3, <2>4, <2>5 DEF c
<1>13. FitsMeta(e, t, k)
  <2> SUFFICES ASSUME Renames(t[k], "page.yaml")
               PROVE  /\ t[k].to.n \in Nat /\ ~Has(e, t[k].to) /\ NotBefore(t, k, t[k].to)
                      /\ Comes(e, t, k, PageObject(t[k].to.dir, t[k].to.n), t[k].data)
    BY DEF FitsMeta
  <2> DEFINE p == t[k].to
             q == PageObject(p.dir, p.n)
  <2>1. /\ p.n \in Nat /\ ~Has(d, p) /\ NotBefore(s, k + 1, p) /\ Comes(d, s, k + 1, q, t[k].data)
    BY <1>2, <1>4 DEF Fits, FitsMeta
  <2>2. Staging(p) /\ p.name = "page.yaml" /\ Staging(q)
    BY PathFacts DEF Renames, Staging
  <2> HIDE DEF p, q
  <2>3. NotBefore(t, k, p) /\ ~Has(e, p)
    BY <1>10, <1>11, <2>1, <2>2
  <2>4. Comes(e, t, k, q, t[k].data)
    BY <1>8, <2>1, <2>2
  <2> QED BY <2>1, <2>3, <2>4 DEF p, q
<1>14. FitsObject(e, t, k)
  <2> SUFFICES ASSUME Renames(t[k], "page.zst")
               PROVE  /\ ~Has(e, PageMeta(t[k].to.dir, t[k].to.n))
                      /\ NotBefore(t, k, PageMeta(t[k].to.dir, t[k].to.n))
    BY DEF FitsObject
  <2> DEFINE m == PageMeta(t[k].to.dir, t[k].to.n)
  <2>1. ~Has(d, m) /\ NotBefore(s, k + 1, m)
    BY <1>2, <1>4 DEF Fits, FitsObject
  <2>2. Staging(m) /\ m.name = "page.yaml"
    BY PathFacts DEF Renames, Staging
  <2> HIDE DEF m
  <2>3. NotBefore(t, k, m) /\ ~Has(e, m)
    BY <1>10, <1>11, <2>1, <2>2
  <2> QED BY <2>3 DEF m
<1>15. FitsCheckpoint(V, e, t, k)
  <2> SUFFICES ASSUME Renames(t[k], "checkpoint.json")
               PROVE  \E pages : /\ Linked(V, t[k].data, pages) /\ t[k].data.committed # 0
                                 /\ \A i \in 1..Len(pages) :
                                      Comes(e, t, k, PageMeta(t[k].to.dir, i - 1), pages[i])
    BY DEF FitsCheckpoint
  <2>1. PICK pages : /\ Linked(V, t[k].data, pages) /\ t[k].data.committed # 0
                     /\ \A i \in 1..Len(pages) :
                          Comes(d, s, k + 1, PageMeta(t[k].to.dir, i - 1), pages[i])
    BY <1>2, <1>4 DEF Fits, FitsCheckpoint
  <2>2. \A i : Staging(PageMeta(t[k].to.dir, i - 1))
    BY PathFacts DEF Renames, Staging
  <2>3. \A i \in 1..Len(pages) : Comes(e, t, k, PageMeta(t[k].to.dir, i - 1), pages[i])
    BY <1>8, <2>1, <2>2
  <2> QED BY <2>1, <2>3
<1>16. FitsMove(e, t, k)
  <2> SUFFICES ASSUME t[k].op = "move", t[k].to.dir[1] = "revision"
               PROVE  Staging(t[k].path) /\ WholeSoon(e, t, k, t[k].path.dir, t[k].to.dir[3])
    BY DEF FitsMove
  <2> DEFINE dir == t[k].path.dir
             r == t[k].to.dir[3]
  <2>1. Staging(t[k].path) /\ WholeSoon(d, s, k + 1, dir, r)
    BY <1>2, <1>4 DEF Fits, FitsMove
  <2>2. /\ \A name : Staging(File(dir, name))
        /\ \A i : Staging(PageObject(dir, i - 1))
    BY <2>1, PathFacts DEF Staging, File
  <2> HIDE DEF dir, r
  <2>3. WholeSoon(e, t, k, dir, r)
    BY <1>8, <2>1, <2>2 DEF WholeSoon
  <2> QED BY <2>1, <2>3 DEF dir, r
<1>17. FitsPointer(e, t, k)
  <2> SUFFICES ASSUME t[k].op = "rename", t[k].to.dir[1] = "source", t[k].to.name = "current.yaml"
               PROVE  LET dir == <<"revision", t[k].to.dir[2], t[k].data>>
                      IN  \/ Whole(e, dir, t[k].data)
                          \/ \E i \in 1..(k - 1) : t[i].op = "move" /\ t[i].to.dir = dir
    BY DEF FitsPointer
  <2> DEFINE dir == <<"revision", t[k].to.dir[2], t[k].data>>
  <2>1. dir[1] = "revision" /\ dir[3] = t[k].data
    OBVIOUS
  <2>2. \/ Whole(d, dir, t[k].data)
        \/ \E i \in 1..((k + 1) - 1) : s[i].op = "move" /\ s[i].to.dir = dir
    BY <1>2, <1>4 DEF Fits, FitsPointer
  <2> HIDE DEF dir
  <2>3. CASE Whole(d, dir, t[k].data)
    BY <1>7, <2>1, <2>3, WholeKept DEF dir
  <2>4. ASSUME NEW i \in 1..((k + 1) - 1), s[i].op = "move", s[i].to.dir = dir
        PROVE  \/ Whole(e, dir, t[k].data)
               \/ \E j \in 1..(k - 1) : t[j].op = "move" /\ t[j].to.dir = dir
    <3>1. CASE i = 1
      BY <1>9, <2>1, <2>4, <3>1
    <3>2. CASE i # 1
      BY <1>2, <2>4, <3>2
    <3> QED BY <3>1, <3>2
  <2> QED BY <2>2, <2>3, <2>4 DEF dir
<1>18. FitsNames(t[k])
  BY <1>2, <1>4 DEF Fits
<1>19. Fits(V, e, t, k)
  BY <1>12, <1>13, <1>14, <1>15, <1>16, <1>17, <1>18 DEF Fits
<1> QED BY <1>19 DEF e, t

\* Calls that need nothing of the disk.
Plain(o) ==
    /\ FitsNames(o)
    /\ ~(o.op = "remove" /\ Staging(o.path) /\ o.path.name = "page.yaml")
    /\ ~Renames(o, "page.yaml") /\ ~Renames(o, "page.zst") /\ ~Renames(o, "checkpoint.json")
    /\ ~(o.op = "move" /\ o.to.dir[1] = "revision")
    /\ ~(o.op = "rename" /\ o.to.dir[1] = "source" /\ o.to.name = "current.yaml")

LEMMA PlainFits ==
    ASSUME NEW V, NEW d, NEW s, NEW k, Plain(s[k])
    PROVE  Fits(V, d, s, k)
BY DEF Plain, Fits, FitsRemove, FitsMeta, FitsObject, FitsCheckpoint, FitsMove, FitsPointer

\* A list of plain calls, and what joining does.
AllPlain(s) == IsSeq(s) /\ \A k \in 1..Len(s) : Plain(s[k])

LEMMA ConcatAt ==
    ASSUME NEW s, NEW t, IsSeq(s), IsSeq(t)
    PROVE  /\ IsSeq(s \o t) /\ Len(s) \in Nat /\ Len(t) \in Nat /\ Len(s \o t) = Len(s) + Len(t)
           /\ \A k \in 1..Len(s) : (s \o t)[k] = s[k]
           /\ \A k \in 1..Len(t) : (s \o t)[Len(s) + k] = t[k]
           /\ \A k \in 1..(Len(s) + Len(t)) : \/ k \in 1..Len(s)
                                              \/ k - Len(s) \in 1..Len(t) /\ k = Len(s) + (k - Len(s))
<1> DEFINE n == Len(s)
           m == Len(t)
           u == s \o t
<1>1. IsSeq(u) /\ Len(u) = n + m /\ (\A k \in 1..n : u[k] = s[k])
      /\ \A k \in (n + 1)..(n + m) : u[k] = t[k - n]
  BY ConcatFacts
<1>2. n \in Nat /\ m \in Nat
  BY SeqFacts
<1> HIDE DEF n, m, u
<1>3. ASSUME NEW k \in 1..m PROVE u[n + k] = t[k]
  <2>1. n + k \in (n + 1)..(n + m) /\ (n + k) - n = k
    BY <1>2
  <2> QED BY <1>1, <2>1
<1>4. \A k \in 1..(n + m) : k \in 1..n \/ (k - n \in 1..m /\ k = n + (k - n))
  BY <1>2
<1> QED BY <1>1, <1>2, <1>3, <1>4 DEF n, m, u

LEMMA ConcatLen ==
    ASSUME NEW s, NEW t, NEW a, NEW b, IsSeq(s), IsSeq(t), Len(s) = a, Len(t) = b
    PROVE  /\ IsSeq(s \o t) /\ Len(s \o t) = a + b
           /\ \A k \in 1..a : (s \o t)[k] = s[k]
           /\ \A k \in 1..b : (s \o t)[a + k] = t[k]
BY ConcatAt

LEMMA PlainConcat ==
    ASSUME NEW s, NEW t, AllPlain(s), AllPlain(t)
    PROVE  AllPlain(s \o t)
<1> DEFINE n == Len(s)
           m == Len(t)
           u == s \o t
<1>1. /\ IsSeq(u) /\ Len(u) = n + m
      /\ \A k \in 1..n : u[k] = s[k]
      /\ \A k \in 1..m : u[n + k] = t[k]
      /\ \A k \in 1..(n + m) : k \in 1..n \/ (k - n \in 1..m /\ k = n + (k - n))
  BY ConcatAt DEF AllPlain
<1>2. (\A k \in 1..n : Plain(s[k])) /\ (\A k \in 1..m : Plain(t[k]))
  BY DEF AllPlain
<1> HIDE DEF n, m, u
<1>3. \A k \in 1..Len(u) : Plain(u[k])
  BY <1>1, <1>2
<1> QED BY <1>1, <1>3 DEF AllPlain, u

LEMMA PlainTuples ==
    /\ AllPlain(<<>>)
    /\ \A a : Plain(a) => AllPlain(<<a>>)
    /\ \A a, b : Plain(a) /\ Plain(b) => AllPlain(<<a, b>>)
<1>1. AllPlain(<<>>)
  BY TupleFacts DEF AllPlain
<1>2. ASSUME NEW a, Plain(a) PROVE AllPlain(<<a>>)
  <2>1. IsSeq(<<a>>) /\ \A k \in 1..Len(<<a>>) : <<a>>[k] = a
    BY TupleFacts
  <2> QED BY <1>2, <2>1 DEF AllPlain
<1>3. ASSUME NEW a, NEW b, Plain(a), Plain(b) PROVE AllPlain(<<a, b>>)
  <2>1. IsSeq(<<a, b>>) /\ \A k \in 1..Len(<<a, b>>) : <<a, b>>[k] = a \/ <<a, b>>[k] = b
    BY TupleFacts
  <2> QED BY <1>3, <2>1 DEF AllPlain
<1> QED BY <1>1, <1>2, <1>3

\* Calls outside the attempts, and tests, are plain; so are moves that publish
\* no revision and renames that do not make current.yaml.
LEMMA PlainCalls ==
    /\ \A p : ~Staging(p) => Plain(Create(p))
    /\ \A p, data : ~Staging(p) \/ p.name = "." => Plain(Put(p, data))
    /\ \A p, to, data : ~Staging(p) /\ ~Staging(to) /\ to.name # "current.yaml" => Plain(Rename(p, to, data))
    /\ \A dir, error : Plain(Absent(dir, error))
    /\ \A dir, to : to[1] # "revision" => Plain(MoveDir(dir, to))
<1>1. ASSUME NEW p, ~Staging(p) PROVE Plain(Create(p))
  <2> DEFINE o == Create(p)
  <2>1. o.op = "create" /\ o.path = p
    BY DEF Create, Call
  <2> HIDE DEF o
  <2>2. Plain(o)
    BY <1>1, <2>1 DEF Plain, FitsNames, Renames
  <2> QED BY <2>2 DEF o
<1>2. ASSUME NEW p, NEW data, ~Staging(p) \/ p.name = "." PROVE Plain(Put(p, data))
  <2> DEFINE o == Put(p, data)
  <2>1. o.op = "put" /\ o.path = p
    BY DEF Put, Call
  <2> HIDE DEF o
  <2>2. Plain(o)
    BY <1>2, <2>1 DEF Plain, FitsNames, Renames
  <2> QED BY <2>2 DEF o
<1>3. ASSUME NEW p, NEW to, NEW data, ~Staging(p), ~Staging(to), to.name # "current.yaml"
      PROVE  Plain(Rename(p, to, data))
  <2> DEFINE o == Rename(p, to, data)
  <2>1. o.op = "rename" /\ o.path = p /\ o.to = to
    BY DEF Rename, Call
  <2> HIDE DEF o
  <2>2. Plain(o)
    BY <1>3, <2>1 DEF Plain, FitsNames, Renames
  <2> QED BY <2>2 DEF o
<1>4. ASSUME NEW dir, NEW error PROVE Plain(Absent(dir, error))
  <2> DEFINE o == Absent(dir, error)
  <2>1. o.op = "absent"
    BY DEF Absent, Call
  <2> HIDE DEF o
  <2>2. Plain(o)
    BY <2>1 DEF Plain, FitsNames, Renames
  <2> QED BY <2>2 DEF o
<1>5. ASSUME NEW dir, NEW to, to[1] # "revision" PROVE Plain(MoveDir(dir, to))
  <2> DEFINE o == MoveDir(dir, to)
  <2>1. o.op = "move" /\ o.to.dir = to
    BY DEF MoveDir, Call, DirMark, File, At
  <2> HIDE DEF o
  <2>2. Plain(o)
    BY <1>5, <2>1 DEF Plain, FitsNames, Renames
  <2> QED BY <2>2 DEF o
<1> QED BY <1>1, <1>2, <1>3, <1>4, <1>5

\* create_for_partition
LEMMA CreatePlain ==
    ASSUME NEW d, NEW key
    PROVE  AllPlain(CreateOps(d, key))
<1> DEFINE mark == <<MakeDir(Attempt(key))>>
           tmp == File(SourceRoot(key), "partition.tmp")
           to == PartitionFile(key)
<1>1. AllPlain(mark)
  <2>1. DirMark(Attempt(key)).name = "."
    BY DEF DirMark, File, At
  <2>2. MakeDir(Attempt(key)) = Put(DirMark(Attempt(key)), "dir")
    BY DEF MakeDir, Put
  <2> QED BY <2>1, <2>2, PlainCalls, PlainTuples
<1>2. ~Staging(tmp) /\ ~Staging(to) /\ to.name # "current.yaml"
  BY DEF Staging, PartitionFile, File, At, SourceRoot
<1>3. AllPlain(LayoutOps(d, key))
  <2>1. Plain(Put(tmp, "tmp")) /\ Plain(Rename(tmp, to, key))
    BY <1>2, PlainCalls
  <2> HIDE DEF tmp, to
  <2>2. AllPlain(<<Put(tmp, "tmp"), Rename(tmp, to, key)>>)
    BY <2>1, PlainTuples
  <2> QED BY <2>2, PlainTuples DEF LayoutOps, tmp, to
<1> QED BY <1>1, <1>3, PlainConcat DEF CreateOps

\* publish_events
LEMMA CachePlain ==
    ASSUME NEW key, NEW descriptor
    PROVE  AllPlain(CacheOps(key, descriptor))
<1> DEFINE dir == CacheBuild(key)
           place == CacheDir(key, CacheIdentity(descriptor))
           begin == <<Absent(dir, "BuildAlreadyExists"), MakeDir(dir)>>
           events == WriteAtomic(File(dir, "events.bin"), File(dir, "events.bin.tmp"),
                                 descriptor.events)
           describe == WriteAtomic(File(dir, "descriptor.yaml"), File(dir, "descriptor.tmp"),
                                   descriptor)
           move == <<Absent(place, "CacheAlreadyExists"), MoveDir(dir, place)>>
<1>1. CacheOps(key, descriptor) = begin \o events \o describe \o move
  BY DEF CacheOps
<1>2. /\ \A name : ~Staging(File(dir, name)) /\ File(dir, name).name = name
      /\ DirMark(dir).name = "." /\ place[1] # "revision"
  BY DEF Staging, File, At, CacheBuild, CacheDir, DirMark
<1> HIDE DEF dir, place
<1>3. AllPlain(begin)
  <2>1. MakeDir(dir) = Put(DirMark(dir), "dir")
    BY DEF MakeDir, Put
  <2> QED BY <1>2, <2>1, PlainCalls, PlainTuples
<1>4. AllPlain(events) /\ AllPlain(describe)
  BY <1>2, PlainCalls, PlainTuples DEF WriteAtomic
<1>5. AllPlain(move)
  BY <1>2, PlainCalls, PlainTuples
<1> HIDE DEF begin, events, describe, move
<1> QED BY <1>1, <1>3, <1>4, <1>5, PlainConcat

\* publish_artifacts
LEMMA ArtifactsPlain ==
    ASSUME NEW o, NEW files
    PROVE  AllPlain(PublishArtifacts(o, files))
<1> DEFINE dir == OutputStaging(o)
           out == OutputDir(o)
           begin == <<Absent(out, "OutputExists"), Absent(dir, "OutputExists"), MakeDir(dir)>>
           f == [i \in 1..Len(ArtifactFiles) |->
                   Put(File(dir, ArtifactFiles[i]), files[ArtifactFiles[i]])]
<1>1. PublishArtifacts(o, files) = begin \o f \o <<MoveDir(dir, out)>>
  BY DEF PublishArtifacts
<1>2. /\ \A name : ~Staging(File(dir, name)) /\ File(dir, name).name = name
      /\ DirMark(dir).name = "." /\ out[1] # "revision"
  BY DEF Staging, File, At, OutputStaging, OutputDir, DirMark
<1> HIDE DEF dir, out
<1>3. AllPlain(begin)
  <2>1. ASSUME NEW a, NEW b, NEW c, Plain(a), Plain(b), Plain(c) PROVE AllPlain(<<a, b, c>>)
    <3>1. <<a, b, c>> \in Seq({a, b, c}) /\ Len(<<a, b, c>>) = 3
      OBVIOUS
    <3>2. \A k \in 1..3 : <<a, b, c>>[k] \in {a, b, c}
      OBVIOUS
    <3>3. \A S, t : t \in Seq(S) => IsSeq(t)
      BY DEF IsSeq
    <3>4. IsSeq(<<a, b, c>>)
      BY <3>1, <3>3
    <3> QED BY <2>1, <3>1, <3>2, <3>4 DEF AllPlain
  <2>2. MakeDir(dir) = Put(DirMark(dir), "dir")
    BY DEF MakeDir, Put
  <2>3. /\ Plain(Absent(out, "OutputExists")) /\ Plain(Absent(dir, "OutputExists"))
        /\ Plain(MakeDir(dir))
    BY <1>2, <2>2, PlainCalls
  <2> QED BY <2>1, <2>3
<1>4. AllPlain(f)
  <2>1. Len(ArtifactFiles) = 3
    BY DEF ArtifactFiles
  <2>2. f \in Seq({f[i] : i \in 1..3}) /\ Len(f) = 3
    BY <2>1
  <2>3. \A i \in 1..3 : f[i] = Put(File(dir, ArtifactFiles[i]), files[ArtifactFiles[i]])
    BY <2>1
  <2> HIDE DEF f
  <2>4. \A i \in 1..3 : Plain(f[i])
    BY <1>2, <2>3, PlainCalls
  <2> QED BY <2>2, <2>4 DEF AllPlain, IsSeq
<1>5. AllPlain(<<MoveDir(dir, out)>>)
  BY <1>2, PlainCalls, PlainTuples
<1> HIDE DEF begin, f
<1> QED BY <1>1, <1>3, <1>4, <1>5, PlainConcat

\* An accepted page extends the chain: it is not the last already, and its
\* cursor is none of those seen (accept_response, commit_page).
LEMMA LinkedCommit ==
    ASSUME NEW V, NEW c, NEW pages, NEW page, Linked(V, c, pages), ~c.terminal,
           Answer(c, page) = "accepted", \A v \in V : page = Archive(v, c.query, c.next)
    PROVE  /\ Linked(V, Committed(c, page), Append(pages, page))
           /\ Committed(c, page).committed # 0
           /\ Committed(c, page).committed = Len(pages) + 1
           /\ Committed(c, page).query = c.query
<1> DEFINE n == Len(pages)
           all == Append(pages, page)
           b == Committed(c, page)
<1>1. Counted(c) /\ IsSeq(pages) /\ n = c.committed /\ n \in Nat
  BY SeqFacts DEF Linked
<1>2. /\ IsSeq(all) /\ Len(all) = n + 1 /\ all[n + 1] = page
      /\ \A i \in 1..n : all[i] = pages[i]
  BY <1>1, AppendFacts
<1>3. /\ DOMAIN b = DOMAIN c /\ b.committed = n + 1 /\ b.next = page.next
      /\ b.cursors = (IF page.next = 0 THEN c.cursors ELSE c.cursors \cup {page.next})
      /\ b.terminal = (page.next = 0) /\ b.query = c.query
  BY <1>1 DEF Committed, Counted
<1>4. page.next # 0 => page.next \notin c.cursors \cup {c.next}
  BY DEF Answer
<1>5. \A i \in 1..n : pages[i].next # 0
  <2> SUFFICES ASSUME NEW i \in 1..n PROVE pages[i].next # 0
    OBVIOUS
  <2>1. CASE i \in 1..(n - 1)
    BY <2>1 DEF Linked, IsChain
  <2>2. CASE i \notin 1..(n - 1)
    <3>1. i = n /\ n # 0
      BY <1>1, <2>2
    <3> QED BY <1>1, <3>1 DEF Linked
  <2> QED BY <2>1, <2>2
<1>6. \A i \in 1..n : pages[i].next \in c.cursors
  BY <1>5 DEF Linked
<1> HIDE DEF n, all, b
<1>7. \A i \in 1..(n + 1) : i \in 1..n \/ i = n + 1
  BY <1>1
<1>8. IsChain(all)
  <2>1. ASSUME NEW i \in 1..(Len(all) - 1) PROVE all[i].next # 0
    <3>1. i \in 1..n
      BY <1>1, <1>2
    <3> QED BY <1>2, <1>5, <3>1
  <2>2. ASSUME NEW i \in 1..n PROVE all[i].next # page.next
    BY <1>2, <1>4, <1>5, <1>6
  <2>3. ASSUME NEW i \in 1..n, NEW j \in 1..n, i # j PROVE all[i].next # all[j].next
    BY <1>2, <2>3 DEF Linked, IsChain, n
  <2>4. ASSUME NEW i \in 1..(n + 1), NEW j \in 1..(n + 1), i # j PROVE all[i].next # all[j].next
    BY <1>2, <1>7, <2>2, <2>3, <2>4
  <2> QED BY <1>2, <2>1, <2>4 DEF IsChain
<1>9. \A i \in 1..Len(all) : all[i].next # 0 => all[i].next \in b.cursors
  BY <1>2, <1>3, <1>6, <1>7
<1>10. Counted(b) /\ b.committed # 0
  BY <1>1, <1>3 DEF Counted
<1>11. Asked(V, b.query, all)
  <2> DEFINE AskedBy(seq, i) == IF i = 1 THEN 0 ELSE seq[i - 1].next
  <2> SUFFICES ASSUME NEW v \in V, NEW i \in 1..Len(all)
               PROVE  all[i] = Archive(v, b.query, AskedBy(all, i))
    BY DEF Asked
  <2>1. CASE i \in 1..n
    <3>1. AskedBy(all, i) = AskedBy(pages, i)
      <4>1. i = 1 \/ i - 1 \in 1..n
        BY <1>1, <2>1
      <4> QED BY <1>2, <4>1
    <3>2. pages[i] = Archive(v, c.query, AskedBy(pages, i))
      BY <2>1 DEF Linked, Asked, n
    <3> QED BY <1>2, <1>3, <2>1, <3>1, <3>2
  <2>2. CASE i = n + 1
    <3>1. AskedBy(all, i) = c.next
      <4>1. CASE n = 0
        BY <1>1, <2>2, <4>1 DEF Linked
      <4>2. CASE n # 0
        <5>1. i # 1 /\ i - 1 = n /\ n \in 1..n
          BY <1>1, <2>2, <4>2
        <5>2. c.next = pages[n].next
          BY <1>1, <4>2 DEF Linked
        <5> QED BY <1>2, <5>1, <5>2
      <4> QED BY <4>1, <4>2
    <3> QED BY <1>2, <1>3, <2>2, <3>1
  <2> QED BY <1>2, <1>7, <2>1, <2>2
<1>12. Linked(V, b, all)
  BY <1>1, <1>2, <1>3, <1>8, <1>9, <1>10, <1>11 DEF Linked
<1> QED BY <1>3, <1>10, <1>12 DEF n, all, b

\* What each kind of call is.
LEMMA CallFields ==
    /\ \A p : Create(p).op = "create" /\ Create(p).path = p
    /\ \A p, to, x : LET o == Rename(p, to, x)
                     IN  o.op = "rename" /\ o.path = p /\ o.to = to /\ o.data = x
    /\ \A p : Unlink(p).op = "remove" /\ Unlink(p).path = p
    /\ \A dir, error : Absent(dir, error).op = "absent"
    /\ \A dir, to : LET o == MoveDir(dir, to)
                    IN  o.op = "move" /\ o.path = DirMark(dir) /\ o.to = DirMark(to)
BY DEF Create, Rename, Unlink, Absent, MoveDir, Call

\* WriteAtomic is two calls.
LEMMA WriteFields ==
    ASSUME NEW p, NEW tmp, NEW x
    PROVE  LET s == WriteAtomic(p, tmp, x)
           IN  IsSeq(s) /\ Len(s) = 2 /\ s[1] = Create(tmp) /\ s[2] = Rename(tmp, p, x)
BY TupleFacts DEF WriteAtomic

\* Files of one directory differ if their names or numbers do.
LEMMA PathsDiffer ==
    \A dir, f, g, i, j : (f # g \/ i # j) => At(dir, f, i) # At(dir, g, j)
BY DEF At

\* Calls on files of an attempt that the checks do not look at.
Special == {"page.zst", "page.yaml", "checkpoint.json"}
LEMMA PlainNamed ==
    /\ \A p : p.name \notin Special => Plain(Create(p))
    /\ \A p, to, x : p.name \notin Special /\ to.name \notin Special \cup {"current.yaml"} =>
         Plain(Rename(p, to, x))
    /\ \A p : p.name \notin {"page.zst", "page.yaml"} => Plain(Unlink(p))
<1>1. ASSUME NEW p, p.name \notin Special PROVE Plain(Create(p))
  <2> DEFINE o == Create(p)
  <2>1. o.op = "create" /\ o.path = p
    BY CallFields
  <2> HIDE DEF o
  <2>2. Plain(o)
    BY <1>1, <2>1 DEF Plain, FitsNames, Renames, Special
  <2> QED BY <2>2 DEF o
<1>2. ASSUME NEW p, NEW to, NEW x, p.name \notin Special, to.name \notin Special \cup {"current.yaml"}
      PROVE  Plain(Rename(p, to, x))
  <2> DEFINE o == Rename(p, to, x)
  <2>1. o.op = "rename" /\ o.path = p /\ o.to = to
    BY CallFields
  <2> HIDE DEF o
  <2>2. Plain(o)
    BY <1>2, <2>1 DEF Plain, FitsNames, Renames, Special
  <2> QED BY <2>2 DEF o
<1>3. ASSUME NEW p, p.name \notin {"page.zst", "page.yaml"} PROVE Plain(Unlink(p))
  <2> DEFINE o == Unlink(p)
  <2>1. o.op = "remove" /\ o.path = p
    BY CallFields
  <2> HIDE DEF o
  <2>2. Plain(o)
    BY <1>3, <2>1 DEF Plain, FitsNames, Renames
  <2> QED BY <2>2 DEF o
<1> QED BY <1>1, <1>2, <1>3

\* A rename into the attempt that needs one thing of the disk.
LEMMA RenameFits ==
    ASSUME NEW V, NEW d, NEW s, NEW k, NEW p, NEW to, NEW x, s[k] = Rename(p, to, x),
           p.name \notin Special, Staging(to),
           \/ to.name = "page.zst" /\ FitsObject(d, s, k)
           \/ to.name = "page.yaml" /\ FitsMeta(d, s, k)
           \/ to.name = "checkpoint.json" /\ FitsCheckpoint(V, d, s, k)
    PROVE  Fits(V, d, s, k)
<1>1. s[k].op = "rename" /\ s[k].path = p /\ s[k].to = to
  BY CallFields
<1>2. to.dir[1] = "staging"
  BY DEF Staging
<1>3. FitsNames(s[k])
  BY <1>1 DEF FitsNames, Special
<1>4. FitsRemove(d, s, k) /\ FitsMove(d, s, k) /\ FitsPointer(d, s, k)
  BY <1>1, <1>2 DEF FitsRemove, FitsMove, FitsPointer
<1>5. /\ to.name # "page.zst" => FitsObject(d, s, k)
      /\ to.name # "page.yaml" => FitsMeta(d, s, k)
      /\ to.name # "checkpoint.json" => FitsCheckpoint(V, d, s, k)
  BY <1>1 DEF FitsObject, FitsMeta, FitsCheckpoint, Renames
<1> QED BY <1>3, <1>4, <1>5 DEF Fits

\* Saving a page: the calls fit, and in the end every page has its metadata and
\* its object.
Saved(V, d, s, dir, pages) ==
    /\ \A k \in 1..Len(s) : Fits(V, d, s, k)
    /\ \A i \in 1..Len(pages) : /\ Comes(d, s, Len(s) + 1, PageMeta(dir, i - 1), pages[i])
                                /\ Comes(d, s, Len(s) + 1, PageObject(dir, i - 1), pages[i])

\* The page was staged already: only the checkpoint is written.
LEMMA SaveKnown ==
    ASSUME NEW V, NEW d, NEW dir, NEW c, NEW all, dir[1] = "staging",
           Linked(V, c, all), c.committed # 0,
           \A i \in 1..Len(all) : /\ ObjectVerifies(d, PageMeta(dir, i - 1), all[i])
                                  /\ ObjectVerifies(d, PageObject(dir, i - 1), all[i])
    PROVE  Saved(V, d, SaveCheckpoint(dir, c), dir, all)
<1> DEFINE cj == Checkpoint(dir)
           ct == File(dir, "checkpoint.tmp")
           s == SaveCheckpoint(dir, c)
<1>1. Len(s) = 2 /\ s[1] = Create(ct) /\ s[2] = Rename(ct, cj, c)
  BY WriteFields DEF SaveCheckpoint
<1>2. /\ ct.name = "checkpoint.tmp" /\ ct.dir = dir /\ cj.name = "checkpoint.json" /\ cj.dir = dir
      /\ Staging(cj)
  BY PathFacts DEF File, Staging
<1>3. \A i : /\ PageMeta(dir, i).name = "page.yaml" /\ PageObject(dir, i).name = "page.zst"
  BY PathFacts
<1> HIDE DEF s, ct, cj
<1>4. ASSUME NEW k \in 1..3, NEW p, NEW x, p.name \in {"page.yaml", "page.zst"} PROVE Stays(s, k, p, x)
  <2>1. \A i \in 1..(k - 1) : i = 1 \/ i = 2
    OBVIOUS
  <2>2. s[1].op = "create" /\ s[1].path = ct
    BY <1>1, CallFields
  <2>3. s[2].op = "rename" /\ s[2].path = ct /\ s[2].to = cj
    BY <1>1, CallFields
  <2> QED BY <1>2, <1>4, <2>1, <2>2, <2>3 DEF Stays
<1>5. ASSUME NEW k \in 1..3, NEW i \in 1..Len(all)
      PROVE  /\ Comes(d, s, k, PageMeta(dir, i - 1), all[i])
             /\ Comes(d, s, k, PageObject(dir, i - 1), all[i])
  BY <1>3, <1>4 DEF Comes, ObjectVerifies
<1>6. Fits(V, d, s, 1)
  BY <1>1, <1>2, PlainNamed, PlainFits DEF Special
<1>7. Fits(V, d, s, 2)
  <2>1. s[2].to = cj /\ s[2].data = c
    BY <1>1, CallFields
  <2>2. FitsCheckpoint(V, d, s, 2)
    BY <1>2, <1>5, <2>1 DEF FitsCheckpoint
  <2> QED BY <1>1, <1>2, <2>2, RenameFits DEF Special
<1>8. \A k \in 1..2 : k = 1 \/ k = 2
  OBVIOUS
<1>9. Len(s) + 1 = 3 /\ 3 \in 1..3
  BY <1>1
<1>10. Saved(V, d, s, dir, all)
  BY <1>1, <1>5, <1>6, <1>7, <1>8, <1>9 DEF Saved
<1> QED BY <1>10 DEF s

\* Three operations of two calls each, one after the other.
InSixes(u, v, w, s) ==
    Len(u) = 2 /\ Len(v) = 2 /\ Len(w) = 2 =>
      /\ Len(s) = 6 /\ s[1] = u[1] /\ s[2] = u[2] /\ s[3] = v[1] /\ s[4] = v[2]
      /\ s[5] = w[1] /\ s[6] = w[2]
LEMMA SixCalls ==
    ASSUME NEW u, NEW v, NEW w, IsSeq(u), IsSeq(v), IsSeq(w)
    PROVE  InSixes(u, v, w, (u \o v) \o w)
<1> DEFINE a == u \o v
           s == a \o w
<1>1. /\ IsSeq(a) /\ Len(a) = Len(u) + Len(v)
      /\ \A k \in 1..Len(u) : a[k] = u[k]
      /\ \A k \in 1..Len(v) : a[Len(u) + k] = v[k]
  BY ConcatAt
<1> HIDE DEF a
<1>2. /\ Len(s) = Len(a) + Len(w)
      /\ \A k \in 1..Len(a) : s[k] = a[k]
      /\ \A k \in 1..Len(w) : s[Len(a) + k] = w[k]
  BY <1>1, ConcatAt
<1> HIDE DEF s
<1>3. ASSUME Len(u) = 2, Len(v) = 2, Len(w) = 2
      PROVE  /\ Len(s) = 6 /\ s[1] = u[1] /\ s[2] = u[2] /\ s[3] = v[1] /\ s[4] = v[2]
             /\ s[5] = w[1] /\ s[6] = w[2]
  <2>1. Len(a) = 4 /\ a[1] = u[1] /\ a[2] = u[2] /\ a[3] = v[1] /\ a[4] = v[2]
    BY <1>1, <1>3
  <2>2. Len(s) = 6 /\ s[1] = a[1] /\ s[2] = a[2] /\ s[3] = a[3] /\ s[4] = a[4]
    BY <1>2, <1>3, <2>1
  <2>3. s[5] = w[1] /\ s[6] = w[2]
    BY <1>2, <1>3, <2>1
  <2> QED BY <2>1, <2>2, <2>3
<1> QED BY <1>3 DEF s, a, InSixes

\* The page is new: its object, its metadata and then the checkpoint.
LEMMA SaveNew ==
    ASSUME NEW V, NEW d, NEW dir, NEW c, NEW pages, NEW page, dir[1] = "staging",
           IsSeq(pages), Linked(V, c, Append(pages, page)), c.committed # 0,
           ~Has(d, PageMeta(dir, Len(pages))),
           \A i \in 1..Len(pages) : /\ ObjectVerifies(d, PageMeta(dir, i - 1), pages[i])
                                    /\ ObjectVerifies(d, PageObject(dir, i - 1), pages[i])
    PROVE  Saved(V, d, StagePageOps(d, dir, Len(pages), page) \o SaveCheckpoint(dir, c), dir,
                 Append(pages, page))
<1> DEFINE n == Len(pages)
           all == Append(pages, page)
           z == PageObject(dir, n)
           y == PageMeta(dir, n)
           zt == At(dir, "page.zst.tmp", n)
           yt == At(dir, "page.tmp", n)
           cj == Checkpoint(dir)
           ct == File(dir, "checkpoint.tmp")
           object == WriteAtomic(z, zt, page)
           meta == WriteAtomic(y, yt, page)
           save == WriteAtomic(cj, ct, c)
           s == (object \o meta) \o save
<1>1. StagePageOps(d, dir, n, page) \o SaveCheckpoint(dir, c) = s
  BY DEF StagePageOps, SaveCheckpoint
<1>2. /\ n \in Nat /\ Len(all) = n + 1 /\ all[n + 1] = page /\ \A i \in 1..n : all[i] = pages[i]
  BY SeqFacts, AppendFacts
<1>3. /\ z.name = "page.zst" /\ y.name = "page.yaml" /\ zt.name = "page.zst.tmp"
      /\ yt.name = "page.tmp" /\ cj.name = "checkpoint.json" /\ ct.name = "checkpoint.tmp"
  BY PathFacts DEF File
<1>4. /\ z.dir = dir /\ y.dir = dir /\ cj.dir = dir /\ z.n = n /\ y.n = n
      /\ Staging(z) /\ Staging(y) /\ Staging(cj)
      /\ PageMeta(z.dir, z.n) = y /\ PageObject(y.dir, y.n) = z
  BY PathFacts DEF Staging
<1>5. \A i : /\ PageMeta(dir, i).name = "page.yaml" /\ PageObject(dir, i).name = "page.zst"
             /\ PageMeta(dir, i).n = i /\ PageObject(dir, i).n = i
  BY PathFacts
<1> HIDE DEF zt, yt, cj, ct
<1>6. /\ Len(s) = 6 /\ s[1] = Create(zt) /\ s[2] = Rename(zt, z, page) /\ s[3] = Create(yt)
      /\ s[4] = Rename(yt, y, page) /\ s[5] = Create(ct) /\ s[6] = Rename(ct, cj, c)
  <2> HIDE DEF z, y
  <2>1. /\ IsSeq(object) /\ Len(object) = 2 /\ object[1] = Create(zt) /\ object[2] = Rename(zt, z, page)
        /\ IsSeq(meta) /\ Len(meta) = 2 /\ meta[1] = Create(yt) /\ meta[2] = Rename(yt, y, page)
        /\ IsSeq(save) /\ Len(save) = 2 /\ save[1] = Create(ct) /\ save[2] = Rename(ct, cj, c)
    BY WriteFields
  <2> HIDE DEF object, meta, save
  <2>2. IsSeq(object) /\ IsSeq(meta) /\ IsSeq(save)
    BY <2>1
  <2>3. InSixes(object, meta, save, s)
    BY <2>2, SixCalls, Zenon
  <2> HIDE DEF s
  <2> QED BY <2>1, <2>3 DEF InSixes
<1> HIDE DEF s, object, meta, save, all, n, z, y
<1>7. /\ s[1].op = "create" /\ s[1].path = zt
      /\ s[2].op = "rename" /\ s[2].path = zt /\ s[2].to = z /\ s[2].data = page
      /\ s[3].op = "create" /\ s[3].path = yt
      /\ s[4].op = "rename" /\ s[4].path = yt /\ s[4].to = y /\ s[4].data = page
      /\ s[5].op = "create" /\ s[5].path = ct
      /\ s[6].op = "rename" /\ s[6].path = ct /\ s[6].to = cj /\ s[6].data = c
  BY <1>6, CallFields
<1>8. \A k \in 1..7 : \A i \in 1..(k - 1) : i \in 1..6 /\ i < k
  OBVIOUS
<1>9. \A i \in 1..6 : i = 1 \/ i = 2 \/ i = 3 \/ i = 4 \/ i = 5 \/ i = 6
  OBVIOUS
<1>10. ASSUME NEW k \in 1..7, NEW p, NEW x, p.name \in {"page.yaml", "page.zst"},
              p \in {y, z} => x = page
       PROVE  Stays(s, k, p, x)
  BY <1>3, <1>7, <1>8, <1>9, <1>10, SMTT(30) DEF Stays
<1>11. y # z
  BY <1>3
<1>12. NotBefore(s, 2, y) /\ NotBefore(s, 4, y)
  <2>1. \A i \in 1..(2 - 1) : i = 1
    OBVIOUS
  <2>2. \A i \in 1..(4 - 1) : i = 1 \/ i = 2 \/ i = 3
    OBVIOUS
  <2> QED BY <1>7, <1>11, <2>1, <2>2 DEF NotBefore
<1>13. ASSUME NEW k \in {4, 6, 7} PROVE Comes(d, s, k, z, page)
  <2>1. Stays(s, k, z, page)
    BY <1>3, <1>10
  <2>2. 2 \in 1..(k - 1)
    OBVIOUS
  <2> QED BY <1>7, <2>1, <2>2 DEF Comes
<1>14. ASSUME NEW k \in {6, 7} PROVE Comes(d, s, k, y, page)
  <2>1. Stays(s, k, y, page)
    BY <1>3, <1>10
  <2>2. 4 \in 1..(k - 1)
    OBVIOUS
  <2> QED BY <1>7, <2>1, <2>2 DEF Comes
<1>15. ASSUME NEW k \in {6, 7}, NEW i \in 1..(n + 1)
       PROVE  Comes(d, s, k, PageMeta(dir, i - 1), all[i]) /\ Comes(d, s, k, PageObject(dir, i - 1), all[i])
  <2>1. CASE i = n + 1
    <3>1. i - 1 = n
      BY <1>2, <2>1
    <3> QED BY <1>2, <1>13, <1>14, <2>1, <3>1 DEF y, z
  <2>2. CASE i # n + 1
    <3>1. i \in 1..n /\ i - 1 # n
      BY <1>2, <2>2
    <3> DEFINE p == PageMeta(dir, i - 1)
               q == PageObject(dir, i - 1)
    <3>2. /\ p.name = "page.yaml" /\ q.name = "page.zst" /\ p \notin {y, z} /\ q \notin {y, z}
      <4>1. p.n = i - 1 /\ q.n = i - 1 /\ p.name = "page.yaml" /\ q.name = "page.zst"
        BY <1>5
      <4> HIDE DEF p, q
      <4> QED BY <1>4, <3>1, <4>1
    <3>3. all[i] = pages[i] /\ ObjectVerifies(d, p, pages[i]) /\ ObjectVerifies(d, q, pages[i])
      BY <1>2, <3>1 DEF n
    <3> HIDE DEF p, q
    <3>4. Stays(s, k, p, all[i]) /\ Stays(s, k, q, all[i])
      BY <1>10, <3>2
    <3>5. Comes(d, s, k, p, all[i]) /\ Comes(d, s, k, q, all[i])
      BY <3>3, <3>4 DEF Comes, ObjectVerifies
    <3> QED BY <3>5 DEF p, q
  <2> QED BY <2>1, <2>2
<1>16. Fits(V, d, s, 1) /\ Fits(V, d, s, 3) /\ Fits(V, d, s, 5)
  BY <1>3, <1>6, PlainNamed, PlainFits DEF Special
<1>17. Fits(V, d, s, 2)
  <2>1. FitsObject(d, s, 2)
    BY <1>4, <1>7, <1>12 DEF FitsObject, y, n
  <2> QED BY <1>3, <1>4, <1>6, <2>1, RenameFits DEF Special
<1>18. Fits(V, d, s, 4)
  <2>1. FitsMeta(d, s, 4)
    BY <1>2, <1>4, <1>7, <1>12, <1>13 DEF FitsMeta, y, n
  <2> QED BY <1>3, <1>4, <1>6, <2>1, RenameFits DEF Special
<1>19. Fits(V, d, s, 6)
  <2>1. Linked(V, c, all)
    BY DEF all
  <2>2. FitsCheckpoint(V, d, s, 6)
    BY <1>2, <1>4, <1>7, <1>15, <2>1 DEF FitsCheckpoint
  <2> QED BY <1>3, <1>4, <1>6, <2>2, RenameFits DEF Special
<1>20. Saved(V, d, s, dir, all)
  <2>1. Len(s) + 1 = 7
    BY <1>6
  <2> QED BY <1>2, <1>6, <1>9, <1>15, <1>16, <1>17, <1>18, <1>19, <2>1 DEF Saved
<1> QED BY <1>1, <1>20 DEF all, n

\* Pairs of calls before and after a list of any length, by their number.
Parts(s, a, b, c, m, w, x, y) ==
    LET M == Len(m)
    IN  /\ Len(a) = 2 /\ Len(b) = 2 /\ Len(c) = 2 /\ Len(w) = 2 /\ Len(x) = 2 /\ Len(y) = 2 =>
             /\ Len(s) = M + 12 /\ M \in Nat
             /\ s[1] = a[1] /\ s[2] = a[2] /\ s[3] = b[1] /\ s[4] = b[2]
             /\ s[5] = c[1] /\ s[6] = c[2] /\ \A i \in 1..M : s[6 + i] = m[i]
             /\ s[M + 7] = w[1] /\ s[M + 8] = w[2] /\ s[M + 9] = x[1] /\ s[M + 10] = x[2]
             /\ s[M + 11] = y[1] /\ s[M + 12] = y[2]

LEMMA ManyCalls ==
    ASSUME NEW a, NEW b, NEW c, NEW m, NEW w, NEW x, NEW y, IsSeq(a), IsSeq(b), IsSeq(c),
           IsSeq(m), IsSeq(w), IsSeq(x), IsSeq(y)
    PROVE  Parts((a \o b) \o (((c \o m) \o w) \o (x \o y)), a, b, c, m, w, x, y)
<1> DEFINE M == Len(m)
           ab == a \o b
           cm == c \o m
           cw == cm \o w
           xy == x \o y
           rest == cw \o xy
           s == ab \o rest
<1>1. /\ IsSeq(ab) /\ Len(ab) = Len(a) + Len(b)
      /\ \A k \in 1..Len(a) : ab[k] = a[k]
      /\ \A k \in 1..Len(b) : ab[Len(a) + k] = b[k]
  BY ConcatAt
<1>2. /\ IsSeq(cm) /\ Len(cm) = Len(c) + Len(m) /\ Len(m) \in Nat
      /\ \A k \in 1..Len(c) : cm[k] = c[k]
      /\ \A k \in 1..Len(m) : cm[Len(c) + k] = m[k]
  BY ConcatAt
<1>3. /\ IsSeq(xy) /\ Len(xy) = Len(x) + Len(y)
      /\ \A k \in 1..Len(x) : xy[k] = x[k]
      /\ \A k \in 1..Len(y) : xy[Len(x) + k] = y[k]
  BY ConcatAt
<1> HIDE DEF ab, cm, xy
<1>4. /\ IsSeq(cw) /\ Len(cw) = Len(cm) + Len(w)
      /\ \A k \in 1..Len(cm) : cw[k] = cm[k]
      /\ \A k \in 1..Len(w) : cw[Len(cm) + k] = w[k]
  <2>1. IsSeq(cm)
    BY <1>2
  <2> QED BY <2>1, ConcatAt
<1> HIDE DEF cw
<1>5. /\ IsSeq(rest) /\ Len(rest) = Len(cw) + Len(xy)
      /\ \A k \in 1..Len(cw) : rest[k] = cw[k]
      /\ \A k \in 1..Len(xy) : rest[Len(cw) + k] = xy[k]
  <2>1. IsSeq(cw) /\ IsSeq(xy)
    BY <1>3, <1>4
  <2> QED BY <2>1, ConcatAt
<1> HIDE DEF rest
<1>6. /\ Len(s) = Len(ab) + Len(rest)
      /\ \A k \in 1..Len(ab) : s[k] = ab[k]
      /\ \A k \in 1..Len(rest) : s[Len(ab) + k] = rest[k]
  <2>1. IsSeq(ab) /\ IsSeq(rest)
    BY <1>1, <1>5
  <2> QED BY <2>1, ConcatAt
<1> HIDE DEF s, M
<1>7. ASSUME Len(a) = 2, Len(b) = 2, Len(c) = 2, Len(w) = 2, Len(x) = 2, Len(y) = 2
      PROVE  /\ Len(s) = M + 12 /\ M \in Nat
             /\ s[1] = a[1] /\ s[2] = a[2] /\ s[3] = b[1] /\ s[4] = b[2]
             /\ s[5] = c[1] /\ s[6] = c[2] /\ \A i \in 1..M : s[6 + i] = m[i]
             /\ s[M + 7] = w[1] /\ s[M + 8] = w[2] /\ s[M + 9] = x[1] /\ s[M + 10] = x[2]
             /\ s[M + 11] = y[1] /\ s[M + 12] = y[2]
  <2>1. M \in Nat /\ Len(ab) = 4 /\ Len(cm) = 2 + M /\ Len(cw) = 4 + M /\ Len(xy) = 4 /\ Len(rest) = 8 + M
    BY <1>1, <1>2, <1>3, <1>4, <1>5, <1>7 DEF M
  <2>2. Len(s) = M + 12
    BY <1>6, <2>1
  <2>3. ab[1] = a[1] /\ ab[2] = a[2] /\ ab[3] = b[1] /\ ab[4] = b[2]
    BY <1>1, <1>7
  <2>4. s[1] = ab[1] /\ s[2] = ab[2] /\ s[3] = ab[3] /\ s[4] = ab[4]
    BY <1>6, <2>1
  <2>5. \A k \in 1..(8 + M) : s[4 + k] = rest[k]
    BY <1>6, <2>1
  <2>6. \A k \in 1..(4 + M) : rest[k] = cw[k]
    BY <1>5, <2>1
  <2>7. \A k \in 1..(2 + M) : cw[k] = cm[k]
    BY <1>4, <2>1
  <2>8. cm[1] = c[1] /\ cm[2] = c[2] /\ \A i \in 1..M : cm[2 + i] = m[i]
    BY <1>2, <1>7 DEF M
  <2>9. cw[(2 + M) + 1] = w[1] /\ cw[(2 + M) + 2] = w[2]
    BY <1>4, <1>7, <2>1
  <2>10. /\ rest[(4 + M) + 1] = xy[1] /\ rest[(4 + M) + 2] = xy[2]
         /\ rest[(4 + M) + 3] = xy[3] /\ rest[(4 + M) + 4] = xy[4]
    BY <1>5, <2>1
  <2>11. xy[1] = x[1] /\ xy[2] = x[2] /\ xy[3] = y[1] /\ xy[4] = y[2]
    BY <1>3, <1>7
  <2>12. \A k \in 1..(4 + M) : k \in 1..(8 + M)
    BY <2>1
  <2>13. \A k \in 1..(4 + M) : s[4 + k] = cw[k]
    BY <2>5, <2>6, <2>12
  <2>14. \A k \in 1..(2 + M) : k \in 1..(4 + M)
    BY <2>1
  <2>15. \A k \in 1..(2 + M) : s[4 + k] = cm[k]
    BY <2>7, <2>13, <2>14
  <2>16. s[5] = cm[1] /\ s[6] = cm[2]
    <3>1. 1 \in 1..(2 + M) /\ 2 \in 1..(2 + M) /\ 4 + 1 = 5 /\ 4 + 2 = 6
      BY <2>1
    <3> QED BY <2>15, <3>1
  <2>17. ASSUME NEW i \in 1..M PROVE s[6 + i] = m[i]
    <3>1. 2 + i \in 1..(2 + M) /\ 4 + (2 + i) = 6 + i
      BY <2>1
    <3> QED BY <2>8, <2>15, <3>1
  <2>18. s[M + 7] = w[1] /\ s[M + 8] = w[2]
    <3>1. /\ (2 + M) + 1 \in 1..(4 + M) /\ 4 + ((2 + M) + 1) = M + 7
          /\ (2 + M) + 2 \in 1..(4 + M) /\ 4 + ((2 + M) + 2) = M + 8
      BY <2>1
    <3> QED BY <2>9, <2>13, <3>1
  <2>19. s[M + 9] = xy[1] /\ s[M + 10] = xy[2] /\ s[M + 11] = xy[3] /\ s[M + 12] = xy[4]
    <3>1. /\ (4 + M) + 1 \in 1..(8 + M) /\ 4 + ((4 + M) + 1) = M + 9
          /\ (4 + M) + 2 \in 1..(8 + M) /\ 4 + ((4 + M) + 2) = M + 10
          /\ (4 + M) + 3 \in 1..(8 + M) /\ 4 + ((4 + M) + 3) = M + 11
          /\ (4 + M) + 4 \in 1..(8 + M) /\ 4 + ((4 + M) + 4) = M + 12
      BY <2>1
    <3> QED BY <2>5, <2>10, <3>1
  <2> QED BY <2>1, <2>2, <2>3, <2>4, <2>8, <2>11, <2>16, <2>17, <2>18, <2>19
<1>8. Parts(s, a, b, c, m, w, x, y)
  BY <1>7 DEF Parts, M
<1> QED BY <1>8 DEF s, rest, cw, ab, cm, xy

\* The calls of a publication, by their number.
Publishes(s, key, pages, daily) ==
    LET dir == Attempt(key)
        r == RevisionOf(pages, daily)
        M == Len(pages)
    IN  /\ Len(s) = M + 12 /\ M \in Nat
        /\ s[1] = Create(File(dir, "daily.zst.tmp"))
        /\ s[2] = Rename(File(dir, "daily.zst.tmp"), File(dir, "daily.zst"), daily)
        /\ s[3] = Create(File(dir, "daily.tmp"))
        /\ s[4] = Rename(File(dir, "daily.tmp"), File(dir, "daily.yaml"), daily)
        /\ s[5] = Unlink(Checkpoint(dir)) /\ s[6] = Unlink(File(dir, "daily.yaml"))
        /\ \A i \in 1..M : s[6 + i] = Unlink(PageMeta(dir, i - 1))
        /\ s[M + 7] = Create(File(dir, "manifest.tmp"))
        /\ s[M + 8] = Rename(File(dir, "manifest.tmp"), File(dir, "manifest.yaml"), r)
        /\ s[M + 9] = Absent(RevisionDir(key, r), "RevisionAlreadyExists")
        /\ s[M + 10] = MoveDir(dir, RevisionDir(key, r))
        /\ s[M + 11] = Create(File(SourceRoot(key), "current.tmp"))
        /\ s[M + 12] = Rename(File(SourceRoot(key), "current.tmp"), Current(key), r)

LEMMA PublishCalls ==
    ASSUME NEW key, NEW pages, NEW daily, IsSeq(pages)
    PROVE  Publishes(StageDailyOps(Attempt(key), daily) \o PublishOps(key, RevisionOf(pages, daily)),
                     key, pages, daily)
<1> DEFINE dir == Attempt(key)
           r == RevisionOf(pages, daily)
           M == Len(pages)
           a == WriteAtomic(File(dir, "daily.zst"), File(dir, "daily.zst.tmp"), daily)
           b == WriteAtomic(File(dir, "daily.yaml"), File(dir, "daily.tmp"), daily)
           c == <<Unlink(Checkpoint(dir)), Unlink(File(dir, "daily.yaml"))>>
           m == [i \in 1..Len(r.pages) |-> Unlink(PageMeta(dir, i - 1))]
           w == WriteAtomic(File(dir, "manifest.yaml"), File(dir, "manifest.tmp"), r)
           x == MoveOps(key, r)
           y == PointOps(key, r)
           s == (a \o b) \o (((c \o m) \o w) \o (x \o y))
<1>1. StageDailyOps(dir, daily) \o PublishOps(key, r) = s
  BY DEF StageDailyOps, PublishOps, SealOps
<1>2. r.pages = pages /\ M \in Nat
  BY SeqFacts DEF RevisionOf
<1>3. IsSeq(m) /\ Len(m) = M /\ \A i \in 1..M : m[i] = Unlink(PageMeta(dir, i - 1))
  <2> HIDE DEF dir, r, M
  <2>1. m = [i \in 1..M |-> Unlink(PageMeta(dir, i - 1))]
    BY <1>2 DEF M
  <2> HIDE DEF m
  <2>2. m = [i \in 1..M |-> m[i]]
    BY <2>1
  <2>3. ASSUME NEW n \in Nat, NEW f, f = [i \in 1..n |-> f[i]]
        PROVE  f \in Seq({f[i] : i \in 1..n}) /\ Len(f) = n
    BY <2>3
  <2>4. m \in Seq({m[i] : i \in 1..M}) /\ Len(m) = M
    BY <1>2, <2>2, <2>3
  <2>5. \A i \in 1..M : m[i] = Unlink(PageMeta(dir, i - 1))
    BY <2>1
  <2> QED BY <2>4, <2>5 DEF IsSeq
<1> HIDE DEF m, M
<1>4. /\ IsSeq(a) /\ Len(a) = 2 /\ a[1] = Create(File(dir, "daily.zst.tmp"))
      /\ a[2] = Rename(File(dir, "daily.zst.tmp"), File(dir, "daily.zst"), daily)
  BY WriteFields
<1>5. /\ IsSeq(b) /\ Len(b) = 2 /\ b[1] = Create(File(dir, "daily.tmp"))
      /\ b[2] = Rename(File(dir, "daily.tmp"), File(dir, "daily.yaml"), daily)
  BY WriteFields
<1>6. IsSeq(c) /\ Len(c) = 2 /\ c[1] = Unlink(Checkpoint(dir)) /\ c[2] = Unlink(File(dir, "daily.yaml"))
  BY TupleFacts
<1>7. /\ IsSeq(w) /\ Len(w) = 2 /\ w[1] = Create(File(dir, "manifest.tmp"))
      /\ w[2] = Rename(File(dir, "manifest.tmp"), File(dir, "manifest.yaml"), r)
  BY WriteFields
<1>8. /\ IsSeq(x) /\ Len(x) = 2 /\ x[1] = Absent(RevisionDir(key, r), "RevisionAlreadyExists")
      /\ x[2] = MoveDir(dir, RevisionDir(key, r))
  BY TupleFacts DEF MoveOps
<1>9. /\ IsSeq(y) /\ Len(y) = 2 /\ y[1] = Create(File(SourceRoot(key), "current.tmp"))
      /\ y[2] = Rename(File(SourceRoot(key), "current.tmp"), Current(key), r)
  BY WriteFields DEF PointOps
<1> HIDE DEF a, b, c, w, x, y
<1>10. IsSeq(a) /\ IsSeq(b) /\ IsSeq(c) /\ IsSeq(m) /\ IsSeq(w) /\ IsSeq(x) /\ IsSeq(y)
  BY <1>3, <1>4, <1>5, <1>6, <1>7, <1>8, <1>9
<1>11. Parts(s, a, b, c, m, w, x, y)
  BY <1>10, ManyCalls
<1> HIDE DEF s
<1>12. /\ Len(s) = M + 12
       /\ s[1] = a[1] /\ s[2] = a[2] /\ s[3] = b[1] /\ s[4] = b[2]
       /\ s[5] = c[1] /\ s[6] = c[2] /\ \A i \in 1..M : s[6 + i] = m[i]
       /\ s[M + 7] = w[1] /\ s[M + 8] = w[2] /\ s[M + 9] = x[1]
       /\ s[M + 10] = x[2] /\ s[M + 11] = y[1] /\ s[M + 12] = y[2]
  BY <1>3, <1>4, <1>5, <1>6, <1>7, <1>8, <1>9, <1>11 DEF Parts
<1> HIDE DEF r, dir
<1>13. \A i \in 1..M : s[6 + i] = Unlink(PageMeta(dir, i - 1))
  BY <1>3, <1>12
<1>14. Publishes(s, key, pages, daily)
  BY <1>2, <1>4, <1>5, <1>6, <1>7, <1>8, <1>9, <1>12, <1>13 DEF Publishes, r, dir, M
<1> QED BY <1>1, <1>14 DEF r, dir

\* Publishing a download fits: the checkpoint goes before the metadata, and
\* the attempt is whole when it is moved.
LEMMA PublishFits ==
    ASSUME NEW V, NEW d, NEW key, NEW pages, NEW daily, IsSeq(pages), pages # <<>>,
           \A i \in 1..Len(pages) : ObjectVerifies(d, PageObject(Attempt(key), i - 1), pages[i])
    PROVE  LET s == StageDailyOps(Attempt(key), daily) \o PublishOps(key, RevisionOf(pages, daily))
           IN  \A k \in 1..Len(s) : Fits(V, d, s, k)
<1> DEFINE dir == Attempt(key)
           r == RevisionOf(pages, daily)
           s == StageDailyOps(dir, daily) \o PublishOps(key, r)
           M == Len(pages)
           zt == File(dir, "daily.zst.tmp")
           z == File(dir, "daily.zst")
           yt == File(dir, "daily.tmp")
           y == File(dir, "daily.yaml")
           cj == Checkpoint(dir)
           mt == File(dir, "manifest.tmp")
           mf == File(dir, "manifest.yaml")
           ut == File(SourceRoot(key), "current.tmp")
           u == Current(key)
           place == RevisionDir(key, r)
<1>1. /\ Len(s) = M + 12 /\ M \in Nat
      /\ s[1] = Create(zt) /\ s[2] = Rename(zt, z, daily)
      /\ s[3] = Create(yt) /\ s[4] = Rename(yt, y, daily)
      /\ s[5] = Unlink(cj) /\ s[6] = Unlink(y)
      /\ \A i \in 1..M : s[6 + i] = Unlink(PageMeta(dir, i - 1))
      /\ s[M + 7] = Create(mt) /\ s[M + 8] = Rename(mt, mf, r)
      /\ s[M + 9] = Absent(place, "RevisionAlreadyExists") /\ s[M + 10] = MoveDir(dir, place)
      /\ s[M + 11] = Create(ut) /\ s[M + 12] = Rename(ut, u, r)
  <2>1. Publishes(s, key, pages, daily)
    BY PublishCalls
  <2> HIDE DEF s
  <2> QED BY <2>1 DEF Publishes
<1>2. /\ zt.name = "daily.zst.tmp" /\ z.name = "daily.zst" /\ yt.name = "daily.tmp"
      /\ y.name = "daily.yaml" /\ cj.name = "checkpoint.json" /\ mt.name = "manifest.tmp"
      /\ mf.name = "manifest.yaml" /\ ut.name = "current.tmp" /\ u.name = "current.yaml"
  BY PathFacts DEF File, Current
<1>3. \A i : LET p == PageMeta(dir, i)
             IN  p.name = "page.yaml" /\ p.dir = dir /\ Staging(p)
  BY PathFacts DEF Staging, Attempt
<1>4. /\ DirMark(dir).dir = dir /\ Staging(DirMark(dir)) /\ DirMark(place).dir = place
      /\ place[1] = "revision" /\ place[3] = r
      /\ u.dir[1] = "source" /\ place = <<"revision", u.dir[2], r>>
      /\ r.pages = pages /\ r.daily = daily
  BY DEF DirMark, File, At, Staging, Attempt, RevisionDir, RevisionOf, Current, SourceRoot
<1> HIDE DEF zt, z, yt, y, cj, mt, mf, ut, u, place, s, r, M
<1>5. /\ s[1].op = "create" /\ s[1].path = zt
      /\ s[2].op = "rename" /\ s[2].path = zt /\ s[2].to = z /\ s[2].data = daily
      /\ s[3].op = "create" /\ s[3].path = yt
      /\ s[4].op = "rename" /\ s[4].path = yt /\ s[4].to = y
      /\ s[5].op = "remove" /\ s[5].path = cj
      /\ s[6].op = "remove" /\ s[6].path = y
  BY <1>1, CallFields
<1>6. ASSUME NEW i \in 1..M PROVE s[6 + i].op = "remove" /\ s[6 + i].path = PageMeta(dir, i - 1)
  BY <1>1, CallFields
<1>7. /\ s[M + 7].op = "create" /\ s[M + 7].path = mt
      /\ s[M + 8].op = "rename" /\ s[M + 8].path = mt /\ s[M + 8].to = mf /\ s[M + 8].data = r
      /\ s[M + 9].op = "absent"
      /\ s[M + 10].op = "move" /\ s[M + 10].path = DirMark(dir) /\ s[M + 10].to = DirMark(place)
      /\ s[M + 11].op = "create" /\ s[M + 11].path = ut
      /\ s[M + 12].op = "rename" /\ s[M + 12].path = ut /\ s[M + 12].to = u /\ s[M + 12].data = r
  BY <1>1, CallFields
<1>8. ASSUME NEW i \in 1..(M + 12)
      PROVE  \/ i \in {1, 2, 3, 4, 5, 6} \/ (i - 6 \in 1..M /\ i = 6 + (i - 6))
             \/ i \in {M + 7, M + 8, M + 9, M + 10, M + 11, M + 12}
  BY <1>1
<1> DEFINE Temps == {zt, yt, mt, ut}
           Kind(o) == \/ o.op = "create" /\ o.path \in Temps
                      \/ o.op = "rename" /\ o.path \in Temps /\ o.to = z /\ o.data = daily
                      \/ o.op = "rename" /\ o.path \in Temps /\ o.to = y
                      \/ o.op = "rename" /\ o.path \in Temps /\ o.to = mf /\ o.data = r
                      \/ o.op = "remove" /\ o.path.name \in {"checkpoint.json", "daily.yaml", "page.yaml"}
                      \/ o.op = "absent"
<1>9. ASSUME NEW i \in 1..(M + 9) PROVE Kind(s[i])
  <2>1. \/ i \in {1, 2, 3, 4, 5, 6} \/ (i - 6 \in 1..M /\ i = 6 + (i - 6))
        \/ i \in {M + 7, M + 8, M + 9}
    BY <1>1
  <2>2. CASE i \in {1, 2, 3, 4, 5, 6}
    BY <1>2, <1>5, <2>2
  <2>3. CASE i - 6 \in 1..M /\ i = 6 + (i - 6)
    BY <1>3, <1>6, <2>3
  <2>4. CASE i \in {M + 7, M + 8, M + 9}
    BY <1>2, <1>7, <2>4
  <2> QED BY <2>1, <2>2, <2>3, <2>4
<1> HIDE DEF Kind
<1>10. ASSUME NEW p, NEW x, p.name \in {"manifest.yaml", "daily.zst", "page.zst"},
              p = mf => x = r, p = z => x = daily
       PROVE  Stays(s, M + 10, p, x)
  <2> SUFFICES ASSUME NEW i \in 1..((M + 10) - 1)
               PROVE  /\ s[i].op \in {"create", "put", "remove"} => s[i].path # p
                      /\ s[i].op = "rename" => s[i].path # p /\ (s[i].to = p => s[i].data = x)
                      /\ s[i].op = "move" => s[i].path.dir # p.dir
    BY DEF Stays
  <2>1. i \in 1..(M + 9)
    BY <1>1
  <2>2. Kind(s[i])
    BY <1>9, <2>1
  <2> QED BY <1>2, <1>10, <2>2 DEF Kind
<1>11. WholeSoon(d, s, M + 10, dir, r)
  <2>1. pages # <<>> /\ Len(pages) \in Nat
    BY <1>1 DEF M
  <2>2. Comes(d, s, M + 10, mf, r)
    <3>1. M + 8 \in 1..((M + 10) - 1)
      BY <1>1
    <3> QED BY <1>2, <1>7, <1>10, <3>1 DEF Comes
  <2>3. Comes(d, s, M + 10, z, daily)
    <3>1. 2 \in 1..((M + 10) - 1)
      BY <1>1
    <3> QED BY <1>2, <1>5, <1>10, <3>1 DEF Comes
  <2>4. ASSUME NEW i \in 1..Len(pages) PROVE Comes(d, s, M + 10, PageObject(dir, i - 1), pages[i])
    <3> DEFINE p == PageObject(dir, i - 1)
    <3>1. p.name = "page.zst" /\ Has(d, p) /\ d[p] = pages[i]
      BY PathFacts DEF ObjectVerifies
    <3> HIDE DEF p
    <3>2. Stays(s, M + 10, p, pages[i])
      BY <1>2, <1>10, <3>1
    <3>3. Comes(d, s, M + 10, p, pages[i])
      BY <3>1, <3>2 DEF Comes
    <3> QED BY <3>3 DEF p
  <2> QED BY <1>4, <2>1, <2>2, <2>3, <2>4 DEF WholeSoon, mf, z
<1>12. ASSUME NEW k \in {1, 2, 3, 4, 5, 6, M + 7, M + 8, M + 9, M + 11} PROVE Fits(V, d, s, k)
  <2>1. Plain(s[1]) /\ Plain(s[2]) /\ Plain(s[3]) /\ Plain(s[4]) /\ Plain(s[5]) /\ Plain(s[6])
    BY <1>1, <1>2, PlainNamed DEF Special
  <2>2. Plain(s[M + 7]) /\ Plain(s[M + 8]) /\ Plain(s[M + 9]) /\ Plain(s[M + 11])
    BY <1>1, <1>2, PlainNamed, PlainCalls DEF Special
  <2>3. Plain(s[k])
    BY <2>1, <2>2
  <2> QED BY <2>3, PlainFits
<1>13. ASSUME NEW j \in 1..M PROVE Fits(V, d, s, 6 + j)
  <2> DEFINE o == s[6 + j]
  <2>1. o.op = "remove" /\ o.path.name = "page.yaml" /\ o.path.dir = dir
    BY <1>3, <1>6
  <2>2. NotBefore(s, 6 + j, cj)
    <3> SUFFICES ASSUME NEW i \in 1..((6 + j) - 1), s[i].op = "rename" PROVE s[i].to # cj
      BY DEF NotBefore
    <3>1. i \in 1..(M + 9)
      BY <1>1
    <3>2. Kind(s[i])
      BY <1>9, <3>1
    <3> QED BY <1>2, <3>2 DEF Kind
  <2>3. 5 \in 1..((6 + j) - 1)
    BY <1>1
  <2>4. FitsRemove(d, s, 6 + j)
    BY <1>5, <2>1, <2>2, <2>3 DEF FitsRemove, cj
  <2> HIDE DEF o
  <2>5. FitsNames(o) /\ ~Renames(o, "page.yaml") /\ ~Renames(o, "page.zst") /\ ~Renames(o, "checkpoint.json")
    BY <2>1 DEF FitsNames, Renames
  <2> QED BY <2>1, <2>4, <2>5 DEF Fits, FitsMeta, FitsObject, FitsCheckpoint, FitsMove, FitsPointer, o
<1>14. Fits(V, d, s, M + 10)
  <2> DEFINE o == s[M + 10]
  <2>1. FitsMove(d, s, M + 10)
    BY <1>4, <1>7, <1>11 DEF FitsMove
  <2>2. o.op = "move"
    BY <1>7
  <2> HIDE DEF o
  <2>3. FitsNames(o) /\ ~Renames(o, "page.yaml") /\ ~Renames(o, "page.zst") /\ ~Renames(o, "checkpoint.json")
    BY <2>2 DEF FitsNames, Renames
  <2> QED BY <2>1, <2>2, <2>3 DEF Fits, FitsRemove, FitsMeta, FitsObject, FitsCheckpoint, FitsPointer, o
<1>15. Fits(V, d, s, M + 12)
  <2> DEFINE o == s[M + 12]
  <2>1. M + 10 \in 1..((M + 12) - 1)
    BY <1>1
  <2>2. FitsPointer(d, s, M + 12)
    BY <1>4, <1>7, <2>1 DEF FitsPointer
  <2>3. o.op = "rename" /\ o.path = ut /\ o.to = u
    BY <1>7
  <2> HIDE DEF o
  <2>4. FitsNames(o) /\ ~Renames(o, "page.yaml") /\ ~Renames(o, "page.zst") /\ ~Renames(o, "checkpoint.json")
    BY <1>2, <2>3 DEF FitsNames, Renames
  <2> QED BY <2>2, <2>3, <2>4 DEF Fits, FitsRemove, FitsMeta, FitsObject, FitsCheckpoint, FitsMove, o
<1>16. ASSUME NEW k \in 1..(M + 12) PROVE Fits(V, d, s, k)
  BY <1>8, <1>12, <1>13, <1>14, <1>15
<1> QED BY <1>1, <1>16 DEF s, r

\* Among the numbers of the staged pages, n has rank n as far as none is missing.
LEMMA RankOfPage ==
    ASSUME NEW P, IsFiniteSet(P), P \subseteq Nat, NEW c \in Nat, \A j \in 0..(c - 1) : j \in P
    PROVE  /\ Cardinality(P) \in Nat /\ c <= Cardinality(P)
           /\ \A i \in 1..c : (CHOOSE n \in P : Cardinality({m \in P : m < n}) = i - 1) = i - 1
<1> DEFINE Below(n) == {m \in P : m < n}
<1>1. \A n \in Nat : IsFiniteSet(Below(n)) /\ Cardinality(Below(n)) \in Nat
  <2>1. \A n : Below(n) \subseteq P
    OBVIOUS
  <2> HIDE DEF Below
  <2> QED BY <2>1, FS_Subset, FS_CardinalityType
<1>2. \A n \in Nat : IsFiniteSet(0..(n - 1)) /\ Cardinality(0..(n - 1)) = n
  <2> SUFFICES ASSUME NEW n \in Nat PROVE IsFiniteSet(0..(n - 1)) /\ Cardinality(0..(n - 1)) = n
    OBVIOUS
  <2>1. /\ IsFiniteSet(0..(n - 1))
        /\ Cardinality(0..(n - 1)) = IF 0 > n - 1 THEN 0 ELSE (n - 1) - 0 + 1
    BY FS_Interval
  <2> QED BY <2>1
<1>3. Cardinality(P) \in Nat /\ c <= Cardinality(P)
  <2>1. 0..(c - 1) \subseteq P
    OBVIOUS
  <2> QED BY <1>2, <2>1, FS_Subset, FS_CardinalityType
<1>4. ASSUME NEW n \in Nat, n <= c PROVE Cardinality(Below(n)) = n
  <2>1. Below(n) = 0..(n - 1)
    <3>1. ASSUME NEW m \in 0..(n - 1) PROVE m \in Below(n)
      <4>1. m \in 0..(c - 1) /\ m < n
        BY <1>4
      <4> QED BY <4>1
    <3>2. ASSUME NEW m \in Below(n) PROVE m \in 0..(n - 1)
      <4>1. m \in Nat /\ m < n
        OBVIOUS
      <4> QED BY <4>1
    <3> QED BY <3>1, <3>2
  <2> QED BY <1>2, <2>1
<1>5. ASSUME NEW i \in 1..c PROVE (CHOOSE n \in P : Cardinality(Below(n)) = i - 1) = i - 1
  <2> DEFINE Q(n) == n \in P /\ Cardinality(Below(n)) = i - 1
  <2>1. i - 1 \in Nat /\ i - 1 <= c /\ i - 1 \in 0..(c - 1) /\ i \in Nat
    OBVIOUS
  <2>2. Q(i - 1)
    BY <1>4, <2>1
  <2>3. ASSUME NEW n \in P, Cardinality(Below(n)) = i - 1 PROVE n = i - 1
    <3>1. n \in Nat
      OBVIOUS
    <3>2. CASE n <= c
      BY <1>4, <2>3, <3>1, <3>2
    <3>3. CASE ~(n <= c)
      <4>1. 0..(i - 1) \subseteq Below(n)
        BY <2>1, <3>1, <3>3
      <4>2. Cardinality(0..(i - 1)) = i
        BY <1>2, <2>1
      <4> HIDE DEF Below
      <4>3. i <= Cardinality(Below(n))
        BY <1>1, <3>1, <4>1, <4>2, FS_Subset
      <4> QED BY <1>1, <2>1, <2>3, <3>1, <4>3
    <3> QED BY <3>2, <3>3
  <2> HIDE DEF Below
  <2> QED BY <2>2, <2>3
<1> QED BY <1>3, <1>5

\* resume_at reads back exactly the pages that are staged without a gap.
LEMMA ResumedAre ==
    ASSUME NEW V, NEW d, NEW dir, NEW c \in Nat, NEW pages, IsFiniteSet(DOMAIN d), DiskFits(V, d),
           dir[1] = "staging", IsSeq(pages), Len(pages) = c,
           \A i \in 1..c : ObjectVerifies(d, PageMeta(dir, i - 1), pages[i])
    PROVE  ~ResumeRefused(d, dir, c) /\ ResumedPages(d, dir, c) = pages
<1> DEFINE files == {q \in DOMAIN d : q.dir = dir /\ q.name = "page.yaml"}
           P == {p.n : p \in files}
           size == Cardinality(P)
           metas == StagedMetas(d, dir)
           Ordered(i) == CHOOSE n \in P : Cardinality({m \in P : m < n}) = i - 1
<1>1. IsFiniteSet(P)
  <2>1. IsFiniteSet(files)
    BY FS_Subset
  <2> HIDE DEF files
  <2> DEFINE f == [p \in files |-> p.n]
  <2>2. f \in [files -> P] /\ \A t \in P : \E p \in files : f[p] = t
    OBVIOUS
  <2> HIDE DEF f, P
  <2> QED BY <2>1, <2>2, FiniteImage
<1>2. P \subseteq Nat
  BY DEF DiskFits, Staging
<1>3. \A j \in 0..(c - 1) : j \in P
  <2> SUFFICES ASSUME NEW j \in 0..(c - 1) PROVE j \in P
    OBVIOUS
  <2>1. j + 1 \in 1..c /\ (j + 1) - 1 = j
    OBVIOUS
  <2>2. Has(d, PageMeta(dir, j))
    BY <2>1 DEF ObjectVerifies
  <2>3. PageMeta(dir, j).dir = dir /\ PageMeta(dir, j).name = "page.yaml" /\ PageMeta(dir, j).n = j
    BY PathFacts
  <2>4. PageMeta(dir, j) \in files
    BY <2>2, <2>3 DEF Has
  <2> HIDE DEF files
  <2> QED BY <2>3, <2>4
<1>4. metas = [i \in 1..size |-> d[PageMeta(dir, Ordered(i))]]
  BY DEF StagedMetas
<1>5. size \in Nat /\ c <= size /\ \A i \in 1..c : Ordered(i) = i - 1
  <2> HIDE DEF P
  <2> QED BY <1>1, <1>2, <1>3, RankOfPage
<1> HIDE DEF metas, size, Ordered
<1> DEFINE S == {d[PageMeta(dir, Ordered(i))] : i \in 1..size}
<1>6. metas \in Seq(S) /\ Len(metas) = size
  BY <1>4, <1>5
<1>7. ASSUME NEW i \in 1..c PROVE metas[i] = pages[i]
  <2>1. i \in 1..size /\ Ordered(i) = i - 1
    BY <1>5
  <2>2. metas[i] = d[PageMeta(dir, i - 1)]
    BY <1>4, <2>1
  <2> QED BY <2>2 DEF ObjectVerifies
<1>8. ~ResumeRefused(d, dir, c)
  BY <1>5, <1>6 DEF ResumeRefused, metas
<1> HIDE DEF S
<1>9. ResumedPages(d, dir, c) = pages
  <2> DEFINE t == SubSeq(metas, 1, c)
  <2>1. t \in Seq(S) /\ Len(t) = c /\ \A i \in 1..c : t[i] = metas[i]
    BY <1>5, <1>6
  <2>2. PICK T : pages \in Seq(T)
    BY DEF IsSeq
  <2> HIDE DEF t
  <2>3. t \in Seq(S \cup T) /\ pages \in Seq(S \cup T)
    BY <2>1, <2>2
  <2>4. t = pages
    BY <1>7, <2>1, <2>3
  <2> QED BY <2>4 DEF ResumedPages, metas, t
<1> QED BY <1>8, <1>9

-----------------------------------------------------------------------------
(* The invariant: the calls left fit the disk, a download's pages are      *)
(* staged or about to be, and current.yaml names a whole revision.         *)

SyncFit(V, d, j) ==
    LET dir == Attempt(Head(j.todo).key)
        pages == j.sync.pages
    IN  /\ Linked(V, j.sync.checkpoint, pages)
        /\ j.sync.checkpoint.query = Head(j.todo).key
        /\ j.step = "open" => pages = <<>>
        /\ \A i \in 1..Len(pages) :
             /\ Comes(d, j.ops, Len(j.ops) + 1, PageMeta(dir, i - 1), pages[i])
             /\ Comes(d, j.ops, Len(j.ops) + 1, PageObject(dir, i - 1), pages[i])
FitJob(V, d, j) ==
    /\ \A k \in 1..Len(j.ops) : Fits(V, d, j.ops, k)
    /\ j.step \in {"open", "pages"} => SyncFit(V, d, j)
CurrentFit(d) ==
    \A p \in DOMAIN d : p.dir[1] = "source" /\ p.name = "current.yaml" =>
      Whole(d, <<"revision", p.dir[2], d[p]>>, d[p])
\* The version the archive has answered from all the time, if there is one.
Source == IF faults.changes = 0 THEN {remote} ELSE {}
FitInv ==
    /\ CommandInv
    /\ DiskFits(Source, disk)
    /\ FitJob(Source, disk, job)
    /\ DOMAIN faults = {"crashes", "changes", "damage"}
    /\ faults.damage \in Nat /\ faults.changes \in Nat
    /\ faults.damage = 0 => CurrentFit(disk)

\* A command that makes plain calls, and the end of one.
PlainJob(j) == AllPlain(j.ops) /\ j.step \notin {"open", "pages"}
LEMMA FitPlain ==
    ASSUME NEW V, NEW d, NEW j, PlainJob(j)
    PROVE  FitJob(V, d, j)
BY PlainFits DEF FitJob, AllPlain, PlainJob

LEMMA PlainIdle == PlainJob(Idle)
BY PlainTuples DEF PlainJob, Idle

LEMMA FitIdle ==
    ASSUME NEW V, NEW d
    PROVE  FitJob(V, d, Idle)
BY FitPlain, PlainIdle

\* current.yaml keeps naming a whole revision, and is made only for one.
LEMMA CurrentCall ==
    ASSUME NEW V, NEW d, NEW s, AllPaths(d), Harmless(s[1]), Free(d, s[1]), Fits(V, d, s, 1),
           CurrentFit(d)
    PROVE  CurrentFit(Applied(d, s[1]))
<1> DEFINE o == s[1]
           e == Applied(d, o)
<1>1. Kept(d, e)
  BY CallKept
<1> SUFFICES ASSUME NEW p \in DOMAIN e, p.dir[1] = "source", p.name = "current.yaml"
             PROVE  Whole(e, <<"revision", p.dir[2], e[p]>>, e[p])
  BY DEF CurrentFit
<1>2. IsFinal(p)
  BY DEF IsFinal
<1>3. CASE p \in DOMAIN d
  <2>1. e[p] = d[p]
    BY <1>1, <1>2, <1>3 DEF Kept
  <2> DEFINE dir == <<"revision", p.dir[2], d[p]>>
  <2>2. Whole(d, dir, d[p]) /\ dir[1] = "revision"
    BY <1>3 DEF CurrentFit
  <2> HIDE DEF dir, e
  <2>3. Whole(e, dir, d[p])
    BY <1>1, <2>2, WholeKept
  <2> QED BY <2>1, <2>3 DEF dir
<1>4. CASE p \notin DOMAIN d
  <2>1. o.op = "rename" /\ o.to = p
    <3>1. CASE o.op \in {"create", "put"}
      <4>1. DOMAIN e = DOMAIN d \cup {o.path}
        BY <3>1, AppliedFacts
      <4>2. o.path = p
        BY <1>4, <4>1
      <4> QED BY <1>2, <3>1, <4>2 DEF Harmless
    <3>2. CASE o.op = "rename"
      <4>1. /\ DOMAIN e = (DOMAIN d \ {o.path}) \cup {o.to} /\ e[o.to] = o.data
            /\ \A q \in DOMAIN d : q # o.path /\ q # o.to => e[q] = d[q]
        BY <3>2, AppliedFacts
      <4> QED BY <1>4, <3>2, <4>1
    <3>3. CASE o.op = "remove"
      <4>1. DOMAIN e = DOMAIN d \ {o.path}
        BY <3>3, AppliedFacts
      <4> QED BY <1>4, <4>1
    <3>4. CASE o.op = "absent"
      <4>1. e = d
        BY <3>4, AppliedFacts
      <4> QED BY <1>4, <4>1
    <3>5. CASE o.op = "move"
      <4>1. ~DirExists(d, o.to.dir) /\ o.path.dir[1] \notin Sealed \cup {"source"}
            /\ o.to.dir[1] \in Sealed
        BY <3>5 DEF Harmless, Free
      <4>2. o.path.dir # o.to.dir /\ p.dir # o.to.dir
        BY <4>1 DEF Sealed
      <4>3. \A q \in DOMAIN d : IsPath(q)
        BY DEF AllPaths
      <4>4. \A q \in DOMAIN e : (q \in DOMAIN d /\ q.dir # o.path.dir) \/ q.dir = o.to.dir
        BY <3>5, <4>1, <4>2, <4>3, MovedFacts
      <4> QED BY <1>4, <4>2, <4>4
    <3> QED BY <3>1, <3>2, <3>3, <3>4, <3>5 DEF Harmless, IsCall
  <2> DEFINE x == o.data
             dir == <<"revision", p.dir[2], x>>
  <2>2. dir[1] = "revision"
    OBVIOUS
  <2>3. Whole(d, dir, x)
    <3>1. 1..(1 - 1) = {}
      OBVIOUS
    <3> QED BY <2>1, <3>1 DEF Fits, FitsPointer
  <2>4. e[p] = x
    BY <2>1, AppliedFacts
  <2> HIDE DEF dir, e
  <2>5. Whole(e, dir, x)
    BY <1>1, <2>2, <2>3, WholeKept
  <2> QED BY <2>4, <2>5 DEF dir
<1> QED BY <1>3, <1>4

\* The next call of the command.
LEMMA FileCallFits ==
    ASSUME FitInv, FileCall
    PROVE  /\ DiskFits(Source, disk') /\ FitJob(Source, disk', job')
           /\ faults' = faults /\ (CurrentFit(disk) => CurrentFit(disk'))
<1> DEFINE s == job.ops
           o == Head(job.ops)
<1>1. Active(disk, job) /\ DiskOK(disk) /\ s # <<>>
  BY DEF FitInv, CommandInv, FileCall
<1>2. OpsOK(disk, s) /\ IsSeq(s) /\ AllPaths(disk)
  BY <1>1 DEF Active, OpsOK, DiskOK
<1>3. o = s[1] /\ 1 \in 1..Len(s) /\ Len(s) \in Nat /\ Len(Tail(s)) = Len(s) - 1
  BY <1>1, <1>2, SeqFacts
<1>4. CASE Refused(disk, o)
  <2>1. job' = Idle /\ disk' = disk /\ faults' = faults
    BY <1>4 DEF FileCall, Fail
  <2> QED BY <2>1, FitIdle DEF FitInv
<1>5. CASE ~Refused(disk, o)
  <2> DEFINE n == [job EXCEPT !.ops = Tail(@)]
             e == Applied(disk, o)
  <2>1. job' = n /\ disk' = e /\ faults' = faults
    BY <1>5 DEF FileCall
  <2>2. Harmless(o) /\ Free(disk, o)
    <3>1. o.op = "move" => ~DirExists(disk, o.to.dir)
      BY <1>2, <1>3 DEF OpsOK, Guarded
    <3> QED BY <1>2, <1>3, <3>1 DEF OpsOK, Free
  <2>3. DiskFits(Source, disk) /\ \A k \in 1..Len(s) : Fits(Source, disk, s, k)
    BY DEF FitInv, FitJob
  <2>4. DiskFits(Source, e) /\ (CurrentFit(disk) => CurrentFit(e))
    BY <1>2, <1>3, <2>2, <2>3, DiskFitsCall, CurrentCall
  <2>5. /\ n.step = job.step /\ n.ops = Tail(s) /\ n.todo = job.todo /\ n.sync = job.sync
    BY <1>1 DEF Active, Fields
  <2>6. \A k \in 1..Len(Tail(s)) : Fits(Source, e, Tail(s), k)
    BY <1>1, <1>2, <1>3, <1>5, <2>3, FitsTail
  <2>7. ASSUME NEW p, NEW x, Staging(p), Comes(disk, s, Len(s) + 1, p, x)
        PROVE  Comes(e, Tail(s), Len(Tail(s)) + 1, p, x)
    <3> DEFINE k == Len(Tail(s)) + 1
    <3>1. k \in 1..(Len(Tail(s)) + 1) /\ k + 1 = Len(s) + 1
      BY <1>3
    <3>2. Comes(disk, s, k + 1, p, x)
      BY <2>7, <3>1
    <3> HIDE DEF k
    <3>3. Comes(Applied(disk, s[1]), Tail(s), k, p, x)
      BY <1>1, <1>2, <1>3, <2>2, <2>7, <3>1, <3>2, ComesTail
    <3> QED BY <1>3, <3>3 DEF k
  <2> HIDE DEF e, n
  <2>8. ASSUME n.step \in {"open", "pages"} PROVE SyncFit(Source, e, n)
    <3> DEFINE dir == Attempt(Head(job.todo).key)
               pages == job.sync.pages
    <3>1. SyncFit(Source, disk, job)
      BY <2>5, <2>8 DEF FitInv, FitJob
    <3>2. \A i : Staging(PageMeta(dir, i - 1)) /\ Staging(PageObject(dir, i - 1))
      BY PathFacts DEF Staging, Attempt
    <3>3. ASSUME NEW i \in 1..Len(pages)
          PROVE  /\ Comes(e, Tail(s), Len(Tail(s)) + 1, PageMeta(dir, i - 1), pages[i])
                 /\ Comes(e, Tail(s), Len(Tail(s)) + 1, PageObject(dir, i - 1), pages[i])
      BY <2>7, <3>1, <3>2 DEF SyncFit
    <3>4. /\ Linked(Source, job.sync.checkpoint, pages) /\ (job.step = "open" => pages = <<>>)
          /\ job.sync.checkpoint.query = Head(job.todo).key
      BY <3>1 DEF SyncFit
    <3> QED BY <2>5, <3>3, <3>4 DEF SyncFit
  <2>9. FitJob(Source, e, n)
    BY <2>5, <2>6, <2>8 DEF FitJob
  <2> QED BY <2>1, <2>4, <2>9
<1> QED BY <1>4, <1>5

\* How a sync stage goes on.
LEMMA SyncForms ==
    ASSUME CommandInv, SyncStage
    PROVE  /\ \/ Proceed(NextStage)
              \/ Proceed([job EXCEPT !.todo = job.plan, !.step = "fetch"])
              \/ job' = Idle /\ faults' = faults
           /\ DOMAIN job = Fields /\ job.ops = <<>>
<1> DEFINE n == [job EXCEPT !.todo = job.plan, !.step = "fetch"]
           network == \E i \in 1..Len(job.plan) : RequiresNetwork(job.plan[i].source)
           skip == ~network /\ Head(job.stages) = "sync if required"
           rejected == \E i \in 1..Len(job.plan) : job.plan[i].source = "Reject"
           rest == IF network THEN n ELSE NextStage
<1>1. \/ skip /\ Proceed(NextStage)
      \/ ~skip /\ rejected /\ Fail("SourceNotComplete")
      \/ ~skip /\ ~rejected /\ Proceed(rest)
  BY DEF SyncStage
<1>2. rest = n \/ rest = NextStage
  OBVIOUS
<1>3. DOMAIN job = Fields /\ job.ops = <<>>
  <2>1. PICK name \in Syncs : AtStage(name)
    BY DEF SyncStage, Syncs
  <2> QED BY <2>1, AtStageFacts DEF Active
<1> HIDE DEF network, skip, rejected, rest, n
<1>4. Proceed(NextStage) \/ Proceed(n) \/ (job' = Idle /\ faults' = faults)
  BY <1>1, <1>2 DEF Fail
<1> QED BY <1>3, <1>4 DEF n

\* No damage is done.
DamageKept == DOMAIN faults' = DOMAIN faults /\ faults'.damage = faults.damage

\* A step between two calls that goes on with plain ones.
LEMMA PlainStep ==
    ASSUME FitInv, \/ Begin \/ Finish \/ PlanStage \/ VerifyStage \/ SyncStage \/ SyncDone
                   \/ SkipReused \/ PrepareStage \/ PrepareDone \/ PreparePartition
                   \/ ReplayStage \/ InspectStage \/ TransportFails \/ Crash
    PROVE  PlainJob(job') /\ DamageKept
<1> USE DEF DamageKept, PlainJob
<1>1. CommandInv
  BY DEF FitInv
<1>2. ASSUME Ready("stage") \/ Ready("fetch") \/ Ready("prepare")
      PROVE  /\ DOMAIN job = Fields /\ job.ops = <<>> /\ job.step \in {"stage", "fetch", "prepare"}
  <2>1. PICK step \in {"stage", "fetch", "prepare"} : Ready(step)
    BY <1>2
  <2> QED BY <1>1, <2>1, ReadyFacts DEF Active
<1>3. AllPlain(<<>>)
  BY PlainTuples
<1>4. ASSUME job' = Idle, faults' = faults PROVE PlainJob(job') /\ DamageKept
  BY <1>4, PlainIdle
<1>5. ASSUME DOMAIN job = Fields, job.ops = <<>>, Proceed(NextStage)
      PROVE  PlainJob(job') /\ DamageKept
  <2>1. NextStage.ops = <<>> /\ NextStage.step = "stage"
    BY <1>5 DEF NextStage, Fields
  <2> QED BY <1>3, <1>5, <2>1 DEF Proceed
<1>6. CASE Begin
  <2>1. job'.ops = <<>> /\ job'.step = "stage" /\ faults' = faults
    BY <1>6 DEF Begin
  <2> QED BY <1>3, <2>1
<1>7. CASE Finish \/ TransportFails
  <2>1. job' = Idle /\ faults' = faults
    BY <1>7 DEF Finish, TransportFails, Fail
  <2> QED BY <1>4, <2>1
<1>8. CASE Crash
  <2>1. job' = Idle /\ DamageKept
    BY <1>8 DEF Crash
  <2> QED BY <2>1, PlainIdle
<1>9. CASE PlanStage
  <2> DEFINE n == [NextStage EXCEPT !.plan = Plan(job.keys, job.mapping)]
  <2>1. DOMAIN job = Fields /\ job.ops = <<>>
    BY <1>2, <1>9 DEF PlanStage, AtStage
  <2>2. n.ops = <<>> /\ n.step = "stage"
    BY <2>1 DEF NextStage, Fields
  <2>3. job' = n /\ faults' = faults
    BY <1>9 DEF PlanStage, Proceed
  <2> QED BY <1>3, <2>2, <2>3
<1>10. CASE VerifyStage \/ InspectStage \/ SyncDone \/ PrepareDone
  <2>1. Proceed(NextStage) \/ (job' = Idle /\ faults' = faults)
    BY <1>10 DEF VerifyStage, InspectStage, SyncDone, PrepareDone, Fail
  <2>2. DOMAIN job = Fields /\ job.ops = <<>>
    BY <1>2, <1>10 DEF VerifyStage, InspectStage, SyncDone, PrepareDone, AtStage
  <2> QED BY <1>4, <1>5, <2>1, <2>2
<1>11. CASE SyncStage
  <2> DEFINE n == [job EXCEPT !.todo = job.plan, !.step = "fetch"]
  <2>1. Proceed(NextStage) \/ Proceed(n) \/ (job' = Idle /\ faults' = faults)
    BY <1>1, <1>11, SyncForms
  <2>2. DOMAIN job = Fields /\ job.ops = <<>>
    BY <1>1, <1>11, SyncForms
  <2>3. n.ops = <<>> /\ n.step = "fetch"
    BY <2>2 DEF Fields
  <2> HIDE DEF n
  <2>4. ASSUME Proceed(n) PROVE PlainJob(job') /\ DamageKept
    BY <1>3, <2>3, <2>4 DEF Proceed
  <2> QED BY <1>4, <1>5, <2>1, <2>2, <2>4
<1>12. CASE SkipReused \/ PrepareStage
  <2>1. DOMAIN job = Fields /\ job.ops = <<>> /\ job.step \in {"stage", "fetch", "prepare"}
    BY <1>2, <1>12 DEF SkipReused, PrepareStage, AtStage
  <2>2. job'.ops = <<>> /\ job'.step \notin {"open", "pages"} /\ faults' = faults
    BY <1>12, <2>1 DEF SkipReused, PrepareStage, Proceed, Fields
  <2> QED BY <1>3, <2>2
<1>13. CASE PreparePartition
  <2> DEFINE p == Head(job.todo)
             revision == disk[Current(p.key)]
             s == CacheOps(p.key, Descriptor(p.key, revision, job.mapping,
                           Normalized(job.mapping, TickRecords(revision.pages))))
             rest == [job EXCEPT !.todo = Tail(@)]
             built == [rest EXCEPT !.ops = s]
  <2>1. DOMAIN job = Fields /\ job.ops = <<>> /\ job.step \in {"stage", "fetch", "prepare"}
    BY <1>2, <1>13 DEF PreparePartition
  <2>2. Proceed(rest) \/ Proceed(built) \/ (job' = Idle /\ faults' = faults)
    BY <1>13 DEF PreparePartition, Fail
  <2>3. AllPlain(s)
    BY CachePlain
  <2> HIDE DEF s
  <2>4. rest.ops = <<>> /\ rest.step = job.step /\ built.ops = s /\ built.step = job.step
    BY <2>1 DEF Fields
  <2> HIDE DEF rest, built
  <2>5. ASSUME Proceed(rest) \/ Proceed(built)
        PROVE  PlainJob(job') /\ DamageKept
    <3>1. AllPlain(job'.ops) /\ job'.step \notin {"open", "pages"} /\ faults' = faults
      BY <1>3, <2>1, <2>3, <2>4, <2>5 DEF Proceed
    <3> QED BY <3>1
  <2> QED BY <1>4, <2>2, <2>5
<1>14. CASE ReplayStage
  <2> DEFINE s == PublishArtifacts(job.output, Artifacts(job.plan, StreamEvents(job.plan)))
             n == [NextStage EXCEPT !.ops = s]
  <2>1. DOMAIN job = Fields /\ job.ops = <<>>
    BY <1>2, <1>14 DEF ReplayStage, AtStage
  <2>2. Proceed(NextStage) \/ Proceed(n) \/ (job' = Idle /\ faults' = faults)
    BY <1>14 DEF ReplayStage, Fail
  <2>3. AllPlain(s)
    BY ArtifactsPlain
  <2> HIDE DEF s
  <2>4. n.ops = s /\ n.step = "stage"
    BY <2>1 DEF Fields, NextStage
  <2> HIDE DEF n
  <2>5. ASSUME Proceed(n) PROVE PlainJob(job') /\ DamageKept
    BY <2>3, <2>4, <2>5 DEF Proceed
  <2> QED BY <1>4, <1>5, <2>1, <2>2, <2>5
<1> QED BY <1>6, <1>7, <1>8, <1>9, <1>10, <1>11, <1>12, <1>13, <1>14

\* A partition's download begins with no page.
LEMMA FetchFits ==
    ASSUME FitInv, FetchSingles
    PROVE  FitJob(Source, disk, job') /\ faults' = faults
<1> DEFINE key == Head(job.todo).key
           sync == [daily |-> Daily(remote, key), pages |-> <<>>, checkpoint |-> FirstCheckpoint(key)]
           n == [job EXCEPT !.step = "open", !.sync = sync]
<1>1. DOMAIN job = Fields /\ job.ops = <<>>
  <2>1. CommandInv /\ Ready("fetch")
    BY DEF FitInv, FetchSingles
  <2> QED BY <2>1, ReadyFacts DEF Active
<1>2. job' = n /\ faults' = faults
  BY DEF FetchSingles, Proceed
<1>3. sync.pages = <<>> /\ sync.checkpoint = FirstCheckpoint(key)
  OBVIOUS
<1> HIDE DEF sync
<1>4. n.step = "open" /\ n.ops = <<>> /\ n.todo = job.todo /\ n.sync = sync
  BY <1>1 DEF Fields
<1> HIDE DEF n
<1>5. Len(<<>>) = 0 /\ IsSeq(<<>>) /\ 1..0 = {} /\ 1..(0 - 1) = {}
  BY TupleFacts
<1>6. Linked(Source, FirstCheckpoint(key), <<>>)
  <2> DEFINE c == FirstCheckpoint(key)
  <2>1. Counted(c) /\ c.committed = 0 /\ ~c.terminal /\ c.next = 0
    BY DEF FirstCheckpoint, Counted
  <2> HIDE DEF c
  <2>2. IsChain(<<>>) /\ Asked(Source, c.query, <<>>)
    BY <1>5 DEF IsChain, Asked
  <2>3. Linked(Source, c, <<>>)
    BY <1>5, <2>1, <2>2 DEF Linked
  <2> QED BY <2>3 DEF c
<1>7. SyncFit(Source, disk, n)
  <2>1. FirstCheckpoint(key).query = key
    BY DEF FirstCheckpoint
  <2> QED BY <1>3, <1>4, <1>5, <1>6, <2>1 DEF SyncFit
<1>8. FitJob(Source, disk, n)
  BY <1>4, <1>5, <1>7 DEF FitJob
<1> QED BY <1>2, <1>8

\* A checkpoint that is resumed comes with the pages it counts.
LEMMA OpenFits ==
    ASSUME FitInv, OpenStaging
    PROVE  FitJob(Source, disk, job') /\ faults' = faults
<1> DEFINE key == Head(job.todo).key
           dir == Attempt(key)
           saved == disk[Checkpoint(dir)]
           pages == ResumedPages(disk, dir, saved.committed)
           resumed == [job EXCEPT !.step = "pages", !.sync.checkpoint = saved, !.sync.pages = pages]
           s == CreateOps(disk, key)
           created == [job EXCEPT !.step = "pages", !.ops = s]
<1>1. /\ DiskOK(disk) /\ Active(disk, job) /\ job.ops = <<>> /\ job.step = "open" /\ DOMAIN job = Fields
  <2>1. CommandInv /\ Ready("open")
    BY DEF FitInv, OpenStaging
  <2> QED BY <2>1, ReadyFacts DEF Active
<1>2. DOMAIN job.sync = {"daily", "pages", "checkpoint"}
  BY <1>1 DEF Active, SyncOK
<1>3. \/ job' = Idle /\ faults' = faults
      \/ /\ Has(disk, Checkpoint(dir)) /\ saved.query = key
         /\ job' = resumed /\ faults' = faults
      \/ job' = created /\ faults' = faults
  BY DEF OpenStaging, Fail, LoadCheckpoint, Proceed, QueryDrift
<1>4. ASSUME Has(disk, Checkpoint(dir)), saved.query = key PROVE FitJob(Source, disk, resumed)
  <2>1. Staging(Checkpoint(dir)) /\ Checkpoint(dir) = Checkpoint(Checkpoint(dir).dir)
        /\ Checkpoint(dir).dir = dir /\ dir[1] = "staging"
    BY PathFacts DEF Staging, Attempt
  <2>2. Backed(Source, disk, dir, saved)
    BY <1>4, <2>1 DEF FitInv, DiskFits, Has
  <2>3. PICK all : /\ Linked(Source, saved, all)
                   /\ \A i \in 1..Len(all) : ObjectVerifies(disk, PageMeta(dir, i - 1), all[i])
    BY <2>2 DEF Backed
  <2>4. saved.committed \in Nat /\ IsSeq(all) /\ Len(all) = saved.committed
    BY <2>3 DEF Linked, Counted
  <2>5. pages = all
    BY <1>1, <2>1, <2>3, <2>4, ResumedAre DEF DiskOK, FitInv
  <2>6. ASSUME NEW i \in 1..Len(all)
        PROVE  ObjectVerifies(disk, PageMeta(dir, i - 1), all[i]) /\ ObjectVerifies(disk, PageObject(dir, i - 1), all[i])
    <3> DEFINE p == PageMeta(dir, i - 1)
    <3>1. Has(disk, p) /\ disk[p] = all[i]
      BY <2>3 DEF ObjectVerifies
    <3>2. Staging(p) /\ p.name = "page.yaml" /\ p.dir = dir /\ p.n = i - 1
      BY <2>1, PathFacts DEF Staging
    <3> HIDE DEF p
    <3>3. ObjectVerifies(disk, PageObject(dir, i - 1), all[i])
      BY <3>1, <3>2 DEF FitInv, DiskFits, Has
    <3> QED BY <2>3, <3>3
  <2> HIDE DEF saved, pages
  <2> DEFINE sync == [[job.sync EXCEPT !.checkpoint = saved] EXCEPT !.pages = pages]
  <2>7. resumed.step = "pages" /\ resumed.ops = <<>> /\ resumed.todo = job.todo /\ resumed.sync = sync
    BY <1>1 DEF Fields
  <2>8. sync.checkpoint = saved /\ sync.pages = all
    BY <1>2, <2>5
  <2> HIDE DEF sync, resumed
  <2>9. Len(<<>>) = 0 /\ 1..0 = {} /\ 0 + 1 = 1 /\ 1..(1 - 1) = {}
    OBVIOUS
  <2>10. \A p, x : ObjectVerifies(disk, p, x) => Comes(disk, <<>>, 1, p, x)
    BY <2>9 DEF ObjectVerifies, Comes, Stays
  <2>11. SyncFit(Source, disk, resumed)
    BY <1>4, <2>3, <2>6, <2>7, <2>8, <2>9, <2>10 DEF SyncFit
  <2> QED BY <2>7, <2>9, <2>11 DEF FitJob
<1>5. FitJob(Source, disk, created)
  <2>1. AllPlain(s)
    BY CreatePlain
  <2>2. SyncFit(Source, disk, job)
    BY <1>1 DEF FitInv, FitJob
  <2>3. /\ Linked(Source, job.sync.checkpoint, job.sync.pages) /\ job.sync.pages = <<>>
        /\ job.sync.checkpoint.query = key
    BY <1>1, <2>2 DEF SyncFit
  <2> HIDE DEF s
  <2>4. created.step = "pages" /\ created.ops = s /\ created.todo = job.todo /\ created.sync = job.sync
    BY <1>1 DEF Fields
  <2> HIDE DEF created
  <2>5. 1..Len(<<>>) = {}
    OBVIOUS
  <2>6. SyncFit(Source, disk, created)
    BY <2>3, <2>4, <2>5 DEF SyncFit
  <2> QED BY <2>1, <2>4, <2>6, PlainFits DEF FitJob, AllPlain
<1> HIDE DEF resumed, created, dir
<1> QED BY <1>3, <1>4, <1>5, FitIdle

\* With no call left, what comes is there.
LEMMA PagesThere ==
    ASSUME FitInv, Ready("pages")
    PROVE  LET dir == Attempt(Head(job.todo).key)
               pages == job.sync.pages
           IN  /\ Linked(Source, job.sync.checkpoint, pages)
               /\ job.sync.checkpoint.query = Head(job.todo).key
               /\ \A i \in 1..Len(pages) : /\ ObjectVerifies(disk, PageMeta(dir, i - 1), pages[i])
                                           /\ ObjectVerifies(disk, PageObject(dir, i - 1), pages[i])
<1>1. job.ops = <<>> /\ job.step = "pages"
  BY DEF Ready
<1>2. SyncFit(Source, disk, job)
  BY <1>1 DEF FitInv, FitJob
<1>3. Len(<<>>) + 1 = 1
  OBVIOUS
<1>4. \A p, x : Comes(disk, <<>>, 1, p, x) => ObjectVerifies(disk, p, x)
  BY ComesNow DEF ObjectVerifies
<1> QED BY <1>1, <1>2, <1>3, <1>4 DEF SyncFit

\* A page is staged before it is counted.
LEMMA PageFits ==
    ASSUME FitInv, FetchPage
    PROVE  FitJob(Source, disk, job') /\ faults' = faults
<1> DEFINE key == Head(job.todo).key
           dir == Attempt(key)
           checkpoint == job.sync.checkpoint
           pages == job.sync.pages
           k == Len(pages)
           page == Archive(remote, key, checkpoint.next)
           next == Committed(checkpoint, page)
           s == SavePage(key, k, page, next)
           all == Append(pages, page)
           n == [job EXCEPT !.ops = s, !.sync.checkpoint = next, !.sync.pages = Append(@, page)]
<1>1. /\ Active(disk, job) /\ job.ops = <<>> /\ job.step = "pages" /\ DOMAIN job = Fields
  <2>1. CommandInv /\ Ready("pages")
    BY DEF FitInv, FetchPage
  <2> QED BY <2>1, ReadyFacts DEF Active
<1>2. DOMAIN job.sync = {"daily", "pages", "checkpoint"}
  BY <1>1 DEF Active, SyncOK
<1>3. \/ job' = Idle /\ faults' = faults
      \/ /\ Answer(checkpoint, page) = "accepted" /\ ~PageChanged(disk, dir, k, page)
         /\ job' = n /\ faults' = faults
  BY DEF FetchPage, Fail, Proceed
<1>4. /\ Linked(Source, checkpoint, pages) /\ checkpoint.query = key
      /\ \A i \in 1..k : /\ ObjectVerifies(disk, PageMeta(dir, i - 1), pages[i])
                         /\ ObjectVerifies(disk, PageObject(dir, i - 1), pages[i])
  BY PagesThere DEF FetchPage
<1>5. ~checkpoint.terminal
  BY DEF FetchPage
<1>6. dir[1] = "staging"
  BY DEF Attempt
<1>7. IsSeq(pages) /\ k \in Nat
  BY <1>4, SeqFacts DEF Linked
<1>8. ASSUME Answer(checkpoint, page) = "accepted", ~PageChanged(disk, dir, k, page)
      PROVE  Linked(Source, next, all) /\ next.query = key /\ Saved(Source, disk, s, dir, all)
  <2>1. Linked(Source, next, all) /\ next.committed # 0 /\ next.query = key
    <3>1. \A v \in Source : page = Archive(v, checkpoint.query, checkpoint.next)
      BY <1>4 DEF Source
    <3> HIDE DEF page, checkpoint, pages
    <3> QED BY <1>4, <1>5, <1>8, <3>1, LinkedCommit
  <2> HIDE DEF page, next, key, pages
  <2>2. CASE ~Has(disk, PageMeta(dir, k))
    <3>1. Saved(Source, disk, StagePageOps(disk, dir, Len(pages), page) \o SaveCheckpoint(dir, next),
                dir, Append(pages, page))
      <4> HIDE DEF dir
      <4> QED BY <1>4, <1>6, <1>7, <2>1, <2>2, SaveNew
    <3> QED BY <2>1, <3>1 DEF SavePage
  <2>3. CASE Has(disk, PageMeta(dir, k))
    <3> DEFINE y == PageMeta(dir, k)
    <3>1. disk[y] = page
      BY <1>8, <2>3 DEF PageChanged
    <3>2. Staging(y) /\ y.name = "page.yaml" /\ y.dir = dir /\ y.n = k
      BY <1>6, PathFacts DEF Staging
    <3>3. ObjectVerifies(disk, PageObject(dir, k), page)
      <4> HIDE DEF y, dir, k
      <4>1. ObjectVerifies(disk, PageObject(y.dir, y.n), disk[y])
        BY <2>3, <3>2 DEF FitInv, DiskFits, Has, y
      <4> QED BY <3>1, <3>2, <4>1
    <3>4. ObjectVerifies(disk, PageMeta(dir, k), page)
      BY <2>3, <3>1 DEF ObjectVerifies
    <3>5. Len(all) = k + 1 /\ all[k + 1] = page /\ \A i \in 1..k : all[i] = pages[i]
      BY <1>7, AppendFacts
    <3> HIDE DEF dir, k, all
    <3>6. ASSUME NEW i \in 1..Len(all)
          PROVE  /\ ObjectVerifies(disk, PageMeta(dir, i - 1), all[i])
                 /\ ObjectVerifies(disk, PageObject(dir, i - 1), all[i])
      <4>1. CASE i = k + 1
        <5>1. i - 1 = k
          BY <1>7, <4>1
        <5> QED BY <3>3, <3>4, <3>5, <4>1, <5>1
      <4>2. CASE i # k + 1
        <5>1. i \in 1..k
          BY <1>7, <3>5, <4>2
        <5> QED BY <1>4, <3>5, <5>1
      <4> QED BY <4>1, <4>2
    <3>7. Saved(Source, disk, SaveCheckpoint(dir, next), dir, all)
      BY <1>6, <2>1, <3>6, SaveKnown
    <3>8. s = <<>> \o SaveCheckpoint(dir, next)
      BY <2>3 DEF SavePage, StagePageOps, dir
    <3>9. <<>> \o SaveCheckpoint(dir, next) = SaveCheckpoint(dir, next)
      <4>1. \A S : \A t \in Seq(S) : <<>> \o t = t
        OBVIOUS
      <4>2. IsSeq(SaveCheckpoint(dir, next))
        BY WriteFields DEF SaveCheckpoint
      <4> QED BY <4>1, <4>2 DEF IsSeq
    <3> QED BY <2>1, <3>7, <3>8, <3>9
  <2> QED BY <2>2, <2>3
<1>9. ASSUME Linked(Source, next, all), next.query = key, Saved(Source, disk, s, dir, all)
      PROVE  FitJob(Source, disk, n)
  <2> HIDE DEF s, next, page
  <2> DEFINE sync == [[job.sync EXCEPT !.checkpoint = next] EXCEPT !.pages = Append(@, page)]
  <2>1. n.step = "pages" /\ n.ops = s /\ n.todo = job.todo /\ n.sync = sync
    BY <1>1 DEF Fields
  <2>2. sync.checkpoint = next /\ sync.pages = all
    BY <1>2
  <2> HIDE DEF sync, n, all
  <2>3. SyncFit(Source, disk, n)
    BY <1>9, <2>1, <2>2 DEF SyncFit, Saved
  <2> QED BY <1>9, <2>1, <2>3 DEF FitJob, Saved
<1> HIDE DEF n, s, next, page, all, dir
<1> QED BY <1>3, <1>8, <1>9, FitIdle

\* Only a complete chain is published.
LEMMA RevisionFits ==
    ASSUME FitInv, PublishRevision
    PROVE  FitJob(Source, disk, job') /\ faults' = faults
<1> DEFINE key == Head(job.todo).key
           dir == Attempt(key)
           pages == job.sync.pages
           daily == job.sync.daily
           s == StageDailyOps(dir, daily) \o PublishOps(key, RevisionOf(pages, daily))
           n == [job EXCEPT !.step = "fetch", !.todo = Tail(@), !.sync = <<>>, !.ops = s]
<1>1. DOMAIN job = Fields
  <2>1. CommandInv /\ Ready("pages")
    BY DEF FitInv, PublishRevision
  <2> QED BY <2>1, ReadyFacts DEF Active
<1>2. job' = n /\ faults' = faults
  BY DEF PublishRevision, Proceed
<1>3. /\ Linked(Source, job.sync.checkpoint, pages) /\ job.sync.checkpoint.terminal
      /\ \A i \in 1..Len(pages) : ObjectVerifies(disk, PageObject(dir, i - 1), pages[i])
  BY PagesThere DEF PublishRevision
<1>4. IsSeq(pages) /\ pages # <<>>
  <2>1. Len(<<>>) = 0
    OBVIOUS
  <2> QED BY <1>3, <2>1 DEF Linked
<1>5. \A k \in 1..Len(s) : Fits(Source, disk, s, k)
  <2> HIDE DEF key, pages, daily
  <2> QED BY <1>3, <1>4, PublishFits
<1> HIDE DEF s
<1>6. n.ops = s /\ n.step = "fetch"
  BY <1>1 DEF Fields
<1> HIDE DEF n
<1>7. FitJob(Source, disk, n)
  BY <1>5, <1>6 DEF FitJob
<1> QED BY <1>2, <1>7

\* Damage leaves the attempts alone.
LEMMA DamageFits ==
    ASSUME FitInv, Damage
    PROVE  /\ DiskFits(Source, disk') /\ FitJob(Source, disk', job')
           /\ faults'.damage \in Nat /\ faults'.damage # 0
<1>1. PICK p \in DOMAIN disk :
        \/ /\ p.dir[1] = "revision" /\ p.name = "page.zst"
           /\ disk' = [disk EXCEPT ![p].items = <<"damaged">>]
        \/ /\ p.dir[1] = "cache" /\ p.name = "events.bin"
           /\ disk' = [disk EXCEPT ![p].records = <<"damaged">>]
  BY DEF Damage
<1>2. DOMAIN disk' = DOMAIN disk /\ \A q \in DOMAIN disk : q # p => disk'[q] = disk[q]
  BY <1>1
<1>3. p.dir[1] \in {"revision", "cache"}
  BY <1>1
<1>4. \A q \in DOMAIN disk : Staging(q) => disk'[q] = disk[q]
  BY <1>2, <1>3 DEF Staging
<1>5. DiskFits(Source, disk) /\ job' = Idle
  BY DEF FitInv, Damage
<1> DEFINE d == disk
           e == disk'
<1>6. \A q, x : Staging(q) /\ ObjectVerifies(d, q, x) => ObjectVerifies(e, q, x)
  BY <1>2, <1>4 DEF ObjectVerifies, Has
<1>7. DOMAIN e = DOMAIN d /\ \A q \in DOMAIN d : Staging(q) => e[q] = d[q]
  BY <1>2, <1>4
<1>8. DiskFits(Source, d)
  BY <1>5
<1> HIDE DEF d, e
<1>9. ASSUME NEW q \in DOMAIN e, Staging(q), q.name = "page.yaml"
      PROVE  q.n \in Nat /\ ObjectVerifies(e, PageObject(q.dir, q.n), e[q])
  <2>1. Staging(PageObject(q.dir, q.n))
    BY <1>9, PathFacts DEF Staging
  <2> QED BY <1>6, <1>7, <1>8, <1>9, <2>1 DEF DiskFits
<1>10. ASSUME NEW q \in DOMAIN e, Staging(q), q = Checkpoint(q.dir)
       PROVE  Backed(Source, e, q.dir, e[q])
  <2>1. \A i : Staging(PageMeta(q.dir, i - 1))
    BY <1>10, PathFacts DEF Staging
  <2>2. e[q] = d[q] /\ Backed(Source, d, q.dir, d[q])
    BY <1>7, <1>8, <1>10 DEF DiskFits
  <2> QED BY <1>6, <2>1, <2>2 DEF Backed
<1>11. DiskFits(Source, e)
  BY <1>9, <1>10 DEF DiskFits
<1>12. faults'.damage \in Nat /\ faults'.damage # 0
  <2>1. faults.damage \in Nat /\ faults' = [faults EXCEPT !.damage = @ + 1] /\ DOMAIN faults = {"crashes", "changes", "damage"}
    BY DEF FitInv, Damage
  <2> QED BY <2>1
<1> QED BY <1>5, <1>11, <1>12, FitIdle DEF e

-----------------------------------------------------------------------------
(* The theorems.                                                           *)

LEMMA FitInit == Init => FitInv
<1> SUFFICES ASSUME Init PROVE FitInv
  OBVIOUS
<1>1. DOMAIN disk = {} /\ job = Idle
  BY DEF Init
<1>2. DOMAIN faults = {"crashes", "changes", "damage"} /\ faults.damage = 0 /\ faults.changes = 0
  BY DEF Init
<1>3. DiskFits(Source, disk) /\ CurrentFit(disk)
  BY <1>1 DEF DiskFits, CurrentFit
<1> QED BY <1>1, <1>2, <1>3, CommandInit, FitIdle DEF FitInv

\* A step changes the archive or leaves it as it is, and counts the changes.
LEMMA SourceStep ==
    ASSUME FitInv, [Next]_vars
    PROVE  Source' \subseteq Source /\ faults'.changes \in Nat
<1>1. faults.changes \in Nat /\ DOMAIN faults = {"crashes", "changes", "damage"}
  BY DEF FitInv
<1>2. CASE ArchiveChanges
  <2>1. faults' = [faults EXCEPT !.changes = @ + 1]
    BY <1>2 DEF ArchiveChanges
  <2>2. faults'.changes \in Nat /\ faults'.changes # 0
    BY <1>1, <2>1
  <2> QED BY <2>2 DEF Source
<1>3. CASE Crash \/ Damage
  <2>1. remote' = remote
    BY <1>3 DEF Crash, Damage
  <2>2. faults'.changes = faults.changes
    <3>1. CASE Crash
      BY <1>1, <3>1 DEF Crash
    <3>2. CASE Damage
      BY <1>1, <3>2 DEF Damage
    <3> QED BY <1>3, <3>1, <3>2
  <2> QED BY <1>1, <2>1, <2>2 DEF Source
<1>4. ASSUME remote' = remote, faults' = faults
      PROVE  Source' \subseteq Source /\ faults'.changes \in Nat
  BY <1>1, <1>4 DEF Source
<1>5. ASSUME NEW n, Proceed(n) PROVE remote' = remote /\ faults' = faults
  BY <1>5 DEF Proceed
<1>6. ASSUME NEW error, Fail(error) PROVE remote' = remote /\ faults' = faults
  BY <1>6 DEF Fail
<1>7. CASE Begin \/ Finish \/ TransportFails \/ UNCHANGED vars
  BY <1>4, <1>6, <1>7 DEF Begin, Finish, TransportFails, vars
<1>8. CASE FileCall
  BY <1>4, <1>6, <1>8 DEF FileCall
<1>9. CASE PlanStage \/ VerifyStage \/ InspectStage \/ SyncDone \/ PrepareDone \/ SkipReused
           \/ PrepareStage \/ FetchSingles \/ PublishRevision
  BY <1>4, <1>5, <1>6, <1>9
     DEF PlanStage, VerifyStage, InspectStage, SyncDone, PrepareDone, SkipReused, PrepareStage,
         FetchSingles, PublishRevision
<1>10. CASE SyncStage
  BY <1>4, <1>5, <1>6, <1>10 DEF SyncStage
<1>11. CASE OpenStaging
  BY <1>4, <1>5, <1>6, <1>11 DEF OpenStaging
<1>12. CASE FetchPage
  BY <1>4, <1>5, <1>6, <1>12 DEF FetchPage
<1>13. CASE PreparePartition
  BY <1>4, <1>5, <1>6, <1>13 DEF PreparePartition
<1>14. CASE ReplayStage
  BY <1>4, <1>5, <1>6, <1>14 DEF ReplayStage
<1> QED BY <1>2, <1>3, <1>7, <1>8, <1>9, <1>10, <1>11, <1>12, <1>13, <1>14 DEF Next, Step

\* What fits the archive's answers so far fits fewer of them.
LEMMA FitLess ==
    ASSUME NEW V, NEW W, W \subseteq V, NEW d, NEW j
    PROVE  /\ DiskFits(V, d) => DiskFits(W, d)
           /\ FitJob(V, d, j) => FitJob(W, d, j)
<1>1. ASSUME NEW c, NEW pages, Linked(V, c, pages) PROVE Linked(W, c, pages)
  BY <1>1 DEF Linked, Asked
<1>2. ASSUME NEW dir, NEW c, Backed(V, d, dir, c) PROVE Backed(W, d, dir, c)
  BY <1>1, <1>2 DEF Backed
<1>3. ASSUME NEW s, NEW k, Fits(V, d, s, k) PROVE Fits(W, d, s, k)
  BY <1>1, <1>3 DEF Fits, FitsCheckpoint
<1>4. ASSUME SyncFit(V, d, j) PROVE SyncFit(W, d, j)
  BY <1>1, <1>4 DEF SyncFit
<1>5. DiskFits(V, d) => DiskFits(W, d)
  BY <1>2 DEF DiskFits
<1>6. FitJob(V, d, j) => FitJob(W, d, j)
  BY <1>3, <1>4 DEF FitJob
<1> QED BY <1>5, <1>6

\* Every step of a command, every crash and every damage keeps the invariant.
LEMMA FitNext ==
    ASSUME FitInv, [Next]_vars
    PROVE  FitInv'
<1>1. CommandInv'
  BY CommandNext DEF FitInv
<1>2. Source' \subseteq Source /\ faults'.changes \in Nat
  BY SourceStep
<1>3. ASSUME DiskFits(Source, disk'), FitJob(Source, disk', job'), DOMAIN faults' = DOMAIN faults,
             faults'.damage \in Nat, faults'.damage = 0 => CurrentFit(disk')
      PROVE  FitInv'
  <2>1. DiskFits(Source', disk') /\ FitJob(Source', disk', job')
    BY <1>2, <1>3, FitLess
  <2>2. DOMAIN faults' = {"crashes", "changes", "damage"}
    BY <1>3 DEF FitInv
  <2> QED BY <1>1, <1>2, <1>3, <2>1, <2>2 DEF FitInv
<1>4. CASE FileCall
  <2>1. /\ DiskFits(Source, disk') /\ FitJob(Source, disk', job')
        /\ faults' = faults /\ (CurrentFit(disk) => CurrentFit(disk'))
    BY <1>4, FileCallFits
  <2>2. faults.damage \in Nat /\ (faults.damage = 0 => CurrentFit(disk))
    BY DEF FitInv
  <2> QED BY <1>3, <2>1, <2>2
<1>5. CASE Damage
  <2>1. /\ DiskFits(Source, disk') /\ FitJob(Source, disk', job')
        /\ faults'.damage \in Nat /\ faults'.damage # 0
    BY <1>5, DamageFits
  <2>2. DOMAIN faults' = DOMAIN faults
    BY <1>5 DEF Damage
  <2> QED BY <1>3, <2>1, <2>2
<1>6. ASSUME disk' = disk, FitJob(Source, disk, job'), DamageKept
      PROVE  FitInv'
  <2>1. DiskFits(Source, disk) /\ faults.damage \in Nat /\ (faults.damage = 0 => CurrentFit(disk))
    BY DEF FitInv
  <2> QED BY <1>3, <1>6, <2>1 DEF DamageKept
<1>7. CASE ArchiveChanges
  <2>1. disk' = disk /\ job' = job /\ faults' = [faults EXCEPT !.changes = @ + 1]
    BY <1>7 DEF ArchiveChanges
  <2>2. DamageKept
    BY <2>1 DEF FitInv, DamageKept
  <2>3. FitJob(Source, disk, job')
    BY <2>1 DEF FitInv
  <2> QED BY <1>6, <2>1, <2>2, <2>3
<1>8. CASE UNCHANGED vars
  <2>1. disk' = disk /\ job' = job /\ faults' = faults
    BY <1>8 DEF vars
  <2>2. FitJob(Source, disk, job') /\ DamageKept
    BY <2>1 DEF FitInv, DamageKept
  <2> QED BY <1>6, <2>1, <2>2
<1>9. CASE \/ Begin \/ Finish \/ PlanStage \/ VerifyStage \/ SyncStage \/ SyncDone
           \/ SkipReused \/ PrepareStage \/ PrepareDone \/ PreparePartition
           \/ ReplayStage \/ InspectStage \/ TransportFails \/ Crash
  <2>1. CommandInv
    BY DEF FitInv
  <2>2. disk' = disk
    BY <1>9, <2>1, BeginStep, StopStep, PlanStep, VerifyStep, SyncStep, DoneStep, SkipStep,
       PrepareStep, ReplayStep
  <2>3. FitJob(Source, disk, job') /\ DamageKept
    BY <1>9, PlainStep, FitPlain
  <2> QED BY <1>6, <2>2, <2>3
<1>10. CASE FetchSingles \/ OpenStaging \/ FetchPage \/ PublishRevision
  <2>1. CommandInv
    BY DEF FitInv
  <2>2. disk' = disk
    BY <1>10, <2>1, FetchStep, OpenStep, PageStep, PublishStep
  <2>3. FitJob(Source, disk, job') /\ faults' = faults
    BY <1>10, FetchFits, OpenFits, PageFits, RevisionFits
  <2> QED BY <1>6, <2>2, <2>3 DEF DamageKept
<1> QED BY <1>4, <1>5, <1>7, <1>8, <1>9, <1>10 DEF Next, Step

\* What the invariant says of a published partition and of a checkpoint.
LEMMA FitCurrent ==
    ASSUME FitInv
    PROVE  CurrentAlwaysVerifies
<1> SUFFICES ASSUME faults.damage = 0, NEW key \in Keys, Has(disk, Current(key))
             PROVE  Verifies(disk, key)
  BY DEF CurrentAlwaysVerifies
<1> DEFINE p == Current(key)
           r == disk[p]
           dir == RevisionDir(key, r)
           objects == {<<PageObject(dir, i - 1), r.pages[i]>> : i \in 1..Len(r.pages)}
                        \cup {<<File(dir, "daily.zst"), r.daily>>}
<1>1. p.dir[1] = "source" /\ p.dir[2] = key.place /\ p.name = "current.yaml"
  BY DEF Current, File, At, SourceRoot
<1>2. Whole(disk, dir, r)
  BY <1>1 DEF FitInv, CurrentFit, Has, RevisionDir
<1> HIDE DEF p, dir
<1>3. \A o \in objects : ObjectVerifies(disk, o[1], o[2])
  BY <1>2 DEF Whole
<1>4. \A o \in objects : Has(disk, o[1])
  BY <1>3 DEF ObjectVerifies
<1>5. r.pages # <<>> /\ Has(disk, File(dir, "manifest.yaml")) /\ disk[File(dir, "manifest.yaml")] = r
  BY <1>2 DEF Whole, ObjectVerifies
<1>6. VerificationError(disk, key) = "none"
  BY <1>3, <1>4, <1>5 DEF VerificationError, p, dir
<1> QED BY <1>6 DEF Verifies

LEMMA FitCheckpoint ==
    ASSUME FitInv
    PROVE  CheckpointIsBacked
<1> SUFFICES ASSUME NEW key \in Keys, Has(disk, Checkpoint(Attempt(key)))
             PROVE  LET dir == Attempt(key)
                        saved == disk[Checkpoint(dir)]
                        pages == ResumedPages(disk, dir, saved.committed)
                    IN  /\ ~ResumeRefused(disk, dir, saved.committed)
                        /\ \A i \in 1..saved.committed :
                             ObjectVerifies(disk, PageObject(dir, i - 1), pages[i])
                        /\ IsChain(pages)
                        /\ saved.next = Last(pages).next
  BY DEF CheckpointIsBacked
<1> DEFINE dir == Attempt(key)
           saved == disk[Checkpoint(dir)]
<1>1. dir[1] = "staging"
  BY DEF Attempt
<1> HIDE DEF dir
<1>2. Staging(Checkpoint(dir)) /\ Checkpoint(dir).dir = dir
  BY <1>1, PathFacts DEF Staging
<1>3. Backed(Source, disk, dir, saved) /\ DiskFits(Source, disk) /\ IsFiniteSet(DOMAIN disk)
  BY <1>2 DEF FitInv, DiskFits, Has, dir, CommandInv, DiskOK
<1> HIDE DEF saved
<1>4. PICK pages : /\ Linked(Source, saved, pages) /\ saved.committed # 0
                   /\ \A i \in 1..Len(pages) : ObjectVerifies(disk, PageMeta(dir, i - 1), pages[i])
  BY <1>3 DEF Backed
<1>5. /\ saved.committed \in Nat /\ IsSeq(pages) /\ Len(pages) = saved.committed
      /\ IsChain(pages) /\ saved.next = pages[saved.committed].next
  BY <1>4 DEF Linked, Counted
<1>6. ~ResumeRefused(disk, dir, saved.committed) /\ ResumedPages(disk, dir, saved.committed) = pages
  BY <1>1, <1>3, <1>4, <1>5, ResumedAre
<1>7. ASSUME NEW i \in 1..saved.committed
      PROVE  ObjectVerifies(disk, PageObject(dir, i - 1), pages[i])
  <2> DEFINE q == PageMeta(dir, i - 1)
  <2>1. Has(disk, q) /\ disk[q] = pages[i]
    BY <1>4, <1>5 DEF ObjectVerifies
  <2>2. Staging(q) /\ q.dir = dir /\ q.name = "page.yaml" /\ q.n = i - 1
    BY <1>1, PathFacts DEF Staging
  <2> HIDE DEF q
  <2> QED BY <1>3, <2>1, <2>2 DEF DiskFits, Has
<1>8. Last(pages) = pages[saved.committed]
  BY <1>5 DEF Last
<1> QED BY <1>5, <1>6, <1>7, <1>8 DEF dir, saved

\* What current.yaml names is always whole (StagingRevision::publish moves the
\* staged directory before it renames current.yaml into place): as long as
\* nothing on the disk is damaged from outside, verify_current accepts every
\* published partition between any two file-system calls, whichever calls
\* failed and wherever a command crashed.
THEOREM CurrentVerifies == Spec => []CurrentAlwaysVerifies
BY FitInit, FitNext, FitCurrent, PTL DEF Spec

\* A saved checkpoint is always backed (stage_page writes the object, then its
\* metadata, and CursorCheckpoint::save comes last; the cleanup removes it
\* first): wherever a download stopped, open_or_create resumes it with exactly
\* the pages counted, each with its object, in one cursor chain that the
\* checkpoint's cursor continues.
THEOREM CheckpointAlwaysBacked == Spec => []CheckpointIsBacked
BY FitInit, FitNext, FitCheckpoint, PTL DEF Spec

-----------------------------------------------------------------------------
(* What is published is the archive's: partition.yaml names the partition  *)
(* before anything is staged or published for it, and only a whole chain   *)
(* of the archive's own answers becomes a revision.                        *)

Named(d, place, key) ==
    LET p == File(<<"source", place>>, "partition.yaml") IN Has(d, p) /\ d[p] = key
ArchiveOf(V, key, pages) == IsChain(pages) /\ Last(pages).next = 0 /\ Asked(V, key, pages)
IsPointer(p) == p.dir[1] = "source" /\ p.name = "current.yaml"

\* What a call asks: the partition of a checkpoint that is saved, or of a
\* revision that is published, is named already.
Rooted(V, d, o) ==
    /\ Renames(o, "checkpoint.json") => Named(d, o.to.dir[2], o.to.dir[3])
    /\ o.op = "rename" /\ IsPointer(o.to) =>
         \E key : Named(d, o.to.dir[2], key) /\ ArchiveOf(V, key, o.data.pages)
DiskRooted(V, d) ==
    /\ \A p \in DOMAIN d : Staging(p) /\ p.name = "checkpoint.json" =>
         Named(d, p.dir[2], p.dir[3])
    /\ \A p \in DOMAIN d : IsPointer(p) =>
         \E key : Named(d, p.dir[2], key) /\ ArchiveOf(V, key, d[p].pages)

\* A download's partition is named, or one of the calls left names it.
Names(o, key) == o.op = "rename" /\ o.to = PartitionFile(key) /\ o.data = key
JobRooted(V, d, j) ==
    /\ \A k \in 1..Len(j.ops) : Rooted(V, d, j.ops[k])
    /\ j.step = "pages" =>
         LET key == Head(j.todo).key
         IN  Named(d, key.place, key) \/ \E k \in 1..Len(j.ops) : Names(j.ops[k], key)
RootInv ==
    /\ FitInv
    /\ DiskRooted(Source, disk)
    /\ JobRooted(Source, disk, job)

\* partition.yaml is final.
LEMMA NamedKept ==
    ASSUME NEW d, NEW e, Kept(d, e), NEW place, NEW key, Named(d, place, key)
    PROVE  Named(e, place, key)
<1> DEFINE p == File(<<"source", place>>, "partition.yaml")
<1>1. p.dir[1] = "source" /\ p.name = "partition.yaml"
  BY DEF File, At
<1>2. IsFinal(p)
  BY <1>1 DEF IsFinal
<1>3. Has(d, p) /\ d[p] = key
  BY DEF Named
<1>4. Has(e, p) /\ e[p] = key
  BY <1>2, <1>3 DEF Kept, Has
<1> QED BY <1>4 DEF Named

\* A rooted call leaves a rooted disk.
LEMMA RootedCall ==
    ASSUME NEW V, NEW d, NEW o, AllPaths(d), Harmless(o), Free(d, o), Rooted(V, d, o),
           DiskRooted(V, d)
    PROVE  DiskRooted(V, Applied(d, o))
<1> DEFINE e == Applied(d, o)
<1>1. Kept(d, e) /\ \A p \in DOMAIN e : p \in DOMAIN d \/ Makes(o, p)
  BY CallKept
<1>2. o.op = "rename" => e[o.to] = o.data
  BY AppliedFacts
<1> HIDE DEF e
<1>3. \A place, key : Named(d, place, key) => Named(e, place, key)
  BY <1>1, NamedKept
<1>4. ASSUME NEW p \in DOMAIN e, Staging(p), p.name = "checkpoint.json"
      PROVE  Named(e, p.dir[2], p.dir[3])
  <2>1. CASE p \in DOMAIN d
    BY <1>3, <1>4, <2>1 DEF DiskRooted
  <2>2. CASE Makes(o, p)
    <3>1. o.op = "rename" /\ o.to = p
      BY <1>4, <2>2 DEF Makes, Harmless, Counts, Staging, Sealed
    <3> QED BY <1>3, <1>4, <3>1 DEF Rooted, Renames
  <2> QED BY <1>1, <2>1, <2>2
<1>5. ASSUME NEW p \in DOMAIN e, IsPointer(p)
      PROVE  \E key : Named(e, p.dir[2], key) /\ ArchiveOf(V, key, e[p].pages)
  <2>1. IsFinal(p)
    BY <1>5 DEF IsPointer, IsFinal
  <2>2. CASE p \in DOMAIN d
    <3>1. e[p] = d[p]
      BY <1>1, <2>1, <2>2 DEF Kept
    <3> QED BY <1>3, <1>5, <2>2, <3>1 DEF DiskRooted
  <2>3. CASE Makes(o, p)
    <3>1. o.op = "rename" /\ o.to = p
      BY <1>5, <2>1, <2>3 DEF Makes, Harmless, IsPointer, Sealed
    <3> QED BY <1>2, <1>3, <1>5, <3>1 DEF Rooted
  <2> QED BY <1>1, <2>2, <2>3
<1> QED BY <1>4, <1>5 DEF DiskRooted, e

\* Plain calls ask nothing, calls on the attempt of a named partition neither.
LEMMA RootPlain ==
    ASSUME NEW V, NEW d, NEW j, PlainJob(j)
    PROVE  JobRooted(V, d, j)
BY DEF PlainJob, AllPlain, Plain, JobRooted, Rooted, IsPointer

LEMMA RootedAttempt ==
    ASSUME NEW V, NEW d, NEW key, Named(d, key.place, key), NEW o, o.to.dir = Attempt(key)
    PROVE  Rooted(V, d, o)
<1>1. o.to.dir[1] = "staging" /\ o.to.dir[2] = key.place /\ o.to.dir[3] = key
  BY DEF Attempt
<1> QED BY <1>1 DEF Rooted, IsPointer

\* The next call of the command.
LEMMA FileCallRooted ==
    ASSUME RootInv, FileCall
    PROVE  DiskRooted(Source, disk') /\ JobRooted(Source, disk', job')
<1> DEFINE s == job.ops
           o == Head(job.ops)
           key == Head(job.todo).key
<1>1. FitInv /\ CommandInv /\ Active(disk, job) /\ DiskOK(disk) /\ s # <<>>
  BY DEF RootInv, FitInv, CommandInv, FileCall
<1>2. OpsOK(disk, s) /\ IsSeq(s) /\ AllPaths(disk)
  BY <1>1 DEF Active, OpsOK, DiskOK
<1>3. o = s[1] /\ 1 \in 1..Len(s) /\ Len(s) \in Nat /\ Len(Tail(s)) = Len(s) - 1
      /\ \A k \in 1..Len(Tail(s)) : Tail(s)[k] = s[k + 1]
  BY <1>1, <1>2, SeqFacts
<1>4. DiskRooted(Source, disk) /\ JobRooted(Source, disk, job)
  BY DEF RootInv
<1>5. CASE Refused(disk, o)
  <2>1. job' = Idle /\ disk' = disk
    BY <1>5 DEF FileCall, Fail
  <2> QED BY <1>4, <2>1, PlainIdle, RootPlain
<1>6. CASE ~Refused(disk, o)
  <2> DEFINE n == [job EXCEPT !.ops = Tail(@)]
             e == Applied(disk, o)
  <2>1. job' = n /\ disk' = e
    BY <1>6 DEF FileCall
  <2>2. Harmless(o) /\ Free(disk, o)
    <3>1. o.op = "move" => ~DirExists(disk, o.to.dir)
      BY <1>2, <1>3 DEF OpsOK, Guarded
    <3> QED BY <1>2, <1>3, <3>1 DEF OpsOK, Free
  <2>3. \A k \in 1..Len(s) : Rooted(Source, disk, s[k])
    BY <1>4 DEF JobRooted
  <2>4. DiskRooted(Source, e)
    <3>1. Rooted(Source, disk, o)
      BY <1>3, <2>3
    <3> HIDE DEF o
    <3> QED BY <1>2, <1>4, <2>2, <3>1, RootedCall
  <2>5. n.step = job.step /\ n.ops = Tail(s) /\ n.todo = job.todo
    BY <1>1 DEF Active, Fields
  <2>6. Kept(disk, e)
    BY <1>2, <2>2, CallKept
  <2>7. o.op = "rename" => Has(e, o.to) /\ e[o.to] = o.data
    <3>1. ASSUME o.op = "rename"
          PROVE  DOMAIN e = (DOMAIN disk \ {o.path}) \cup {o.to} /\ e[o.to] = o.data
      <4> HIDE DEF o
      <4> QED BY <3>1, AppliedFacts
    <3> QED BY <3>1 DEF Has
  <2> HIDE DEF e, n, o
  <2>8. \A place, k : Named(disk, place, k) => Named(e, place, k)
    BY <2>6, NamedKept
  <2>9. \A k \in 1..Len(Tail(s)) : k + 1 \in 1..Len(s)
    BY <1>3
  <2>10. ASSUME NEW k \in 1..Len(Tail(s)) PROVE Rooted(Source, e, Tail(s)[k])
    <3>1. Rooted(Source, disk, Tail(s)[k])
      BY <1>3, <2>3, <2>9
    <3> HIDE DEF s
    <3> QED BY <2>8, <3>1 DEF Rooted
  <2>11. ASSUME job.step = "pages"
         PROVE  Named(e, key.place, key) \/ \E k \in 1..Len(Tail(s)) : Names(Tail(s)[k], key)
    <3>1. Named(disk, key.place, key) \/ \E k \in 1..Len(s) : Names(s[k], key)
      BY <1>4, <2>11 DEF JobRooted
    <3>2. ASSUME Names(o, key) PROVE Named(e, key.place, key)
      BY <2>7, <3>2 DEF Names, Named, PartitionFile, SourceRoot
    <3>3. ASSUME NEW k \in 1..Len(s), Names(s[k], key), k # 1
          PROVE  \E i \in 1..Len(Tail(s)) : Names(Tail(s)[i], key)
      <4>1. k - 1 \in 1..Len(Tail(s)) /\ (k - 1) + 1 = k
        BY <1>3, <3>3
      <4>2. Tail(s)[k - 1] = s[k]
        BY <1>3, <4>1
      <4> QED BY <3>3, <4>1, <4>2
    <3> QED BY <1>3, <2>8, <3>1, <3>2, <3>3
  <2>12. JobRooted(Source, e, n)
    <3> HIDE DEF s
    <3> QED BY <2>5, <2>10, <2>11 DEF JobRooted
  <2> QED BY <2>1, <2>4, <2>12
<1> QED BY <1>5, <1>6

\* The partition is named when a page is asked for.
LEMMA NamedThere ==
    ASSUME RootInv, Ready("pages")
    PROVE  LET key == Head(job.todo).key IN Named(disk, key.place, key)
<1>1. job.ops = <<>> /\ job.step = "pages" /\ JobRooted(Source, disk, job)
  BY DEF Ready, RootInv
<1>2. 1..Len(<<>>) = {}
  OBVIOUS
<1> QED BY <1>1, <1>2 DEF JobRooted

\* A resumed attempt is one of a named partition, a new one names it first.
LEMMA OpenRooted ==
    ASSUME RootInv, OpenStaging
    PROVE  JobRooted(Source, disk, job')
<1> DEFINE key == Head(job.todo).key
           dir == Attempt(key)
           saved == disk[Checkpoint(dir)]
           pages == ResumedPages(disk, dir, saved.committed)
           resumed == [job EXCEPT !.step = "pages", !.sync.checkpoint = saved, !.sync.pages = pages]
           s == CreateOps(disk, key)
           created == [job EXCEPT !.step = "pages", !.ops = s]
<1>1. job.ops = <<>> /\ DOMAIN job = Fields
  <2>1. CommandInv /\ Ready("open")
    BY DEF RootInv, FitInv, OpenStaging
  <2> QED BY <2>1, ReadyFacts DEF Active
<1>2. \/ job' = Idle
      \/ Has(disk, Checkpoint(dir)) /\ job' = resumed
      \/ ~LayoutRefused(disk, key) /\ job' = created
  BY DEF OpenStaging, Fail, LoadCheckpoint, Proceed
<1>3. 1..Len(<<>>) = {}
  OBVIOUS
<1>4. ASSUME Has(disk, Checkpoint(dir)) PROVE JobRooted(Source, disk, resumed)
  <2> DEFINE c == Checkpoint(dir)
  <2>1. /\ Staging(c) /\ c.name = "checkpoint.json" /\ c.dir[2] = key.place /\ c.dir[3] = key
    BY PathFacts DEF Staging, Attempt
  <2>2. Named(disk, key.place, key)
    <3> HIDE DEF c
    <3>1. Named(disk, c.dir[2], c.dir[3])
      BY <1>4, <2>1 DEF RootInv, DiskRooted, Has, c
    <3> QED BY <2>1, <3>1
  <2> HIDE DEF saved, pages
  <2>3. resumed.step = "pages" /\ resumed.ops = <<>> /\ resumed.todo = job.todo
    BY <1>1 DEF Fields
  <2> HIDE DEF resumed
  <2> QED BY <1>3, <2>2, <2>3 DEF JobRooted
<1>5. ASSUME ~LayoutRefused(disk, key) PROVE JobRooted(Source, disk, created)
  <2> DEFINE tmp == File(SourceRoot(key), "partition.tmp")
             layout == <<Put(tmp, "tmp"), Rename(tmp, PartitionFile(key), key)>>
             mark == <<MakeDir(Attempt(key))>>
  <2>1. AllPlain(s)
    BY CreatePlain
  <2>2. Named(disk, key.place, key) \/ \E k \in 1..Len(s) : Names(s[k], key)
    <3>1. CASE Has(disk, PartitionFile(key))
      BY <1>5, <3>1 DEF LayoutRefused, Named, PartitionFile, SourceRoot
    <3>2. CASE ~Has(disk, PartitionFile(key))
      <4>1. s = layout \o mark
        BY <3>2 DEF CreateOps, LayoutOps
      <4>2. IsSeq(layout) /\ Len(layout) = 2 /\ layout[2] = Rename(tmp, PartitionFile(key), key)
            /\ IsSeq(mark) /\ Len(mark) = 1
        BY TupleFacts
      <4> HIDE DEF layout, mark
      <4>3. IsSeq(layout) /\ IsSeq(mark)
        BY <4>2
      <4>4. /\ Len(layout \o mark) = Len(layout) + Len(mark)
            /\ \A k \in 1..Len(layout) : (layout \o mark)[k] = layout[k]
        BY <4>3, ConcatAt
      <4>5. 2 \in 1..Len(s) /\ s[2] = Rename(tmp, PartitionFile(key), key)
        BY <4>1, <4>2, <4>4
      <4>6. Names(s[2], key)
        BY <4>5, CallFields DEF Names
      <4> QED BY <4>5, <4>6
    <3> QED BY <3>1, <3>2
  <2> HIDE DEF s
  <2>3. created.step = "pages" /\ created.ops = s /\ created.todo = job.todo
    BY <1>1 DEF Fields
  <2> HIDE DEF created
  <2>4. \A k \in 1..Len(s) : Rooted(Source, disk, s[k])
    BY <2>1 DEF AllPlain, Plain, Rooted, IsPointer
  <2> QED BY <2>2, <2>3, <2>4 DEF JobRooted
<1> HIDE DEF resumed, created, dir
<1> QED BY <1>2, <1>4, <1>5, PlainIdle, RootPlain

\* Calls all made in one directory.
Within(s, dir) == IsSeq(s) /\ \A k \in 1..Len(s) : s[k].to.dir = dir

LEMMA WithinConcat ==
    ASSUME NEW s, NEW t, NEW dir, Within(s, dir), Within(t, dir)
    PROVE  Within(s \o t, dir)
<1> DEFINE n == Len(s)
           m == Len(t)
           u == s \o t
<1>1. /\ IsSeq(u) /\ Len(u) = n + m
      /\ \A k \in 1..n : u[k] = s[k]
      /\ \A k \in 1..m : u[n + k] = t[k]
      /\ \A k \in 1..(n + m) : k \in 1..n \/ (k - n \in 1..m /\ k = n + (k - n))
  BY ConcatAt DEF Within
<1>2. (\A k \in 1..n : s[k].to.dir = dir) /\ (\A k \in 1..m : t[k].to.dir = dir)
  BY DEF Within
<1> HIDE DEF n, m, u
<1>3. ASSUME NEW k \in 1..(n + m) PROVE u[k].to.dir = dir
  <2>1. CASE k \in 1..n
    BY <1>1, <1>2, <2>1
  <2>2. CASE k - n \in 1..m /\ k = n + (k - n)
    <3>1. u[k] = t[k - n]
      BY <1>1, <2>2
    <3> QED BY <1>2, <2>2, <3>1
  <2> QED BY <1>1, <2>1, <2>2
<1> QED BY <1>1, <1>3 DEF Within, u

LEMMA WithinWrite ==
    ASSUME NEW p, NEW tmp, NEW x, tmp.dir = p.dir
    PROVE  Within(WriteAtomic(p, tmp, x), p.dir)
<1> DEFINE s == WriteAtomic(p, tmp, x)
<1>1. IsSeq(s) /\ Len(s) = 2 /\ s[1] = Create(tmp) /\ s[2] = Rename(tmp, p, x)
  BY WriteFields
<1>2. Create(tmp).to = tmp /\ Rename(tmp, p, x).to = p
  BY DEF Create, Rename, Call
<1> HIDE DEF s
<1>3. \A k \in 1..2 : k = 1 \/ k = 2
  OBVIOUS
<1>4. \A k \in 1..Len(s) : s[k].to.dir = p.dir
  BY <1>1, <1>2, <1>3
<1> QED BY <1>1, <1>4 DEF Within, s

\* A page and its checkpoint are written in the attempt.
LEMMA SaveWithin ==
    ASSUME NEW key, NEW n, NEW page, NEW saved
    PROVE  Within(SavePage(key, n, page, saved), Attempt(key))
<1> DEFINE dir == Attempt(key)
           object == WriteAtomic(PageObject(dir, n), At(dir, "page.zst.tmp", n), page)
           meta == WriteAtomic(PageMeta(dir, n), At(dir, "page.tmp", n), page)
           mark == SaveCheckpoint(dir, saved)
<1> HIDE DEF dir
<1>1. /\ PageObject(dir, n).dir = dir /\ At(dir, "page.zst.tmp", n).dir = dir
      /\ PageMeta(dir, n).dir = dir /\ At(dir, "page.tmp", n).dir = dir
      /\ Checkpoint(dir).dir = dir /\ File(dir, "checkpoint.tmp").dir = dir
  BY PathFacts DEF File
<1>2. Within(object, dir) /\ Within(meta, dir) /\ Within(mark, dir)
  BY <1>1, WithinWrite DEF SaveCheckpoint
<1>3. Within(<<>>, dir)
  BY TupleFacts DEF Within
<1> HIDE DEF object, meta, mark
<1>4. Within(StagePageOps(disk, dir, n, page), dir)
  BY <1>2, <1>3, WithinConcat DEF StagePageOps, object, meta
<1>5. Within(StagePageOps(disk, dir, n, page) \o mark, dir)
  BY <1>2, <1>4, WithinConcat
<1> QED BY <1>5 DEF SavePage, dir, mark

LEMMA PageRooted ==
    ASSUME RootInv, FetchPage
    PROVE  JobRooted(Source, disk, job')
<1> DEFINE key == Head(job.todo).key
           checkpoint == job.sync.checkpoint
           page == Archive(remote, key, checkpoint.next)
           next == Committed(checkpoint, page)
           s == SavePage(key, Len(job.sync.pages), page, next)
           n == [job EXCEPT !.ops = s, !.sync.checkpoint = next, !.sync.pages = Append(@, page)]
<1>1. DOMAIN job = Fields
  <2>1. CommandInv /\ Ready("pages")
    BY DEF RootInv, FitInv, FetchPage
  <2> QED BY <2>1, ReadyFacts DEF Active
<1>2. job' = Idle \/ job' = n
  BY DEF FetchPage, Fail, Proceed
<1>3. Named(disk, key.place, key)
  BY NamedThere DEF FetchPage
<1>4. Within(s, Attempt(key))
  BY SaveWithin
<1> HIDE DEF s, next, page
<1>5. n.ops = s /\ n.todo = job.todo
  BY <1>1 DEF Fields
<1> HIDE DEF n
<1>6. \A k \in 1..Len(s) : Rooted(Source, disk, s[k])
  BY <1>3, <1>4, RootedAttempt DEF Within
<1>7. JobRooted(Source, disk, n)
  BY <1>3, <1>5, <1>6 DEF JobRooted
<1> QED BY <1>2, <1>7, PlainIdle, RootPlain

\* What is published is complete, and all of it the archive's own.
LEMMA RevisionRooted ==
    ASSUME RootInv, PublishRevision
    PROVE  JobRooted(Source, disk, job')
<1> DEFINE key == Head(job.todo).key
           dir == Attempt(key)
           pages == job.sync.pages
           daily == job.sync.daily
           c == job.sync.checkpoint
           s == StageDailyOps(dir, daily) \o PublishOps(key, RevisionOf(pages, daily))
           n == [job EXCEPT !.step = "fetch", !.todo = Tail(@), !.sync = <<>>, !.ops = s]
           M == Len(pages)
<1>1. DOMAIN job = Fields /\ FitInv /\ Ready("pages")
  <2>1. FitInv /\ CommandInv /\ Ready("pages")
    BY DEF RootInv, FitInv, PublishRevision
  <2> QED BY <2>1, ReadyFacts DEF Active
<1>2. job' = n
  BY DEF PublishRevision, Proceed
<1>3. Linked(Source, c, pages) /\ c.query = key /\ c.terminal
  BY <1>1, PagesThere DEF PublishRevision
<1>4. Named(disk, key.place, key)
  BY <1>1, NamedThere
<1>5. ArchiveOf(Source, key, pages)
  <2> HIDE DEF pages, c, key
  <2>1. c.committed # 0 /\ M = c.committed /\ c.next = 0 /\ c.next = pages[c.committed].next
        /\ IsChain(pages) /\ Asked(Source, key, pages)
    BY <1>3 DEF Linked
  <2>2. Last(pages).next = 0
    BY <2>1 DEF Last
  <2> QED BY <2>1, <2>2 DEF ArchiveOf
<1>6. IsSeq(pages)
  BY <1>3 DEF Linked
<1>7. Publishes(s, key, pages, daily)
  BY <1>6, PublishCalls
<1> HIDE DEF s, M
<1>8. n.ops = s /\ n.step = "fetch"
  BY <1>1 DEF Fields
<1> HIDE DEF n, pages, daily, key
<1>9. ASSUME NEW k \in 1..Len(s) PROVE Rooted(Source, disk, s[k])
  <2>1. \A p, to, x : to.dir = dir => Rooted(Source, disk, Rename(p, to, x))
    <3> SUFFICES ASSUME NEW p, NEW to, NEW x, to.dir = dir PROVE Rooted(Source, disk, Rename(p, to, x))
      OBVIOUS
    <3>1. Rename(p, to, x).to.dir = dir
      BY CallFields
    <3> HIDE DEF dir
    <3> QED BY <1>4, <3>1, RootedAttempt DEF dir
  <2>2. \A o : o.op # "rename" => Rooted(Source, disk, o)
    BY DEF Rooted, Renames
  <2>3. /\ \A p : Create(p).op # "rename" /\ Unlink(p).op # "rename"
        /\ \A a, b : MoveDir(a, b).op # "rename" /\ Absent(a, b).op # "rename"
    BY CallFields
  <2>4. \A name : File(dir, name).dir = dir
    BY PathFacts DEF File
  <2>5. Rooted(Source, disk, Rename(File(SourceRoot(key), "current.tmp"), Current(key), RevisionOf(pages, daily)))
    <3> DEFINE o == Rename(File(SourceRoot(key), "current.tmp"), Current(key), RevisionOf(pages, daily))
    <3>1. o.to = Current(key) /\ o.data = RevisionOf(pages, daily)
      BY CallFields
    <3>2. /\ Current(key).dir[1] = "source" /\ Current(key).dir[2] = key.place
          /\ RevisionOf(pages, daily).pages = pages
      BY DEF Current, File, At, SourceRoot, RevisionOf
    <3> HIDE DEF o
    <3>3. Rooted(Source, disk, o)
      BY <1>4, <1>5, <3>1, <3>2 DEF Rooted, Renames, Staging
    <3> QED BY <3>3 DEF o
  <2> HIDE DEF dir
  <2>6. /\ Len(s) = M + 12 /\ M \in Nat
        /\ Rooted(Source, disk, s[1]) /\ Rooted(Source, disk, s[2])
        /\ Rooted(Source, disk, s[3]) /\ Rooted(Source, disk, s[4])
        /\ Rooted(Source, disk, s[5]) /\ Rooted(Source, disk, s[6])
    BY <1>7, <2>1, <2>2, <2>3, <2>4 DEF Publishes, M, dir
  <2>7. /\ Rooted(Source, disk, s[M + 7]) /\ Rooted(Source, disk, s[M + 8])
        /\ Rooted(Source, disk, s[M + 9]) /\ Rooted(Source, disk, s[M + 10])
        /\ Rooted(Source, disk, s[M + 11]) /\ Rooted(Source, disk, s[M + 12])
    BY <1>7, <2>1, <2>2, <2>3, <2>4, <2>5 DEF Publishes, M, dir
  <2>8. \A i \in 1..M : Rooted(Source, disk, s[6 + i])
    BY <1>7, <2>2, <2>3 DEF Publishes, M, dir
  <2>9. \/ k \in {1, 2, 3, 4, 5, 6, M + 7, M + 8, M + 9, M + 10, M + 11, M + 12}
        \/ k - 6 \in 1..M /\ k = 6 + (k - 6)
    BY <2>6
  <2> QED BY <2>6, <2>7, <2>8, <2>9
<1>10. JobRooted(Source, disk, n)
  BY <1>8, <1>9 DEF JobRooted
<1> QED BY <1>2, <1>10

\* Damage reaches neither the attempts nor what names them.
LEMMA DamageRooted ==
    ASSUME RootInv, Damage
    PROVE  DiskRooted(Source, disk') /\ JobRooted(Source, disk', job')
<1>1. PICK p \in DOMAIN disk :
        \/ /\ p.dir[1] = "revision" /\ p.name = "page.zst"
           /\ disk' = [disk EXCEPT ![p].items = <<"damaged">>]
        \/ /\ p.dir[1] = "cache" /\ p.name = "events.bin"
           /\ disk' = [disk EXCEPT ![p].records = <<"damaged">>]
  BY DEF Damage
<1>2. DOMAIN disk' = DOMAIN disk /\ \A q \in DOMAIN disk : q # p => disk'[q] = disk[q]
  BY <1>1
<1>3. p.dir[1] \in {"revision", "cache"}
  BY <1>1
<1> DEFINE d == disk
           e == disk'
<1>4. DOMAIN e = DOMAIN d /\ \A q \in DOMAIN d : q.dir[1] \in {"staging", "source"} => e[q] = d[q]
  BY <1>2, <1>3
<1>5. DiskRooted(Source, d) /\ job' = Idle
  BY DEF RootInv, Damage
<1> HIDE DEF d, e
<1>6. ASSUME NEW place, NEW key, Named(d, place, key) PROVE Named(e, place, key)
  <2> DEFINE q == File(<<"source", place>>, "partition.yaml")
  <2>1. q.dir[1] = "source" /\ Has(d, q) /\ d[q] = key
    BY <1>6 DEF Named, File, At
  <2>2. Has(e, q) /\ e[q] = key
    BY <1>4, <2>1 DEF Has
  <2> QED BY <2>2 DEF Named
<1>7. DiskRooted(Source, e)
  BY <1>4, <1>5, <1>6 DEF DiskRooted, IsPointer
<1> QED BY <1>5, <1>7, PlainIdle, RootPlain DEF e

\* Fewer answers of the archive ask for less.
LEMMA RootLess ==
    ASSUME NEW V, NEW W, W \subseteq V, NEW d, NEW j
    PROVE  /\ DiskRooted(V, d) => DiskRooted(W, d)
           /\ JobRooted(V, d, j) => JobRooted(W, d, j)
<1>1. \A key, pages : ArchiveOf(V, key, pages) => ArchiveOf(W, key, pages)
  BY DEF ArchiveOf, Asked
<1>2. \A o : Rooted(V, d, o) => Rooted(W, d, o)
  BY <1>1 DEF Rooted
<1> QED BY <1>1, <1>2 DEF DiskRooted, JobRooted

LEMMA RootInit == Init => RootInv
<1> SUFFICES ASSUME Init PROVE RootInv
  OBVIOUS
<1>1. DOMAIN disk = {} /\ job = Idle
  BY DEF Init
<1>2. DiskRooted(Source, disk)
  BY <1>1 DEF DiskRooted
<1> QED BY <1>1, <1>2, FitInit, PlainIdle, RootPlain DEF RootInv

\* Every step, crash, damage and change of the archive keeps it.
LEMMA RootNext ==
    ASSUME RootInv, [Next]_vars
    PROVE  RootInv'
<1>1. FitInv /\ CommandInv /\ DiskRooted(Source, disk) /\ JobRooted(Source, disk, job)
  BY DEF RootInv, FitInv
<1>2. FitInv' /\ Source' \subseteq Source
  BY <1>1, FitNext, SourceStep
<1>3. ASSUME DiskRooted(Source, disk'), JobRooted(Source, disk', job') PROVE RootInv'
  <2>1. DiskRooted(Source', disk') /\ JobRooted(Source', disk', job')
    BY <1>2, <1>3, RootLess
  <2> QED BY <1>2, <2>1 DEF RootInv
<1>4. CASE FileCall
  BY <1>3, <1>4, FileCallRooted
<1>5. CASE Damage
  BY <1>3, <1>5, DamageRooted
<1>6. ASSUME disk' = disk, JobRooted(Source, disk, job') PROVE RootInv'
  BY <1>1, <1>3, <1>6
<1>7. CASE ArchiveChanges \/ UNCHANGED vars
  <2>1. disk' = disk /\ job' = job
    BY <1>7 DEF ArchiveChanges, vars
  <2> QED BY <1>1, <1>6, <2>1
<1>8. CASE \/ Begin \/ Finish \/ PlanStage \/ VerifyStage \/ SyncStage \/ SyncDone
           \/ SkipReused \/ PrepareStage \/ PrepareDone \/ PreparePartition
           \/ ReplayStage \/ InspectStage \/ TransportFails \/ Crash
  <2>1. disk' = disk
    BY <1>1, <1>8, BeginStep, StopStep, PlanStep, VerifyStep, SyncStep, DoneStep, SkipStep,
       PrepareStep, ReplayStep
  <2>2. JobRooted(Source, disk, job')
    BY <1>1, <1>8, PlainStep, RootPlain
  <2> QED BY <1>6, <2>1, <2>2
<1>9. CASE FetchSingles
  <2>1. disk' = disk /\ DOMAIN job = Fields /\ job.ops = <<>>
    <3>1. Ready("fetch")
      BY <1>9 DEF FetchSingles
    <3> QED BY <1>1, <1>9, <3>1, FetchStep, ReadyFacts DEF Active
  <2>2. job'.ops = <<>> /\ job'.step = "open"
    BY <1>9, <2>1 DEF FetchSingles, Proceed, Fields
  <2>3. 1..Len(<<>>) = {}
    OBVIOUS
  <2>4. JobRooted(Source, disk, job')
    BY <2>2, <2>3 DEF JobRooted
  <2> QED BY <1>6, <2>1, <2>4
<1>10. CASE OpenStaging \/ FetchPage \/ PublishRevision
  <2>1. disk' = disk
    BY <1>1, <1>10, OpenStep, PageStep, PublishStep
  <2>2. JobRooted(Source, disk, job')
    BY <1>10, OpenRooted, PageRooted, RevisionRooted
  <2> QED BY <1>6, <2>1, <2>2
<1> QED BY <1>4, <1>5, <1>7, <1>8, <1>9, <1>10 DEF Next, Step

LEMMA RootArchive ==
    ASSUME RootInv
    PROVE  RevisionsAreTheArchive
<1> SUFFICES ASSUME NEW key \in Keys, Has(disk, Current(key))
             PROVE  IsArchiveOf(disk[Current(key)].pages, disk[PartitionFile(key)])
  BY DEF RevisionsAreTheArchive
<1> DEFINE p == Current(key)
           pages == disk[p].pages
<1>1. IsPointer(p) /\ p.dir[2] = key.place
  BY DEF IsPointer, Current, File, At, SourceRoot
<1>2. PICK k : Named(disk, p.dir[2], k) /\ ArchiveOf(Source, k, pages)
  BY <1>1 DEF RootInv, DiskRooted, Has
<1>3. disk[PartitionFile(key)] = k
  BY <1>1, <1>2 DEF Named, PartitionFile, SourceRoot
<1> HIDE DEF pages
<1>4. faults.changes = 0 =>
        \A i \in 1..Len(pages) : pages[i] = Archive(remote, k, IF i = 1 THEN 0 ELSE pages[i - 1].next)
  BY <1>2 DEF ArchiveOf, Asked, Source
<1>5. IsArchiveOf(pages, k)
  BY <1>2, <1>4 DEF ArchiveOf, IsArchiveOf
<1> QED BY <1>3, <1>5 DEF pages

\* A published revision is always a complete cursor chain of the partition that
\* partition.yaml names, each page what the archive answers to the cursor of the
\* page before it (CursorStateMachine::accept_response and commit_page, resume's
\* refusal of another query's checkpoint, ensure_layout before anything is
\* staged): for every archive, every universe and any number of crashes, failed
\* answers and resumptions, unless the archive itself changed.
THEOREM RevisionsFromTheArchive == Spec => []RevisionsAreTheArchive
BY RootInit, RootNext, RootArchive, PTL DEF Spec

-----------------------------------------------------------------------------
(* What is run is what was published: a cache's descriptor says how its    *)
(* events were made, the plan's revisions are the archive's, and an output *)
(* directory appears with all its files at once.                           *)

Described(x) == x.events = Normalized(x.mapping, TickRecords(x.revision.pages))
DiskDescribed(d) == \A p \in DOMAIN d : p.name = "descriptor.yaml" => Described(d[p])
Describes(o) ==
    /\ o.op \in {"create", "put"} => o.path.name # "descriptor.yaml"
    /\ o.op = "rename" /\ o.to.name = "descriptor.yaml" => Described(o.data)

\* The events of a run are the normalisation of revisions that are the
\* archive's, by the mapping of the cache they were read from.
Matched(V, plan, events) ==
    /\ Len(plan) \in Nat /\ Len(events) = Len(plan)
    /\ \A i \in 1..Len(plan) : \E r \in plan[i].revision :
         /\ events[i] = Normalized(plan[i].cache.dir[3][3], TickRecords(r.pages))
         /\ ArchiveOf(V, plan[i].key, r.pages)
IsRun(V, files) == \E plan, events : Matched(V, plan, events) /\ files = Artifacts(plan, events)
RunFiles == {"ledger.bin", "run-manifest.yaml", "strategy.json"}
RunWhole(V, d, dir) ==
    \E files : /\ IsRun(V, files)
               /\ \A f \in RunFiles : ObjectVerifies(d, File(dir, f), files[f])
DiskRuns(V, d) == \A p \in DOMAIN d : p.dir[1] = "output" => RunWhole(V, d, p.dir)

\* Before the k-th call the file is put in place with this content, or is there
\* already, and nothing else is done to it.
Brought(d, s, k, p, x) ==
    /\ \A i \in 1..(k - 1) :
         /\ s[i].op \in {"create", "remove"} => s[i].path # p
         /\ s[i].op = "rename" => s[i].path # p /\ s[i].to # p
         /\ s[i].op = "move" => s[i].path.dir # p.dir
         /\ s[i].op = "put" /\ s[i].path = p => s[i].data = x
    /\ \/ Has(d, p) /\ d[p] = x
       \/ \E i \in 1..(k - 1) : s[i].op = "put" /\ s[i].path = p
MovesRun(o) == o.op = "move" /\ o.to.dir[1] = "output"
FitsRun(V, d, s, k) ==
    MovesRun(s[k]) =>
      \E files : /\ IsRun(V, files)
                 /\ \A f \in RunFiles : Brought(d, s, k, File(s[k].path.dir, f), files[f])

OpsMatched(V, d, s) == \A k \in 1..Len(s) : Describes(s[k]) /\ FitsRun(V, d, s, k)
PlanKnown(V, plan) ==
    /\ Len(plan) \in Nat
    /\ \A i \in 1..Len(plan) : \A r \in plan[i].revision : ArchiveOf(V, plan[i].key, r.pages)
JobMatched(V, d, j) == j = Idle \/ (OpsMatched(V, d, j.ops) /\ PlanKnown(V, j.plan))
RunInv ==
    /\ RootInv
    /\ DiskDescribed(disk)
    /\ DiskRuns(Source, disk)
    /\ JobMatched(Source, disk, job)

\* A file no call touches stays.
LEMMA Untouched ==
    ASSUME NEW d, NEW o, NEW p, AllPaths(d), Harmless(o), Free(d, o), Has(d, p), ~Touches(o, p)
    PROVE  Has(Applied(d, o), p) /\ Applied(d, o)[p] = d[p]
<1> DEFINE e == Applied(d, o)
<1>1. CASE o.op \in {"create", "put"}
  <2>1. DOMAIN e = DOMAIN d \cup {o.path} /\ \A q \in DOMAIN d : q # o.path => e[q] = d[q]
    BY <1>1, AppliedFacts
  <2> HIDE DEF e
  <2>2. Has(e, p) /\ e[p] = d[p]
    BY <1>1, <2>1 DEF Has, Touches
  <2> QED BY <2>2 DEF e
<1>2. CASE o.op = "rename"
  <2>1. /\ DOMAIN e = (DOMAIN d \ {o.path}) \cup {o.to}
        /\ \A q \in DOMAIN d : q # o.path /\ q # o.to => e[q] = d[q]
    BY <1>2, AppliedFacts
  <2> HIDE DEF e
  <2>2. Has(e, p) /\ e[p] = d[p]
    BY <1>2, <2>1 DEF Has, Touches
  <2> QED BY <2>2 DEF e
<1>3. CASE o.op = "remove"
  <2>1. DOMAIN e = DOMAIN d \ {o.path} /\ \A q \in DOMAIN d : q # o.path => e[q] = d[q]
    BY <1>3, AppliedFacts
  <2> HIDE DEF e
  <2>2. Has(e, p) /\ e[p] = d[p]
    BY <1>3, <2>1 DEF Has, Touches
  <2> QED BY <2>2 DEF e
<1>4. CASE o.op = "absent"
  <2>1. e = d
    BY <1>4, AppliedFacts
  <2> HIDE DEF e
  <2> QED BY <2>1 DEF e
<1>5. CASE o.op = "move"
  <2>1. ~DirExists(d, o.to.dir) /\ o.path.dir # o.to.dir
    BY <1>5 DEF Harmless, Free
  <2>2. \A q \in DOMAIN d : IsPath(q)
    BY DEF AllPaths
  <2>3. \A q \in DOMAIN d : q.dir # o.path.dir => q \in DOMAIN e /\ e[q] = d[q]
    BY <1>5, <2>1, <2>2, MovedFacts
  <2> HIDE DEF e
  <2>4. Has(e, p) /\ e[p] = d[p]
    BY <1>5, <2>3 DEF Has, Touches
  <2> QED BY <2>4 DEF e
<1> QED BY <1>1, <1>2, <1>3, <1>4, <1>5 DEF Harmless, IsCall

\* A call that describes caches well leaves the disk so.
LEMMA DescribedCall ==
    ASSUME NEW d, NEW o, AllPaths(d), Harmless(o), Free(d, o), Describes(o), DiskDescribed(d)
    PROVE  DiskDescribed(Applied(d, o))
<1> DEFINE e == Applied(d, o)
<1> SUFFICES ASSUME NEW p \in DOMAIN e, p.name = "descriptor.yaml" PROVE Described(e[p])
  BY DEF DiskDescribed
<1>1. CASE o.op \in {"create", "put"}
  <2>1. DOMAIN e = DOMAIN d \cup {o.path} /\ \A q \in DOMAIN d : q # o.path => e[q] = d[q]
    BY <1>1, AppliedFacts
  <2> HIDE DEF e
  <2> QED BY <1>1, <2>1 DEF Describes, DiskDescribed
<1>2. CASE o.op = "rename"
  <2>1. /\ DOMAIN e = (DOMAIN d \ {o.path}) \cup {o.to} /\ e[o.to] = o.data
        /\ \A q \in DOMAIN d : q # o.path /\ q # o.to => e[q] = d[q]
    BY <1>2, AppliedFacts
  <2> HIDE DEF e
  <2>2. CASE p = o.to
    BY <1>2, <2>1, <2>2 DEF Describes
  <2>3. CASE p # o.to
    BY <2>1, <2>3 DEF DiskDescribed
  <2> QED BY <2>2, <2>3
<1>3. CASE o.op = "remove"
  <2>1. DOMAIN e = DOMAIN d \ {o.path} /\ \A q \in DOMAIN d : q # o.path => e[q] = d[q]
    BY <1>3, AppliedFacts
  <2> HIDE DEF e
  <2> QED BY <2>1 DEF DiskDescribed
<1>4. CASE o.op = "absent"
  <2>1. e = d
    BY <1>4, AppliedFacts
  <2> HIDE DEF e
  <2> QED BY <2>1 DEF DiskDescribed
<1>5. CASE o.op = "move"
  <2>1. ~DirExists(d, o.to.dir) /\ o.path.dir # o.to.dir
    BY <1>5 DEF Harmless, Free
  <2>2. \A q \in DOMAIN d : IsPath(q)
    BY DEF AllPaths
  <2>3. /\ \A q \in DOMAIN d : q.dir # o.path.dir => q \in DOMAIN e /\ e[q] = d[q]
        /\ \A q \in DOMAIN e : (q \in DOMAIN d /\ q.dir # o.path.dir) \/ q.dir = o.to.dir
        /\ \A name, n : /\ Has(d, At(o.path.dir, name, n)) =>
                             e[At(o.to.dir, name, n)] = d[At(o.path.dir, name, n)]
                        /\ Has(e, At(o.to.dir, name, n)) => Has(d, At(o.path.dir, name, n))
        /\ \A q \in DOMAIN e : IsPath(q)
    BY <1>5, <2>1, <2>2, MovedFacts
  <2> HIDE DEF e
  <2>4. CASE p \in DOMAIN d /\ p.dir # o.path.dir
    BY <2>3, <2>4 DEF DiskDescribed
  <2>5. CASE p.dir = o.to.dir
    <3> DEFINE q == At(o.path.dir, p.name, p.n)
    <3>1. p = At(o.to.dir, p.name, p.n)
      BY <2>3, <2>5 DEF IsPath
    <3>2. Has(d, q) /\ e[p] = d[q]
      BY <2>3, <3>1 DEF Has
    <3>3. q.name = "descriptor.yaml"
      BY PathFacts
    <3> HIDE DEF q
    <3> QED BY <3>2, <3>3 DEF DiskDescribed, Has
  <2> QED BY <2>3, <2>4, <2>5
<1> QED BY <1>1, <1>2, <1>3, <1>4, <1>5 DEF Harmless, IsCall

\* What the next call leaves of a file that is being brought.
LEMMA BroughtTail ==
    ASSUME NEW d, NEW s, AllPaths(d), IsSeq(s), s # <<>>, Harmless(s[1]), Free(d, s[1]),
           NEW k \in 1..Len(Tail(s)), NEW p, NEW x, Brought(d, s, k + 1, p, x)
    PROVE  Brought(Applied(d, s[1]), Tail(s), k, p, x)
<1> DEFINE o == s[1]
           e == Applied(d, o)
           t == Tail(s)
<1>1. /\ k \in Nat /\ \A i \in 1..(k - 1) : i + 1 \in 1..((k + 1) - 1) /\ t[i] = s[i + 1]
  BY SeqFacts
<1>2. /\ 1 \in 1..((k + 1) - 1)
      /\ \A i \in 1..((k + 1) - 1) : i = 1 \/ (i - 1 \in 1..(k - 1) /\ (i - 1) + 1 = i)
  BY <1>1
<1>3. Has(d, p) /\ ~Touches(o, p) => Has(e, p) /\ e[p] = d[p]
  BY Untouched
<1>4. o.op = "put" /\ o.path = p => Has(e, p) /\ e[p] = o.data
  <2>1. ASSUME o.op = "put" PROVE DOMAIN e = DOMAIN d \cup {o.path} /\ e[o.path] = o.data
    BY <2>1, AppliedFacts
  <2> QED BY <2>1 DEF Has
<1> HIDE DEF e, t
<1>5. \A i \in 1..(k - 1) :
         /\ t[i].op \in {"create", "remove"} => t[i].path # p
         /\ t[i].op = "rename" => t[i].path # p /\ t[i].to # p
         /\ t[i].op = "move" => t[i].path.dir # p.dir
         /\ t[i].op = "put" /\ t[i].path = p => t[i].data = x
  BY <1>1 DEF Brought
<1>6. CASE o.op = "put" /\ o.path = p
  <2>1. o.data = x
    BY <1>2, <1>6 DEF Brought
  <2> QED BY <1>4, <1>5, <1>6, <2>1 DEF Brought, e, t
<1>7. CASE ~(o.op = "put" /\ o.path = p)
  <2>1. ~Touches(o, p)
    BY <1>2, <1>7 DEF Brought, Touches
  <2>2. CASE Has(d, p) /\ d[p] = x
    BY <1>3, <1>5, <2>1, <2>2 DEF Brought, e, t
  <2>3. ASSUME NEW i \in 1..((k + 1) - 1), s[i].op = "put", s[i].path = p
        PROVE  Brought(e, t, k, p, x)
    <3>1. i - 1 \in 1..(k - 1) /\ t[i - 1] = s[i]
      BY <1>1, <1>2, <1>7, <2>3
    <3> QED BY <1>5, <2>3, <3>1 DEF Brought
  <2> QED BY <2>2, <2>3 DEF Brought, e, t
<1> QED BY <1>6, <1>7

\* A run's directory appears whole.
LEMMA RunsCall ==
    ASSUME NEW V, NEW d, NEW s, AllPaths(d), Harmless(s[1]), Free(d, s[1]), FitsRun(V, d, s, 1),
           DiskRuns(V, d)
    PROVE  DiskRuns(V, Applied(d, s[1]))
<1> DEFINE o == s[1]
           e == Applied(d, o)
<1>1. Kept(d, e) /\ \A p \in DOMAIN e : p \in DOMAIN d \/ Makes(o, p)
  BY CallKept
<1> SUFFICES ASSUME NEW p \in DOMAIN e, p.dir[1] = "output" PROVE RunWhole(V, e, p.dir)
  BY DEF DiskRuns
<1>2. CASE p \in DOMAIN d
  <2> HIDE DEF e
  <2>1. PICK files : IsRun(V, files) /\ \A f \in RunFiles : ObjectVerifies(d, File(p.dir, f), files[f])
    BY <1>2 DEF DiskRuns, RunWhole
  <2>2. ASSUME NEW f \in RunFiles PROVE ObjectVerifies(e, File(p.dir, f), files[f])
    <3> DEFINE q == File(p.dir, f)
    <3>1. q.dir = p.dir
      BY DEF File, At
    <3> HIDE DEF q
    <3>2. IsFinal(q)
      BY <3>1 DEF IsFinal, Sealed
    <3>3. Has(d, q) /\ d[q] = files[f]
      BY <2>1 DEF ObjectVerifies, q
    <3>4. ObjectVerifies(e, q, files[f])
      BY <1>1, <3>2, <3>3 DEF Kept, Has, ObjectVerifies
    <3> QED BY <3>4 DEF q
  <2> QED BY <2>1, <2>2 DEF RunWhole
<1>3. CASE Makes(o, p)
  <2>1. o.op = "move" /\ p.dir = o.to.dir
    <3> HIDE DEF e, o
    <3> QED BY <1>3 DEF Makes, Harmless, IsFinal, Sealed, o
  <2>2. MovesRun(o)
    BY <2>1 DEF MovesRun
  <2>3. PICK files : /\ IsRun(V, files)
                     /\ \A f \in RunFiles : Brought(d, s, 1, File(o.path.dir, f), files[f])
    BY <2>2 DEF FitsRun
  <2>4. 1..(1 - 1) = {}
    OBVIOUS
  <2>5. \A f \in RunFiles : Has(d, File(o.path.dir, f)) /\ d[File(o.path.dir, f)] = files[f]
    BY <2>3, <2>4 DEF Brought
  <2>6. ~DirExists(d, o.to.dir) /\ o.path.dir # o.to.dir /\ \A q \in DOMAIN d : IsPath(q)
    BY <2>1 DEF Harmless, Free, AllPaths
  <2>7. \A name, n : Has(d, At(o.path.dir, name, n)) =>
                       /\ Has(e, At(o.to.dir, name, n))
                       /\ e[At(o.to.dir, name, n)] = d[At(o.path.dir, name, n)]
    BY <2>1, <2>6, MovedFacts
  <2> HIDE DEF e, o
  <2>8. \A f \in RunFiles : ObjectVerifies(e, File(o.to.dir, f), files[f])
    BY <2>5, <2>7 DEF File, ObjectVerifies
  <2> QED BY <2>1, <2>3, <2>8 DEF RunWhole
<1> QED BY <1>1, <1>2, <1>3

\* The next call of the command.
LEMMA FileCallMatched ==
    ASSUME RunInv, FileCall
    PROVE  /\ DiskDescribed(disk') /\ DiskRuns(Source, disk')
           /\ JobMatched(Source, disk', job')
<1> DEFINE s == job.ops
           o == Head(job.ops)
<1>1. CommandInv /\ Active(disk, job) /\ DiskOK(disk) /\ s # <<>>
  BY DEF RunInv, RootInv, FitInv, CommandInv, FileCall
<1>2. OpsOK(disk, s) /\ IsSeq(s) /\ AllPaths(disk)
  BY <1>1 DEF Active, OpsOK, DiskOK
<1>3. o = s[1] /\ 1 \in 1..Len(s) /\ Len(s) \in Nat /\ Len(Tail(s)) = Len(s) - 1
      /\ \A k \in 1..Len(Tail(s)) : Tail(s)[k] = s[k + 1]
  BY <1>1, <1>2, SeqFacts
<1>4. DiskDescribed(disk) /\ DiskRuns(Source, disk) /\ JobMatched(Source, disk, job)
  BY DEF RunInv
<1>5. CASE Refused(disk, o)
  <2>1. job' = Idle /\ disk' = disk
    BY <1>5 DEF FileCall, Fail
  <2> QED BY <1>4, <2>1 DEF JobMatched
<1>6. CASE ~Refused(disk, o)
  <2> DEFINE n == [job EXCEPT !.ops = Tail(@)]
             e == Applied(disk, o)
  <2>1. job' = n /\ disk' = e /\ job # Idle
    BY <1>6 DEF FileCall
  <2>2. Harmless(o) /\ Free(disk, o)
    <3>1. o.op = "move" => ~DirExists(disk, o.to.dir)
      BY <1>2, <1>3 DEF OpsOK, Guarded
    <3> QED BY <1>2, <1>3, <3>1 DEF OpsOK, Free
  <2>3. OpsMatched(Source, disk, s) /\ PlanKnown(Source, job.plan)
    BY <1>4, <2>1 DEF JobMatched
  <2>4. DiskDescribed(e) /\ DiskRuns(Source, e)
    <3>1. Describes(s[1]) /\ FitsRun(Source, disk, s, 1)
      BY <1>3, <2>3 DEF OpsMatched
    <3> HIDE DEF o, s
    <3> QED BY <1>2, <1>3, <1>4, <2>2, <3>1, DescribedCall, RunsCall
  <2>5. n.ops = Tail(s) /\ n.plan = job.plan
    BY <1>1 DEF Active, Fields
  <2>6. \A k \in 1..Len(Tail(s)) : k + 1 \in 1..Len(s)
    BY <1>3
  <2>7. ASSUME NEW k \in 1..Len(Tail(s))
        PROVE  Describes(Tail(s)[k]) /\ FitsRun(Source, e, Tail(s), k)
    <3>1. Tail(s)[k] = s[k + 1] /\ Describes(s[k + 1]) /\ FitsRun(Source, disk, s, k + 1)
      BY <1>3, <2>3, <2>6 DEF OpsMatched
    <3> HIDE DEF s
    <3>2. ASSUME MovesRun(s[k + 1])
          PROVE  \E files : /\ IsRun(Source, files)
                            /\ \A f \in RunFiles : Brought(e, Tail(s), k, File(s[k + 1].path.dir, f), files[f])
      <4>1. PICK files : /\ IsRun(Source, files)
                         /\ \A f \in RunFiles : Brought(disk, s, k + 1, File(s[k + 1].path.dir, f), files[f])
        BY <3>1, <3>2 DEF FitsRun
      <4>2. ASSUME NEW f \in RunFiles
            PROVE  Brought(e, Tail(s), k, File(s[k + 1].path.dir, f), files[f])
        <5> DEFINE p == File(s[k + 1].path.dir, f)
        <5>1. Brought(disk, s, k + 1, p, files[f])
          BY <4>1
        <5> HIDE DEF p, o
        <5>2. Brought(Applied(disk, s[1]), Tail(s), k, p, files[f])
          BY <1>1, <1>2, <1>3, <2>2, <2>7, <5>1, BroughtTail DEF s
        <5> QED BY <1>3, <5>2 DEF p
      <4> QED BY <4>1, <4>2
    <3> QED BY <3>1, <3>2 DEF FitsRun
  <2> HIDE DEF e, n
  <2>8. JobMatched(Source, e, n)
    BY <2>3, <2>5, <2>7 DEF JobMatched, OpsMatched
  <2> QED BY <2>1, <2>4, <2>8
<1> QED BY <1>5, <1>6

\* Calls that describe caches well and publish no run.
Tells(o) == Describes(o) /\ ~MovesRun(o)
AllTell(s) == IsSeq(s) /\ \A k \in 1..Len(s) : Tells(s[k])

LEMMA TellMatched ==
    ASSUME NEW V, NEW d, NEW s, AllTell(s)
    PROVE  OpsMatched(V, d, s)
BY DEF AllTell, Tells, OpsMatched, FitsRun

LEMMA TellConcat ==
    ASSUME NEW s, NEW t, AllTell(s), AllTell(t)
    PROVE  AllTell(s \o t)
<1> DEFINE n == Len(s)
           m == Len(t)
           u == s \o t
<1>1. /\ IsSeq(u) /\ Len(u) = n + m
      /\ \A k \in 1..n : u[k] = s[k]
      /\ \A k \in 1..m : u[n + k] = t[k]
      /\ \A k \in 1..(n + m) : k \in 1..n \/ (k - n \in 1..m /\ k = n + (k - n))
  BY ConcatAt DEF AllTell
<1>2. (\A k \in 1..n : Tells(s[k])) /\ (\A k \in 1..m : Tells(t[k]))
  BY DEF AllTell
<1> HIDE DEF n, m, u
<1>3. \A k \in 1..Len(u) : Tells(u[k])
  BY <1>1, <1>2
<1> QED BY <1>1, <1>3 DEF AllTell, u

LEMMA TellTuples ==
    /\ AllTell(<<>>)
    /\ \A a : Tells(a) => AllTell(<<a>>)
    /\ \A a, b : Tells(a) /\ Tells(b) => AllTell(<<a, b>>)
<1>1. AllTell(<<>>)
  BY TupleFacts DEF AllTell
<1>2. ASSUME NEW a, Tells(a) PROVE AllTell(<<a>>)
  <2>1. IsSeq(<<a>>) /\ \A k \in 1..Len(<<a>>) : <<a>>[k] = a
    BY TupleFacts
  <2> QED BY <1>2, <2>1 DEF AllTell
<1>3. ASSUME NEW a, NEW b, Tells(a), Tells(b) PROVE AllTell(<<a, b>>)
  <2>1. IsSeq(<<a, b>>) /\ \A k \in 1..Len(<<a, b>>) : <<a, b>>[k] = a \/ <<a, b>>[k] = b
    BY TupleFacts
  <2> QED BY <1>3, <2>1 DEF AllTell
<1> QED BY <1>1, <1>2, <1>3

LEMMA TellCalls ==
    /\ \A p : p.name # "descriptor.yaml" => Tells(Create(p))
    /\ \A p, x : p.name # "descriptor.yaml" => Tells(Put(p, x))
    /\ \A p, to, x : to.name # "descriptor.yaml" \/ Described(x) => Tells(Rename(p, to, x))
    /\ \A p : Tells(Unlink(p))
    /\ \A dir : Tells(MakeDir(dir))
    /\ \A dir, error : Tells(Absent(dir, error))
    /\ \A dir, to : to[1] # "output" => Tells(MoveDir(dir, to))
<1> USE DEF Tells, Describes, MovesRun
<1>1. ASSUME NEW p, p.name # "descriptor.yaml" PROVE Tells(Create(p))
  BY <1>1 DEF Create, Call
<1>2. ASSUME NEW p, NEW x, p.name # "descriptor.yaml" PROVE Tells(Put(p, x))
  BY <1>2 DEF Put, Call
<1>3. ASSUME NEW p, NEW to, NEW x, to.name # "descriptor.yaml" \/ Described(x)
      PROVE  Tells(Rename(p, to, x))
  <2> DEFINE o == Rename(p, to, x)
  <2>1. o.op = "rename" /\ o.to = to /\ o.data = x
    BY CallFields
  <2> HIDE DEF o
  <2>2. Tells(o)
    BY <1>3, <2>1
  <2> QED BY <2>2 DEF o
<1>4. ASSUME NEW p PROVE Tells(Unlink(p))
  BY DEF Unlink, Call
<1>5. ASSUME NEW dir PROVE Tells(MakeDir(dir))
  BY DEF MakeDir, Call, DirMark, File, At
<1>6. ASSUME NEW dir, NEW error PROVE Tells(Absent(dir, error))
  BY DEF Absent, Call
<1>7. ASSUME NEW dir, NEW to, to[1] # "output" PROVE Tells(MoveDir(dir, to))
  BY <1>7 DEF MoveDir, Call, DirMark, File, At
<1> QED BY <1>1, <1>2, <1>3, <1>4, <1>5, <1>6, <1>7

LEMMA TellWrite ==
    ASSUME NEW p, NEW tmp, NEW x, tmp.name # "descriptor.yaml",
           p.name # "descriptor.yaml" \/ Described(x)
    PROVE  AllTell(WriteAtomic(p, tmp, x))
BY TellCalls, TellTuples DEF WriteAtomic

\* The calls of a download and of a cache.
LEMMA CreateTell ==
    ASSUME NEW d, NEW key
    PROVE  AllTell(CreateOps(d, key))
<1> DEFINE tmp == File(SourceRoot(key), "partition.tmp")
           to == PartitionFile(key)
<1>1. tmp.name # "descriptor.yaml" /\ to.name # "descriptor.yaml"
  BY DEF PartitionFile, File, At
<1>2. AllTell(<<Put(tmp, "tmp"), Rename(tmp, to, key)>>) /\ AllTell(<<MakeDir(Attempt(key))>>)
  <2> HIDE DEF tmp, to
  <2> QED BY <1>1, TellCalls, TellTuples
<1>3. AllTell(LayoutOps(d, key))
  BY <1>2, TellTuples DEF LayoutOps
<1> QED BY <1>2, <1>3, TellConcat DEF CreateOps

LEMMA SaveTell ==
    ASSUME NEW key, NEW n, NEW page, NEW saved
    PROVE  AllTell(SavePage(key, n, page, saved))
<1> DEFINE dir == Attempt(key)
           object == WriteAtomic(PageObject(dir, n), At(dir, "page.zst.tmp", n), page)
           meta == WriteAtomic(PageMeta(dir, n), At(dir, "page.tmp", n), page)
           mark == SaveCheckpoint(dir, saved)
<1> HIDE DEF dir
<1>1. /\ PageObject(dir, n).name = "page.zst" /\ At(dir, "page.zst.tmp", n).name = "page.zst.tmp"
      /\ PageMeta(dir, n).name = "page.yaml" /\ At(dir, "page.tmp", n).name = "page.tmp"
      /\ Checkpoint(dir).name = "checkpoint.json"
      /\ File(dir, "checkpoint.tmp").name = "checkpoint.tmp"
  BY PathFacts DEF File
<1>2. AllTell(object) /\ AllTell(meta) /\ AllTell(mark)
  BY <1>1, TellWrite DEF SaveCheckpoint
<1> HIDE DEF object, meta, mark
<1>3. AllTell(StagePageOps(disk, dir, n, page))
  BY <1>2, TellTuples, TellConcat DEF StagePageOps, object, meta
<1>4. AllTell(StagePageOps(disk, dir, n, page) \o mark)
  BY <1>2, <1>3, TellConcat
<1> QED BY <1>4 DEF SavePage, dir, mark

LEMMA PublishTell ==
    ASSUME NEW key, NEW pages, NEW daily, IsSeq(pages)
    PROVE  AllTell(StageDailyOps(Attempt(key), daily) \o PublishOps(key, RevisionOf(pages, daily)))
<1> DEFINE dir == Attempt(key)
           r == RevisionOf(pages, daily)
           a == WriteAtomic(File(dir, "daily.zst"), File(dir, "daily.zst.tmp"), daily)
           b == WriteAtomic(File(dir, "daily.yaml"), File(dir, "daily.tmp"), daily)
           c == <<Unlink(Checkpoint(dir)), Unlink(File(dir, "daily.yaml"))>>
           m == [i \in 1..Len(r.pages) |-> Unlink(PageMeta(dir, i - 1))]
           w == WriteAtomic(File(dir, "manifest.yaml"), File(dir, "manifest.tmp"), r)
           x == MoveOps(key, r)
           y == PointOps(key, r)
           s == (a \o b) \o (((c \o m) \o w) \o (x \o y))
<1>1. StageDailyOps(dir, daily) \o PublishOps(key, r) = s
  BY DEF StageDailyOps, PublishOps, SealOps
<1>2. \A f, name : File(f, name).name = name
  BY DEF File, At
<1>3. RevisionDir(key, r)[1] # "output"
  BY DEF RevisionDir
<1>4. AllTell(m)
  <2>1. r.pages = pages /\ Len(pages) \in Nat
    BY SeqFacts DEF RevisionOf
  <2> DEFINE M == Len(pages)
  <2>2. m = [i \in 1..M |-> Unlink(PageMeta(dir, i - 1))] /\ M \in Nat
    BY <2>1
  <2> HIDE DEF m, M, dir
  <2>3. m = [i \in 1..M |-> m[i]]
    BY <2>2
  <2>4. ASSUME NEW n \in Nat, NEW f, f = [i \in 1..n |-> f[i]]
        PROVE  f \in Seq({f[i] : i \in 1..n}) /\ Len(f) = n
    BY <2>4
  <2>5. m \in Seq({m[i] : i \in 1..M}) /\ Len(m) = M
    BY <2>2, <2>3, <2>4
  <2>6. \A i \in 1..M : Tells(m[i])
    BY <2>2, TellCalls
  <2> QED BY <2>5, <2>6 DEF AllTell, IsSeq
<1> HIDE DEF dir, r, m
<1>5. AllTell(a) /\ AllTell(b) /\ AllTell(w)
  BY <1>2, TellWrite
<1>6. AllTell(c)
  BY TellCalls, TellTuples
<1>7. AllTell(x)
  BY <1>3, TellCalls, TellTuples DEF MoveOps
<1>8. AllTell(y)
  BY <1>2, TellWrite DEF PointOps, Current
<1> HIDE DEF a, b, c, w, x, y
<1>9. AllTell(a \o b) /\ AllTell((c \o m) \o w) /\ AllTell(x \o y)
  BY <1>4, <1>5, <1>6, <1>7, <1>8, TellConcat
<1>10. AllTell(s)
  BY <1>9, TellConcat
<1> QED BY <1>1, <1>10 DEF dir, r

LEMMA CacheTell ==
    ASSUME NEW key, NEW descriptor, Described(descriptor)
    PROVE  AllTell(CacheOps(key, descriptor))
<1> DEFINE dir == CacheBuild(key)
           place == CacheDir(key, CacheIdentity(descriptor))
           begin == <<Absent(dir, "BuildAlreadyExists"), MakeDir(dir)>>
           events == WriteAtomic(File(dir, "events.bin"), File(dir, "events.bin.tmp"),
                                 descriptor.events)
           describe == WriteAtomic(File(dir, "descriptor.yaml"), File(dir, "descriptor.tmp"),
                                   descriptor)
           move == <<Absent(place, "CacheAlreadyExists"), MoveDir(dir, place)>>
<1>1. CacheOps(key, descriptor) = begin \o events \o describe \o move
  BY DEF CacheOps
<1>2. (\A f, name : File(f, name).name = name) /\ place[1] # "output"
  BY DEF File, At, CacheDir
<1> HIDE DEF dir, place
<1>3. AllTell(begin)
  BY TellCalls, TellTuples
<1>4. AllTell(events) /\ AllTell(describe)
  BY <1>2, TellWrite
<1>5. AllTell(move)
  BY <1>2, TellCalls, TellTuples
<1> HIDE DEF begin, events, describe, move
<1> QED BY <1>1, <1>3, <1>4, <1>5, TellConcat

\* publish_artifacts: the calls that stage the files of one run, before the move.
RunPart(o, dir, files) ==
    /\ Tells(o)
    /\ \/ o.op = "absent"
       \/ o.op = "put" /\ o.path.name = "."
       \/ o.op = "put" /\ \E g \in RunFiles : o.path = File(dir, g) /\ o.data = files[g]

LEMMA ArtifactsBrought ==
    ASSUME NEW d, NEW o, NEW files
    PROVE  LET s == PublishArtifacts(o, files)
           IN  /\ Len(s) = 7 /\ (\A k \in 1..6 : Tells(s[k])) /\ Describes(s[7])
               /\ \A g \in RunFiles : Brought(d, s, 7, File(s[7].path.dir, g), files[g])
<1> DEFINE dir == OutputStaging(o)
           out == OutputDir(o)
           begin == <<Absent(out, "OutputExists"), Absent(dir, "OutputExists"), MakeDir(dir)>>
           f == [i \in 1..Len(ArtifactFiles) |->
                   Put(File(dir, ArtifactFiles[i]), files[ArtifactFiles[i]])]
           m == MoveDir(dir, out)
           q == begin \o f
           s == q \o <<m>>
<1>1. PublishArtifacts(o, files) = s
  BY DEF PublishArtifacts
<1> HIDE DEF dir, out
<1>2. /\ IsSeq(begin) /\ Len(begin) = 3
      /\ \A k \in 1..3 : RunPart(begin[k], dir, files)
  <2>1. ASSUME NEW a, NEW b, NEW c
        PROVE  /\ IsSeq(<<a, b, c>>) /\ Len(<<a, b, c>>) = 3
               /\ \A k \in 1..3 : <<a, b, c>>[k] = a \/ <<a, b, c>>[k] = b \/ <<a, b, c>>[k] = c
    <3>1. <<a, b, c>> \in Seq({a, b, c}) /\ Len(<<a, b, c>>) = 3
      OBVIOUS
    <3>2. \A k \in 1..3 : <<a, b, c>>[k] = a \/ <<a, b, c>>[k] = b \/ <<a, b, c>>[k] = c
      OBVIOUS
    <3>3. \A S, t : t \in Seq(S) => IsSeq(t)
      BY DEF IsSeq
    <3>4. IsSeq(<<a, b, c>>)
      BY <3>1, <3>3
    <3> QED BY <3>1, <3>2, <3>4
  <2>2. RunPart(Absent(out, "OutputExists"), dir, files) /\ RunPart(Absent(dir, "OutputExists"), dir, files)
    BY TellCalls, CallFields DEF RunPart
  <2>3. RunPart(MakeDir(dir), dir, files)
    <3>1. MakeDir(dir).op = "put" /\ MakeDir(dir).path.name = "."
      BY DEF MakeDir, Call, DirMark, File, At
    <3> QED BY <3>1, TellCalls DEF RunPart
  <2> QED BY <2>1, <2>2, <2>3
<1>3. /\ IsSeq(f) /\ Len(f) = 3
      /\ \A k \in 1..3 : RunPart(f[k], dir, files)
      /\ \A g \in RunFiles : \E k \in 1..3 : f[k].op = "put" /\ f[k].path = File(dir, g)
  <2>1. Len(ArtifactFiles) = 3
    BY DEF ArtifactFiles
  <2>2. f \in Seq({f[i] : i \in 1..3}) /\ Len(f) = 3
    BY <2>1
  <2>3. \A i \in 1..3 : f[i] = Put(File(dir, ArtifactFiles[i]), files[ArtifactFiles[i]])
    BY <2>1
  <2>4. /\ \A i \in 1..3 : ArtifactFiles[i] \in RunFiles
        /\ \A g \in RunFiles : \E i \in 1..3 : ArtifactFiles[i] = g
    BY DEF ArtifactFiles, RunFiles
  <2>5. ASSUME NEW g \in RunFiles
        PROVE  LET c == Put(File(dir, g), files[g])
               IN  RunPart(c, dir, files) /\ c.op = "put" /\ c.path = File(dir, g)
    <3> DEFINE c == Put(File(dir, g), files[g])
    <3>1. c.op = "put" /\ c.path = File(dir, g) /\ c.data = files[g]
      BY DEF Put, Call
    <3>2. File(dir, g).name # "descriptor.yaml"
      BY DEF File, At, RunFiles
    <3>3. Tells(c)
      BY <3>2, TellCalls
    <3> HIDE DEF c
    <3>4. RunPart(c, dir, files)
      BY <3>1, <3>3 DEF RunPart
    <3> QED BY <3>1, <3>4 DEF c
  <2> HIDE DEF f
  <2>6. IsSeq(f)
    BY <2>2 DEF IsSeq
  <2>7. \A i \in 1..3 : RunPart(f[i], dir, files) /\ f[i].op = "put" /\ f[i].path = File(dir, ArtifactFiles[i])
    BY <2>3, <2>4, <2>5
  <2> QED BY <2>2, <2>4, <2>6, <2>7
<1>4. /\ m.op = "move" /\ m.path.dir = dir /\ Describes(m)
  BY DEF MoveDir, Call, DirMark, File, At, Describes
<1> HIDE DEF begin, f, m
<1>5. /\ IsSeq(q) /\ Len(q) = 6
      /\ \A k \in 1..6 : RunPart(q[k], dir, files)
      /\ \A g \in RunFiles : \E k \in 1..6 : q[k].op = "put" /\ q[k].path = File(dir, g)
  <2>0. IsSeq(begin) /\ IsSeq(f)
    BY <1>2, <1>3
  <2>1. /\ IsSeq(q) /\ Len(q) = 3 + 3
        /\ \A k \in 1..3 : q[k] = begin[k]
        /\ \A k \in 1..3 : q[3 + k] = f[k]
    <3>1. /\ IsSeq(q) /\ Len(q) = Len(begin) + Len(f)
          /\ \A k \in 1..Len(begin) : q[k] = begin[k]
          /\ \A k \in 1..Len(f) : q[Len(begin) + k] = f[k]
      BY <2>0, ConcatAt
    <3> HIDE DEF q
    <3> QED BY <1>2, <1>3, <3>1
  <2>2. /\ \A k \in 1..6 : k \in 1..3 \/ (k - 3 \in 1..3 /\ 3 + (k - 3) = k)
        /\ \A k \in 1..3 : 3 + k \in 1..6
    OBVIOUS
  <2> HIDE DEF q
  <2>3. \A k \in 1..6 : RunPart(q[k], dir, files)
    BY <1>2, <1>3, <2>1, <2>2
  <2>4. \A g \in RunFiles : \E k \in 1..6 : q[k].op = "put" /\ q[k].path = File(dir, g)
    BY <1>3, <2>1, <2>2
  <2> QED BY <2>1, <2>3, <2>4
<1> HIDE DEF q
<1>6. IsSeq(s) /\ Len(s) = 7 /\ (\A n \in 1..6 : s[n] = q[n]) /\ s[7] = m
  <2>1. IsSeq(<<m>>) /\ Len(<<m>>) = 1 /\ <<m>>[1] = m
    BY TupleFacts
  <2>2. /\ IsSeq(s) /\ Len(s) = 6 + 1
        /\ \A k \in 1..6 : s[k] = q[k]
        /\ \A k \in 1..1 : s[6 + k] = <<m>>[k]
    <3> DEFINE z == <<m>>
    <3>0. IsSeq(q) /\ IsSeq(z)
      BY <1>5, <2>1
    <3>1. Len(z) = 1
      BY <2>1
    <3> HIDE DEF z
    <3>2. /\ IsSeq(q \o z) /\ Len(q \o z) = Len(q) + Len(z)
          /\ \A k \in 1..Len(q) : (q \o z)[k] = q[k]
          /\ \A k \in 1..Len(z) : (q \o z)[Len(q) + k] = z[k]
      BY <3>0, ConcatAt
    <3>3. s = q \o z
      BY DEF z
    <3> HIDE DEF s
    <3>4. /\ IsSeq(s) /\ Len(s) = 6 + 1
          /\ \A k \in 1..6 : s[k] = q[k]
          /\ \A k \in 1..1 : s[6 + k] = z[k]
      BY <1>5, <3>1, <3>2, <3>3
    <3> QED BY <3>4 DEF z
  <2>3. s[6 + 1] = <<m>>[1]
    BY <2>2
  <2> HIDE DEF s
  <2> QED BY <2>1, <2>2, <2>3
<1> HIDE DEF s
<1>7. \A k \in 1..6 : Tells(s[k])
  BY <1>5, <1>6 DEF RunPart
<1>8. ASSUME NEW g \in RunFiles PROVE Brought(d, s, 7, File(dir, g), files[g])
  <2> DEFINE p == File(dir, g)
  <2>1. 1..(7 - 1) = 1..6
    OBVIOUS
  <2>2. p.name = g /\ g # "." /\ \A h : File(dir, h) = p => h = g
    BY DEF File, At, RunFiles
  <2> HIDE DEF p
  <2>3. ASSUME NEW i \in 1..6
        PROVE  /\ s[i].op \in {"absent", "put"}
               /\ s[i].op = "put" /\ s[i].path = p => s[i].data = files[g]
    <3>1. RunPart(s[i], dir, files)
      BY <1>5, <1>6
    <3> QED BY <2>2, <3>1 DEF RunPart
  <2>4. \E i \in 1..6 : s[i].op = "put" /\ s[i].path = p
    BY <1>5, <1>6 DEF p
  <2>5. Brought(d, s, 7, p, files[g])
    BY <2>1, <2>3, <2>4 DEF Brought
  <2> QED BY <2>5 DEF p
<1> QED BY <1>1, <1>4, <1>6, <1>7, <1>8

LEMMA ArtifactsMatched ==
    ASSUME NEW V, NEW d, NEW o, NEW files, IsRun(V, files)
    PROVE  OpsMatched(V, d, PublishArtifacts(o, files))
<1> DEFINE s == PublishArtifacts(o, files)
<1>1. /\ Len(s) = 7 /\ (\A k \in 1..6 : Tells(s[k])) /\ Describes(s[7])
      /\ \A g \in RunFiles : Brought(d, s, 7, File(s[7].path.dir, g), files[g])
  BY ArtifactsBrought
<1> HIDE DEF s
<1>2. \A k \in 1..Len(s) : k \in 1..6 \/ k = 7
  BY <1>1
<1>3. \A k \in 1..6 : Describes(s[k]) /\ FitsRun(V, d, s, k)
  BY <1>1 DEF Tells, FitsRun
<1>4. Describes(s[7]) /\ FitsRun(V, d, s, 7)
  BY <1>1 DEF FitsRun
<1> QED BY <1>2, <1>3, <1>4 DEF OpsMatched, s

\* The caches a run reads are those of the plan's revisions.
LEMMA ReadMatched ==
    ASSUME NEW V, NEW plan, PlanKnown(V, plan), DiskDescribed(disk), StreamsRead(plan)
    PROVE  IsRun(V, Artifacts(plan, StreamEvents(plan)))
<1> DEFINE events == StreamEvents(plan)
           n == Len(plan)
<1>1. n \in Nat
  BY DEF PlanKnown
<1>2. events = [i \in 1..n |-> disk[File(plan[i].cache.dir, "events.bin")]]
  BY DEF StreamEvents
<1> HIDE DEF events, n
<1>3. /\ Len(events) = n
      /\ \A i \in 1..n : events[i] = disk[File(plan[i].cache.dir, "events.bin")]
  BY <1>1, <1>2
<1>4. ASSUME NEW i \in 1..n
      PROVE  \E r \in plan[i].revision :
               /\ events[i] = Normalized(plan[i].cache.dir[3][3], TickRecords(r.pages))
               /\ ArchiveOf(V, plan[i].key, r.pages)
  <2> DEFINE dir == plan[i].cache.dir
             key == plan[i].key
             x == disk[File(dir, "descriptor.yaml")]
  <2>1. PICK r \in plan[i].revision : Reads(disk, key, r, dir)
    BY DEF StreamsRead, n
  <2>2. /\ Has(disk, File(dir, "descriptor.yaml")) /\ x.revision = r
        /\ dir = CacheDir(key, CacheIdentity(x)) /\ disk[File(dir, "events.bin")] = x.events
    BY <2>1 DEF Reads
  <2>3. File(dir, "descriptor.yaml").name = "descriptor.yaml"
    BY DEF File, At
  <2>4. Described(x)
    BY <2>2, <2>3 DEF DiskDescribed, Has
  <2>5. ArchiveOf(V, key, r.pages)
    BY <2>1 DEF PlanKnown, n
  <2>6. events[i] = x.events
    BY <1>3, <2>2
  <2> HIDE DEF x, dir
  <2>7. dir[3][3] = x.mapping
    BY <2>2 DEF CacheDir, CacheIdentity
  <2>8. events[i] = Normalized(dir[3][3], TickRecords(r.pages))
    BY <2>2, <2>4, <2>6, <2>7 DEF Described
  <2> QED BY <2>1, <2>5, <2>8 DEF dir
<1>5. Matched(V, plan, events)
  BY <1>1, <1>3, <1>4 DEF Matched, n
<1> QED BY <1>5 DEF IsRun, events

\* A planned revision is the archive's.
LEMMA PlanMatched ==
    ASSUME RootInv, NEW config \in Configs, NEW mapping
    PROVE  PlanKnown(Source, Plan(config, mapping))
<1> DEFINE plan == Plan(config, mapping)
           n == Len(config)
<1>1. n \in Nat
  BY ConfigAssumption
<1>2. plan = [i \in 1..n |-> Planned(config[i], mapping)]
  BY DEF Plan
<1> HIDE DEF plan, n
<1>3. Len(plan) = n /\ \A i \in 1..n : plan[i] = Planned(config[i], mapping)
  BY <1>1, <1>2
<1>4. ASSUME NEW key, NEW r \in Planned(key, mapping).revision
      PROVE  ArchiveOf(Source, Planned(key, mapping).key, r.pages)
  <2> DEFINE S == IF Inspect(disk, key) = "Complete" THEN {disk[Current(key)]} ELSE {}
             p == Current(key)
             q == PartitionFile(key)
  <2>1. Planned(key, mapping).revision = S /\ Planned(key, mapping).key = key
    BY DEF Planned
  <2>2. Inspect(disk, key) = "Complete" /\ r = disk[p]
    BY <1>4, <2>1
  <2>3. ~LayoutRefused(disk, key) /\ Has(disk, p)
    BY <2>2 DEF Inspect
  <2>4. IsPointer(p) /\ p.dir[2] = key.place
    BY DEF IsPointer, Current, File, At, SourceRoot
  <2>5. PICK k : Named(disk, p.dir[2], k) /\ ArchiveOf(Source, k, disk[p].pages)
    BY <2>3, <2>4 DEF RootInv, DiskRooted, Has
  <2>6. Has(disk, q) /\ disk[q] = k
    BY <2>4, <2>5 DEF Named, PartitionFile, SourceRoot
  <2>7. k = key
    BY <2>3, <2>6 DEF LayoutRefused
  <2> QED BY <2>1, <2>2, <2>5, <2>7
<1> QED BY <1>1, <1>3, <1>4 DEF PlanKnown, plan

\* A step that keeps the plan, and goes on with calls of that kind.
KeepsPlan ==
    \/ job' = Idle
    \/ /\ job # Idle /\ AllTell(job'.ops)
       /\ job'.plan = job.plan /\ job'.mapping = job.mapping

LEMMA KeptMatched ==
    ASSUME RunInv, KeepsPlan
    PROVE  JobMatched(Source, disk, job')
BY TellMatched DEF KeepsPlan, RunInv, JobMatched

LEMMA KeptStep ==
    ASSUME CommandInv,
           \/ Finish \/ VerifyStage \/ SyncStage \/ SyncDone \/ SkipReused \/ PrepareStage
           \/ PrepareDone \/ InspectStage \/ TransportFails \/ Crash \/ FetchSingles
    PROVE  KeepsPlan
<1>1. ASSUME NEW step, Ready(step)
      PROVE  DOMAIN job = Fields /\ job.ops = <<>> /\ job # Idle
  BY <1>1, ReadyFacts DEF Active, Ready
<1>2. AllTell(<<>>)
  BY TellTuples
<1>3. ASSUME DOMAIN job = Fields, job.ops = <<>>, job # Idle, Proceed(NextStage)
      PROVE  KeepsPlan
  <2>1. NextStage.ops = <<>> /\ NextStage.plan = job.plan /\ NextStage.mapping = job.mapping
    BY <1>3 DEF NextStage, Fields
  <2> QED BY <1>2, <1>3, <2>1 DEF Proceed, KeepsPlan
<1>4. CASE Finish \/ TransportFails \/ Crash
  BY <1>4 DEF Finish, TransportFails, Crash, Fail, KeepsPlan
<1>5. CASE VerifyStage \/ InspectStage \/ SyncDone \/ PrepareDone
  <2>1. Proceed(NextStage) \/ job' = Idle
    BY <1>5 DEF VerifyStage, InspectStage, SyncDone, PrepareDone, Fail
  <2>2. PICK step \in {"stage", "fetch", "prepare"} : Ready(step)
    BY <1>5 DEF VerifyStage, InspectStage, SyncDone, PrepareDone, AtStage
  <2>3. DOMAIN job = Fields /\ job.ops = <<>> /\ job # Idle
    BY <1>1, <2>2
  <2> QED BY <1>3, <2>1, <2>3 DEF KeepsPlan
<1>6. CASE SyncStage
  <2> DEFINE n == [job EXCEPT !.todo = job.plan, !.step = "fetch"]
  <2>1. Proceed(NextStage) \/ Proceed(n) \/ job' = Idle
    BY <1>6, SyncForms
  <2>2. DOMAIN job = Fields /\ job.ops = <<>> /\ job # Idle
    <3>1. Ready("stage")
      BY <1>6 DEF SyncStage, AtStage
    <3> QED BY <1>1, <3>1
  <2>3. n.ops = <<>> /\ n.plan = job.plan /\ n.mapping = job.mapping
    BY <2>2 DEF Fields
  <2> HIDE DEF n
  <2>4. ASSUME Proceed(n) PROVE KeepsPlan
    BY <1>2, <2>2, <2>3, <2>4 DEF Proceed, KeepsPlan
  <2> QED BY <1>3, <2>1, <2>2, <2>4 DEF KeepsPlan
<1>7. CASE SkipReused \/ PrepareStage \/ FetchSingles
  <2>1. PICK step \in {"stage", "fetch", "prepare"} : Ready(step)
    BY <1>7 DEF SkipReused, PrepareStage, FetchSingles, AtStage
  <2>2. DOMAIN job = Fields /\ job.ops = <<>> /\ job # Idle
    BY <1>1, <2>1
  <2>3. job'.ops = <<>> /\ job'.plan = job.plan /\ job'.mapping = job.mapping
    BY <1>7, <2>2 DEF SkipReused, PrepareStage, FetchSingles, Proceed, Fields
  <2> QED BY <1>2, <2>2, <2>3 DEF KeepsPlan
<1> QED BY <1>4, <1>5, <1>6, <1>7

\* A download: its calls describe no cache and publish no run.
LEMMA DownloadKept ==
    ASSUME RunInv, OpenStaging \/ FetchPage \/ PublishRevision
    PROVE  KeepsPlan
<1> DEFINE key == Head(job.todo).key
<1>1. CommandInv /\ FitInv
  BY DEF RunInv, RootInv, FitInv
<1>2. PICK step \in {"open", "pages"} : Ready(step)
  BY DEF OpenStaging, FetchPage, PublishRevision
<1>3. DOMAIN job = Fields /\ job.ops = <<>> /\ job # Idle
  BY <1>1, <1>2, ReadyFacts DEF Active, Ready
<1>4. AllTell(<<>>)
  BY TellTuples
<1>5. CASE OpenStaging
  <2> DEFINE dir == Attempt(key)
             saved == disk[Checkpoint(dir)]
             pages == ResumedPages(disk, dir, saved.committed)
             resumed == [job EXCEPT !.step = "pages", !.sync.checkpoint = saved, !.sync.pages = pages]
             s == CreateOps(disk, key)
             created == [job EXCEPT !.step = "pages", !.ops = s]
  <2>1. job' = Idle \/ job' = resumed \/ job' = created
    BY <1>5 DEF OpenStaging, Fail, LoadCheckpoint, Proceed
  <2>2. AllTell(s)
    BY CreateTell
  <2> HIDE DEF s, saved, pages
  <2>3. resumed.ops = <<>> /\ resumed.plan = job.plan /\ resumed.mapping = job.mapping
    BY <1>3 DEF Fields
  <2>4. created.ops = s /\ created.plan = job.plan /\ created.mapping = job.mapping
    BY <1>3 DEF Fields
  <2> HIDE DEF resumed, created
  <2> QED BY <1>3, <1>4, <2>1, <2>2, <2>3, <2>4 DEF KeepsPlan
<1>6. CASE FetchPage
  <2> DEFINE checkpoint == job.sync.checkpoint
             page == Archive(remote, key, checkpoint.next)
             next == Committed(checkpoint, page)
             s == SavePage(key, Len(job.sync.pages), page, next)
             n == [job EXCEPT !.ops = s, !.sync.checkpoint = next, !.sync.pages = Append(@, page)]
  <2>1. job' = Idle \/ job' = n
    BY <1>6 DEF FetchPage, Fail, Proceed
  <2>2. AllTell(s)
    BY SaveTell
  <2> HIDE DEF s, next, page
  <2>3. n.ops = s /\ n.plan = job.plan /\ n.mapping = job.mapping
    BY <1>3 DEF Fields
  <2> HIDE DEF n
  <2> QED BY <1>3, <2>1, <2>2, <2>3 DEF KeepsPlan
<1>7. CASE PublishRevision
  <2> DEFINE pages == job.sync.pages
             daily == job.sync.daily
             s == StageDailyOps(Attempt(key), daily) \o PublishOps(key, RevisionOf(pages, daily))
             n == [job EXCEPT !.step = "fetch", !.todo = Tail(@), !.sync = <<>>, !.ops = s]
  <2>1. job' = n
    BY <1>7 DEF PublishRevision, Proceed
  <2>2. IsSeq(pages)
    <3>1. Ready("pages")
      BY <1>7 DEF PublishRevision
    <3> QED BY <1>1, <3>1, PagesThere DEF Linked
  <2>3. AllTell(s)
    <3> HIDE DEF pages, daily, key
    <3> QED BY <2>2, PublishTell
  <2> HIDE DEF s
  <2>4. n.ops = s /\ n.plan = job.plan /\ n.mapping = job.mapping
    BY <1>3 DEF Fields
  <2> HIDE DEF n
  <2> QED BY <1>3, <2>1, <2>3, <2>4 DEF KeepsPlan
<1> QED BY <1>5, <1>6, <1>7

\* cache prepare describes what it normalises.
LEMMA PrepareKept ==
    ASSUME CommandInv, PreparePartition
    PROVE  KeepsPlan
<1> DEFINE p == Head(job.todo)
           revision == disk[Current(p.key)]
           x == Descriptor(p.key, revision, job.mapping,
                           Normalized(job.mapping, TickRecords(revision.pages)))
           s == CacheOps(p.key, x)
           rest == [job EXCEPT !.todo = Tail(@)]
           built == [rest EXCEPT !.ops = s]
<1>1. DOMAIN job = Fields /\ job.ops = <<>> /\ job # Idle
  <2>1. Ready("prepare")
    BY DEF PreparePartition
  <2> QED BY <2>1, ReadyFacts DEF Active, Ready
<1>2. job' = rest \/ job' = built \/ job' = Idle
  BY DEF PreparePartition, Fail, Proceed
<1>3. Described(x)
  BY DEF Described, Descriptor
<1> HIDE DEF x
<1>4. AllTell(s)
  BY <1>3, CacheTell
<1> HIDE DEF s
<1>5. /\ rest.ops = <<>> /\ rest.plan = job.plan /\ rest.mapping = job.mapping
      /\ built.ops = s /\ built.plan = job.plan /\ built.mapping = job.mapping
  BY <1>1 DEF Fields
<1> HIDE DEF rest, built
<1> QED BY <1>1, <1>2, <1>4, <1>5, TellTuples DEF KeepsPlan

\* A run is published with what was read.
LEMMA ReplayMatched ==
    ASSUME RunInv, ReplayStage
    PROVE  JobMatched(Source, disk, job')
<1> DEFINE files == Artifacts(job.plan, StreamEvents(job.plan))
           s == PublishArtifacts(job.output, files)
           n == [NextStage EXCEPT !.ops = s]
<1>1. DOMAIN job = Fields /\ job.ops = <<>> /\ job # Idle
  <2>1. Ready("stage") /\ CommandInv
    BY DEF ReplayStage, AtStage, RunInv, RootInv, FitInv
  <2> QED BY <2>1, ReadyFacts DEF Active, Ready
<1>2. job' = Idle \/ (StreamsRead(job.plan) /\ (job' = NextStage \/ job' = n))
  BY DEF ReplayStage, Fail, Proceed
<1>3. PlanKnown(Source, job.plan) /\ DiskDescribed(disk)
  BY <1>1 DEF RunInv, JobMatched
<1>4. StreamsRead(job.plan) => OpsMatched(Source, disk, s)
  BY <1>3, ReadMatched, ArtifactsMatched
<1> HIDE DEF s
<1>5. n.ops = s /\ n.plan = job.plan /\ NextStage.ops = <<>> /\ NextStage.plan = job.plan
  BY <1>1 DEF Fields, NextStage
<1>6. OpsMatched(Source, disk, <<>>)
  BY TellTuples, TellMatched
<1> HIDE DEF n
<1>7. StreamsRead(job.plan) => JobMatched(Source, disk, n)
  BY <1>3, <1>4, <1>5 DEF JobMatched
<1>8. JobMatched(Source, disk, NextStage)
  BY <1>3, <1>5, <1>6 DEF JobMatched
<1> QED BY <1>2, <1>7, <1>8 DEF JobMatched

\* A command begins without a plan, and plans with what is there.
LEMMA PlannedMatched ==
    ASSUME RunInv, Begin \/ PlanStage
    PROVE  JobMatched(Source, disk, job')
<1>1. OpsMatched(Source, disk, <<>>)
  BY TellTuples, TellMatched
<1>2. CASE Begin
  <2>1. job'.ops = <<>> /\ job'.plan = <<>>
    BY <1>2 DEF Begin
  <2>2. Len(<<>>) = 0 /\ 1..Len(<<>>) = {}
    OBVIOUS
  <2>3. PlanKnown(Source, <<>>)
    BY <2>2 DEF PlanKnown
  <2> QED BY <1>1, <2>1, <2>3 DEF JobMatched
<1>3. CASE PlanStage
  <2> DEFINE plan == Plan(job.keys, job.mapping)
             n == [NextStage EXCEPT !.plan = plan]
  <2>1. DOMAIN job = Fields /\ job.ops = <<>> /\ job.keys \in Configs
    <3>1. Ready("stage") /\ CommandInv
      BY <1>3 DEF PlanStage, AtStage, RunInv, RootInv, FitInv
    <3> QED BY <3>1, ReadyFacts DEF Active
  <2>2. PlanKnown(Source, plan)
    BY <2>1, PlanMatched DEF RunInv
  <2> HIDE DEF plan
  <2>3. n.ops = <<>> /\ n.plan = plan
    BY <2>1 DEF Fields, NextStage
  <2>4. job' = n
    BY <1>3 DEF PlanStage, Proceed, plan
  <2> HIDE DEF n
  <2> QED BY <1>1, <2>2, <2>3, <2>4 DEF JobMatched
<1> QED BY <1>2, <1>3

\* Damage reaches neither descriptors nor runs.
LEMMA DamageMatched ==
    ASSUME RunInv, Damage
    PROVE  /\ DiskDescribed(disk') /\ DiskRuns(Source, disk')
           /\ JobMatched(Source, disk', job')
<1>1. PICK p \in DOMAIN disk :
        \/ /\ p.dir[1] = "revision" /\ p.name = "page.zst"
           /\ disk' = [disk EXCEPT ![p].items = <<"damaged">>]
        \/ /\ p.dir[1] = "cache" /\ p.name = "events.bin"
           /\ disk' = [disk EXCEPT ![p].records = <<"damaged">>]
  BY DEF Damage
<1>2. DOMAIN disk' = DOMAIN disk /\ \A q \in DOMAIN disk : q # p => disk'[q] = disk[q]
  BY <1>1
<1>3. p.dir[1] \in {"revision", "cache"} /\ p.name # "descriptor.yaml"
  BY <1>1
<1> DEFINE d == disk
           e == disk'
<1>4. /\ DOMAIN e = DOMAIN d
      /\ \A q \in DOMAIN d : q.dir[1] = "output" \/ q.name = "descriptor.yaml" => e[q] = d[q]
  BY <1>2, <1>3
<1>5. DiskDescribed(d) /\ DiskRuns(Source, d) /\ job' = Idle
  BY DEF RunInv, Damage
<1> HIDE DEF d, e
<1>6. DiskDescribed(e)
  BY <1>4, <1>5 DEF DiskDescribed
<1>7. ASSUME NEW q \in DOMAIN e, q.dir[1] = "output" PROVE RunWhole(Source, e, q.dir)
  <2>1. PICK files : /\ IsRun(Source, files)
                     /\ \A f \in RunFiles : ObjectVerifies(d, File(q.dir, f), files[f])
    BY <1>4, <1>5, <1>7 DEF DiskRuns, RunWhole
  <2>2. ASSUME NEW f \in RunFiles PROVE ObjectVerifies(e, File(q.dir, f), files[f])
    <3> DEFINE r == File(q.dir, f)
    <3>1. r.dir = q.dir
      BY DEF File, At
    <3>2. Has(d, r) /\ d[r] = files[f]
      BY <2>1 DEF ObjectVerifies
    <3> HIDE DEF r
    <3>3. ObjectVerifies(e, r, files[f])
      BY <1>4, <1>7, <3>1, <3>2 DEF Has, ObjectVerifies
    <3> QED BY <3>3 DEF r
  <2> QED BY <2>1, <2>2 DEF RunWhole
<1>8. DiskRuns(Source, e)
  BY <1>7 DEF DiskRuns
<1> QED BY <1>5, <1>6, <1>8 DEF e, JobMatched

\* Fewer answers of the archive ask for less.
LEMMA RunLess ==
    ASSUME NEW V, NEW W, W \subseteq V, NEW d, NEW j
    PROVE  /\ DiskRuns(V, d) => DiskRuns(W, d)
           /\ JobMatched(V, d, j) => JobMatched(W, d, j)
<1>1. \A key, pages : ArchiveOf(V, key, pages) => ArchiveOf(W, key, pages)
  BY DEF ArchiveOf, Asked
<1>2. \A plan, events : Matched(V, plan, events) => Matched(W, plan, events)
  BY <1>1 DEF Matched
<1>3. \A files : IsRun(V, files) => IsRun(W, files)
  BY <1>2 DEF IsRun
<1>4. DiskRuns(V, d) => DiskRuns(W, d)
  BY <1>3 DEF DiskRuns, RunWhole
<1>5. \A s, k : FitsRun(V, d, s, k) => FitsRun(W, d, s, k)
  BY <1>3 DEF FitsRun
<1>6. \A plan : PlanKnown(V, plan) => PlanKnown(W, plan)
  BY <1>1 DEF PlanKnown
<1>7. JobMatched(V, d, j) => JobMatched(W, d, j)
  BY <1>5, <1>6 DEF JobMatched, OpsMatched
<1> QED BY <1>4, <1>7

LEMMA RunInit == Init => RunInv
<1> SUFFICES ASSUME Init PROVE RunInv
  OBVIOUS
<1>1. DOMAIN disk = {} /\ job = Idle
  BY DEF Init
<1>2. DiskDescribed(disk) /\ DiskRuns(Source, disk)
  BY <1>1 DEF DiskDescribed, DiskRuns
<1> QED BY <1>1, <1>2, RootInit DEF RunInv, JobMatched

LEMMA RunNext ==
    ASSUME RunInv, [Next]_vars
    PROVE  RunInv'
<1>1. /\ RootInv /\ FitInv /\ CommandInv /\ DiskDescribed(disk) /\ DiskRuns(Source, disk)
      /\ JobMatched(Source, disk, job)
  BY DEF RunInv, RootInv, FitInv
<1>2. RootInv' /\ Source' \subseteq Source
  BY <1>1, RootNext, SourceStep
<1>3. ASSUME DiskDescribed(disk'), DiskRuns(Source, disk'), JobMatched(Source, disk', job')
      PROVE  RunInv'
  <2>1. DiskRuns(Source', disk') /\ JobMatched(Source', disk', job')
    BY <1>2, <1>3, RunLess
  <2> QED BY <1>2, <1>3, <2>1 DEF RunInv
<1>4. CASE FileCall
  BY <1>3, <1>4, FileCallMatched
<1>5. CASE Damage
  BY <1>3, <1>5, DamageMatched
<1>6. ASSUME disk' = disk, JobMatched(Source, disk, job') PROVE RunInv'
  BY <1>1, <1>3, <1>6
<1>7. CASE ArchiveChanges \/ UNCHANGED vars
  <2>1. disk' = disk /\ job' = job
    BY <1>7 DEF ArchiveChanges, vars
  <2> QED BY <1>1, <1>6, <2>1
<1>8. CASE \/ Finish \/ VerifyStage \/ SyncStage \/ SyncDone \/ SkipReused \/ PrepareStage
           \/ PrepareDone \/ InspectStage \/ TransportFails \/ Crash \/ FetchSingles
  <2>1. disk' = disk
    BY <1>1, <1>8, StopStep, VerifyStep, SyncStep, DoneStep, SkipStep, PrepareStep, FetchStep
  <2>2. KeepsPlan
    BY <1>1, <1>8, KeptStep
  <2> QED BY <1>6, <2>1, <2>2, KeptMatched
<1>9. CASE OpenStaging \/ FetchPage \/ PublishRevision \/ PreparePartition
  <2>1. disk' = disk
    BY <1>1, <1>9, OpenStep, PageStep, PublishStep, PrepareStep
  <2>2. KeepsPlan
    BY <1>1, <1>9, DownloadKept, PrepareKept
  <2> QED BY <1>6, <2>1, <2>2, KeptMatched
<1>10. CASE Begin \/ PlanStage \/ ReplayStage
  <2>1. disk' = disk
    BY <1>1, <1>10, BeginStep, PlanStep, ReplayStep
  <2>2. JobMatched(Source, disk, job')
    BY <1>10, PlannedMatched, ReplayMatched
  <2> QED BY <1>6, <2>1, <2>2
<1> QED BY <1>4, <1>5, <1>7, <1>8, <1>9, <1>10 DEF Next, Step

LEMMA RunLineage ==
    ASSUME RunInv
    PROVE  RunsMatchTheirLineage
<1> SUFFICES ASSUME NEW p \in DOMAIN disk, p.dir[1] = "output"
             PROVE  /\ InspectAccepts(p.dir)
                    /\ LET manifest == disk[File(p.dir, "run-manifest.yaml")]
                           events == disk[File(p.dir, "ledger.bin")][2]
                       IN  \A i \in 1..Len(events) :
                              \E revision \in manifest.lineage[i].revision :
                                /\ events[i] = Normalized(manifest.lineage[i].cache[3][3],
                                                          TickRecords(revision.pages))
                                /\ IsArchiveOf(revision.pages, manifest.lineage[i].key)
  BY DEF RunsMatchTheirLineage
<1> DEFINE dir == p.dir
<1>1. PICK files : /\ IsRun(Source, files)
                   /\ \A f \in RunFiles : ObjectVerifies(disk, File(dir, f), files[f])
  BY DEF RunInv, DiskRuns, RunWhole
<1>2. PICK plan, events : Matched(Source, plan, events) /\ files = Artifacts(plan, events)
  BY <1>1 DEF IsRun
<1> HIDE DEF dir
<1> DEFINE n == Len(plan)
           lineage == [i \in 1..n |-> [key |-> plan[i].key, revision |-> plan[i].revision,
                                       cache |-> plan[i].cache.dir]]
           sums == [g \in {"ledger.bin", "strategy.json"} |-> <<g, events>>]
           manifest == [lineage |-> lineage, checksums |-> sums]
<1>3. /\ files["run-manifest.yaml"] = manifest
      /\ files["ledger.bin"] = <<"ledger.bin", events>>
      /\ files["strategy.json"] = <<"strategy.json", events>>
  <2>1. ToSet(ArtifactFiles) = RunFiles
    <3>1. Len(ArtifactFiles) = 3 /\ ArtifactFiles[1] = "ledger.bin"
          /\ ArtifactFiles[2] = "run-manifest.yaml" /\ ArtifactFiles[3] = "strategy.json"
      BY DEF ArtifactFiles
    <3>2. DOMAIN ArtifactFiles = 1..3
      BY DEF ArtifactFiles
    <3>3. ToSet(ArtifactFiles) = {ArtifactFiles[i] : i \in 1..3}
      BY <3>2 DEF ToSet
    <3> QED BY <3>1, <3>3 DEF RunFiles
  <2>2. files = [f \in RunFiles |-> IF f # "run-manifest.yaml" THEN <<f, events>> ELSE manifest]
    BY <1>2, <2>1 DEF Artifacts
  <2> HIDE DEF manifest
  <2> QED BY <2>2 DEF RunFiles
<1>4. /\ ObjectVerifies(disk, File(dir, "run-manifest.yaml"), manifest)
      /\ ObjectVerifies(disk, File(dir, "ledger.bin"), <<"ledger.bin", events>>)
      /\ ObjectVerifies(disk, File(dir, "strategy.json"), <<"strategy.json", events>>)
  <2> HIDE DEF manifest
  <2> QED BY <1>1, <1>3 DEF RunFiles
<1>5. InspectAccepts(dir)
  <2>1. Has(disk, File(dir, "run-manifest.yaml"))
        /\ disk[File(dir, "run-manifest.yaml")].checksums = sums
    BY <1>4 DEF ObjectVerifies
  <2>2. /\ DOMAIN sums = {"ledger.bin", "strategy.json"}
        /\ sums["ledger.bin"] = <<"ledger.bin", events>>
        /\ sums["strategy.json"] = <<"strategy.json", events>>
    OBVIOUS
  <2> HIDE DEF sums, manifest
  <2>3. \A f \in DOMAIN sums : Has(disk, File(dir, f)) /\ disk[File(dir, f)] = sums[f]
    BY <1>4, <2>2 DEF ObjectVerifies
  <2> QED BY <2>1, <2>3 DEF InspectAccepts
<1>6. /\ disk[File(dir, "ledger.bin")][2] = events
      /\ disk[File(dir, "run-manifest.yaml")].lineage = lineage
  BY <1>4 DEF ObjectVerifies
<1>7. Len(events) = n /\ \A i \in 1..n : \E r \in plan[i].revision :
         /\ events[i] = Normalized(plan[i].cache.dir[3][3], TickRecords(r.pages))
         /\ ArchiveOf(Source, plan[i].key, r.pages)
  BY <1>2 DEF Matched
<1>8. \A key, pages : ArchiveOf(Source, key, pages) => IsArchiveOf(pages, key)
  <2> SUFFICES ASSUME NEW key, NEW pages, ArchiveOf(Source, key, pages) PROVE IsArchiveOf(pages, key)
    OBVIOUS
  <2>1. faults.changes = 0 =>
          \A i \in 1..Len(pages) : pages[i] = Archive(remote, key, IF i = 1 THEN 0 ELSE pages[i - 1].next)
    BY DEF ArchiveOf, Asked, Source
  <2> QED BY <2>1 DEF ArchiveOf, IsArchiveOf
<1>9. \A i \in 1..n : /\ lineage[i].key = plan[i].key /\ lineage[i].revision = plan[i].revision
                      /\ lineage[i].cache = plan[i].cache.dir
  OBVIOUS
<1> HIDE DEF lineage, n, manifest, sums
<1>10. \A i \in 1..Len(events) : \E r \in lineage[i].revision :
         /\ events[i] = Normalized(lineage[i].cache[3][3], TickRecords(r.pages))
         /\ IsArchiveOf(r.pages, lineage[i].key)
  <2> SUFFICES ASSUME NEW i \in 1..n
               PROVE  \E r \in lineage[i].revision :
                        /\ events[i] = Normalized(lineage[i].cache[3][3], TickRecords(r.pages))
                        /\ IsArchiveOf(r.pages, lineage[i].key)
    BY <1>7
  <2>1. PICK r \in plan[i].revision :
           /\ events[i] = Normalized(plan[i].cache.dir[3][3], TickRecords(r.pages))
           /\ ArchiveOf(Source, plan[i].key, r.pages)
    BY <1>7
  <2> QED BY <1>8, <1>9, <2>1
<1> QED BY <1>5, <1>6, <1>10 DEF dir

\* Every published run is whole, so that inspect accepts it, and its result is
\* the normalisation, by the mapping of its cache, of the source revision its
\* lineage names, and that revision is the archive's own of the sessions that
\* were asked for (inspect, PartitionCacheCatalog::inspect, CacheReader's check
\* of the payload, publish_artifacts): for every archive, every universe, and
\* any number of crashes and of damaged pages and cache payloads; no stale, torn
\* or damaged cache is ever replayed into a run.
THEOREM RunsFromTheirLineage == Spec => []RunsMatchTheirLineage
BY RunInit, RunNext, RunLineage, PTL DEF Spec

-----------------------------------------------------------------------------
(* A run uses the caches of its own mapping: the plan reuses no other, and *)
(* the mapping of a command does not change.                               *)

OwnEvents(mapping, events) == \A i \in 1..Len(events) : events[i].mapping = mapping
FitsOwn(mapping, d, s, k) ==
    MovesRun(s[k]) =>
      \E events : /\ OwnEvents(mapping, events)
                  /\ Brought(d, s, k, File(s[k].path.dir, "ledger.bin"), <<"ledger.bin", events>>)
OwnPlan(mapping, plan) ==
    \A i \in 1..Len(plan) : plan[i].action = "ReuseValidCache" => plan[i].cache.dir[3][3] = mapping
JobOwn(d, j) ==
    \/ j = Idle
    \/ (\A k \in 1..Len(j.ops) : FitsOwn(j.mapping, d, j.ops, k)) /\ OwnPlan(j.mapping, j.plan)
OwnInv == RunInv /\ JobOwn(disk, job)

\* The next call of the command.
LEMMA FileCallOwn ==
    ASSUME OwnInv, FileCall
    PROVE  JobOwn(disk', job')
<1> DEFINE s == job.ops
           o == Head(job.ops)
<1>1. CommandInv /\ Active(disk, job) /\ DiskOK(disk) /\ s # <<>> /\ job # Idle
  BY DEF OwnInv, RunInv, RootInv, FitInv, CommandInv, FileCall
<1>2. OpsOK(disk, s) /\ IsSeq(s) /\ AllPaths(disk)
  BY <1>1 DEF Active, OpsOK, DiskOK
<1>3. o = s[1] /\ 1 \in 1..Len(s) /\ Len(s) \in Nat /\ Len(Tail(s)) = Len(s) - 1
      /\ \A k \in 1..Len(Tail(s)) : Tail(s)[k] = s[k + 1]
  BY <1>1, <1>2, SeqFacts
<1>4. CASE Refused(disk, o)
  BY <1>4 DEF FileCall, Fail, JobOwn
<1>5. CASE ~Refused(disk, o)
  <2> DEFINE n == [job EXCEPT !.ops = Tail(@)]
             e == Applied(disk, o)
  <2>1. job' = n /\ disk' = e
    BY <1>5 DEF FileCall
  <2>2. Harmless(o) /\ Free(disk, o)
    <3>1. o.op = "move" => ~DirExists(disk, o.to.dir)
      BY <1>2, <1>3 DEF OpsOK, Guarded
    <3> QED BY <1>2, <1>3, <3>1 DEF OpsOK, Free
  <2>3. (\A k \in 1..Len(s) : FitsOwn(job.mapping, disk, s, k)) /\ OwnPlan(job.mapping, job.plan)
    BY <1>1 DEF OwnInv, JobOwn
  <2>4. n.ops = Tail(s) /\ n.plan = job.plan /\ n.mapping = job.mapping
    BY <1>1 DEF Active, Fields
  <2>5. \A k \in 1..Len(Tail(s)) : k + 1 \in 1..Len(s)
    BY <1>3
  <2>6. ASSUME NEW k \in 1..Len(Tail(s)) PROVE FitsOwn(job.mapping, e, Tail(s), k)
    <3>1. Tail(s)[k] = s[k + 1] /\ FitsOwn(job.mapping, disk, s, k + 1)
      BY <1>3, <2>3, <2>5
    <3> HIDE DEF s
    <3> DEFINE p == File(s[k + 1].path.dir, "ledger.bin")
    <3>2. ASSUME MovesRun(s[k + 1])
          PROVE  \E events : OwnEvents(job.mapping, events)
                               /\ Brought(e, Tail(s), k, p, <<"ledger.bin", events>>)
      <4>1. PICK events : OwnEvents(job.mapping, events)
                            /\ Brought(disk, s, k + 1, p, <<"ledger.bin", events>>)
        BY <3>1, <3>2 DEF FitsOwn
      <4> DEFINE x == <<"ledger.bin", events>>
      <4> HIDE DEF p, o, x
      <4>2. Brought(disk, s, k + 1, p, x)
        BY <4>1 DEF x
      <4>3. Brought(Applied(disk, s[1]), Tail(s), k, p, x)
        BY <1>1, <1>2, <1>3, <2>2, <2>6, <4>2, BroughtTail DEF s
      <4> QED BY <1>3, <4>1, <4>3 DEF x
    <3> QED BY <3>1, <3>2 DEF FitsOwn
  <2> HIDE DEF e, n
  <2>7. JobOwn(e, n)
    BY <2>3, <2>4, <2>6 DEF JobOwn
  <2> QED BY <2>1, <2>7
<1> QED BY <1>4, <1>5

\* PartitionCacheCatalog::inspect finds a cache of the mapping asked for.
LEMMA PlanOwn ==
    ASSUME NEW config \in Configs, NEW mapping
    PROVE  OwnPlan(mapping, Plan(config, mapping))
<1> DEFINE plan == Plan(config, mapping)
           n == Len(config)
<1>1. n \in Nat
  BY ConfigAssumption
<1>2. plan = [i \in 1..n |-> Planned(config[i], mapping)]
  BY DEF Plan
<1> HIDE DEF plan, n
<1>3. Len(plan) = n /\ \A i \in 1..n : plan[i] = Planned(config[i], mapping)
  BY <1>1, <1>2
<1>4. ASSUME NEW key, Planned(key, mapping).action = "ReuseValidCache"
      PROVE  Planned(key, mapping).cache.dir[3][3] = mapping
  <2> DEFINE state == Inspect(disk, key)
             revision == disk[Current(key)]
             catalog == Catalog(disk, key, revision, mapping)
             cache == IF state = "Complete" THEN catalog ELSE [state |-> "Missing"]
             Of(dir) == disk[File(dir, "descriptor.yaml")]
             bound == {dir \in DescribedDirs(disk, key) : Of(dir).revision = revision /\ Of(dir).key = key}
             fresh == {dir \in bound : Of(dir).mapping = mapping}
             found == CHOOSE dir \in fresh : TRUE
  <2>1. Planned(key, mapping).cache = cache /\ Planned(key, mapping).action = CacheAction(state, cache)
    BY DEF Planned
  <2>2. state = "Complete" /\ cache = catalog /\ catalog.state = "Valid"
    <3> HIDE DEF state, catalog
    <3>1. CacheAction(state, cache) = "ReuseValidCache"
      BY <1>4, <2>1
    <3>2. state = "Complete" /\ cache.state = "Valid"
      BY <3>1 DEF CacheAction
    <3> QED BY <3>2
  <2>3. /\ fresh # {} /\ catalog = [state |-> "Valid", dir |-> found]
        /\ \A dir \in fresh : dir = CacheDir(key, CacheIdentity(Of(dir)))
    <3> DEFINE many == Cardinality(fresh) > 1
               astray == \E dir \in fresh : dir # CacheDir(key, CacheIdentity(Of(dir)))
    <3>1. catalog = CASE fresh = {} /\ bound = {} -> [state |-> "Missing"]
                      [] fresh = {} -> [state |-> "Stale"]
                      [] astray -> [state |-> "Corrupt"]
                      [] many -> [state |-> "Corrupt"]
                      [] OTHER -> [state |-> "Valid", dir |-> found]
      BY DEF Catalog
    <3> HIDE DEF fresh, bound, many, astray, found, catalog
    <3>2. catalog = [state |-> "Valid", dir |-> found] /\ fresh # {} /\ ~astray
      BY <2>2, <3>1
    <3> QED BY <3>2 DEF astray
  <2>4. found \in fresh
    BY <2>3
  <2> HIDE DEF found
  <2>5. Of(found).mapping = mapping /\ found = CacheDir(key, CacheIdentity(Of(found)))
    BY <2>3, <2>4
  <2> DEFINE x == Of(found)
  <2>6. x.mapping = mapping /\ found = CacheDir(key, CacheIdentity(x))
    BY <2>5
  <2> HIDE DEF x
  <2>7. found[3][3] = mapping
    BY <2>6 DEF CacheDir, CacheIdentity
  <2>8. Planned(key, mapping).cache.dir = found
    BY <2>1, <2>2, <2>3
  <2> QED BY <2>7, <2>8
<1> QED BY <1>1, <1>3, <1>4 DEF OwnPlan, plan

\* The streams that are read are of that mapping.
LEMMA ReadOwn ==
    ASSUME NEW mapping, NEW plan, Len(plan) \in Nat, OwnPlan(mapping, plan), ReplayReady(plan),
           DiskDescribed(disk), StreamsRead(plan)
    PROVE  OwnEvents(mapping, StreamEvents(plan))
<1> DEFINE events == StreamEvents(plan)
           n == Len(plan)
<1>1. events = [i \in 1..n |-> disk[File(plan[i].cache.dir, "events.bin")]]
  BY DEF StreamEvents
<1>2. n \in Nat
  OBVIOUS
<1> HIDE DEF events, n
<1>3. /\ Len(events) = n
      /\ \A i \in 1..n : events[i] = disk[File(plan[i].cache.dir, "events.bin")]
  BY <1>1, <1>2
<1>4. ASSUME NEW i \in 1..n PROVE events[i].mapping = mapping
  <2> DEFINE dir == plan[i].cache.dir
             x == disk[File(dir, "descriptor.yaml")]
  <2>1. PICK r \in plan[i].revision : Reads(disk, plan[i].key, r, dir)
    BY DEF StreamsRead, n
  <2>2. /\ Has(disk, File(dir, "descriptor.yaml"))
        /\ dir = CacheDir(plan[i].key, CacheIdentity(x)) /\ disk[File(dir, "events.bin")] = x.events
    BY <2>1 DEF Reads
  <2>3. File(dir, "descriptor.yaml").name = "descriptor.yaml"
    BY DEF File, At
  <2>4. Described(x)
    BY <2>2, <2>3 DEF DiskDescribed, Has
  <2>5. dir[3][3] = mapping
    BY DEF OwnPlan, ReplayReady, n
  <2>6. events[i] = x.events
    BY <1>3, <2>2
  <2> HIDE DEF x, dir
  <2>7. dir[3][3] = x.mapping
    BY <2>2 DEF CacheDir, CacheIdentity
  <2>8. x.events.mapping = x.mapping
    BY <2>4 DEF Described, Normalized
  <2> QED BY <2>5, <2>6, <2>7, <2>8
<1> QED BY <1>3, <1>4 DEF OwnEvents, events

LEMMA TellOwn ==
    ASSUME NEW mapping, NEW d, NEW s, AllTell(s)
    PROVE  \A k \in 1..Len(s) : FitsOwn(mapping, d, s, k)
BY DEF AllTell, Tells, FitsOwn

LEMMA ReplayOwn ==
    ASSUME OwnInv, ReplayStage
    PROVE  JobOwn(disk, job')
<1> DEFINE events == StreamEvents(job.plan)
           files == Artifacts(job.plan, events)
           s == PublishArtifacts(job.output, files)
           n == [NextStage EXCEPT !.ops = s]
<1>1. DOMAIN job = Fields /\ job.ops = <<>> /\ job # Idle
  <2>1. Ready("stage") /\ CommandInv
    BY DEF ReplayStage, AtStage, OwnInv, RunInv, RootInv, FitInv
  <2> QED BY <2>1, ReadyFacts DEF Active, Ready
<1>2. job' = Idle \/ (ReplayReady(job.plan) /\ StreamsRead(job.plan) /\ (job' = NextStage \/ job' = n))
  BY DEF ReplayStage, Fail, Proceed
<1>3. OwnPlan(job.mapping, job.plan) /\ DiskDescribed(disk) /\ Len(job.plan) \in Nat
  BY <1>1 DEF OwnInv, RunInv, JobOwn, JobMatched, PlanKnown
<1>4. ASSUME ReplayReady(job.plan), StreamsRead(job.plan)
      PROVE  \A k \in 1..Len(s) : FitsOwn(job.mapping, disk, s, k)
  <2>1. OwnEvents(job.mapping, events)
    BY <1>3, <1>4, ReadOwn
  <2>2. files["ledger.bin"] = <<"ledger.bin", events>>
    <3>1. ToSet(ArtifactFiles) = {ArtifactFiles[i] : i \in DOMAIN ArtifactFiles}
      BY DEF ToSet
    <3>2. 1 \in DOMAIN ArtifactFiles /\ ArtifactFiles[1] = "ledger.bin"
      BY DEF ArtifactFiles
    <3>3. "ledger.bin" \in ToSet(ArtifactFiles)
      BY <3>1, <3>2
    <3> QED BY <3>3 DEF Artifacts
  <2> HIDE DEF files, events
  <2>3. /\ Len(s) = 7 /\ (\A k \in 1..6 : Tells(s[k]))
        /\ \A g \in RunFiles : Brought(disk, s, 7, File(s[7].path.dir, g), files[g])
    BY ArtifactsBrought
  <2> HIDE DEF s
  <2>4. \A k \in 1..Len(s) : k \in 1..6 \/ k = 7
    BY <2>3
  <2>5. \A k \in 1..6 : FitsOwn(job.mapping, disk, s, k)
    BY <2>3 DEF Tells, FitsOwn
  <2>6. Brought(disk, s, 7, File(s[7].path.dir, "ledger.bin"), <<"ledger.bin", events>>)
    BY <2>2, <2>3 DEF RunFiles
  <2>7. FitsOwn(job.mapping, disk, s, 7)
    BY <2>1, <2>6 DEF FitsOwn
  <2> QED BY <2>4, <2>5, <2>7
<1> HIDE DEF s
<1>5. /\ n.ops = s /\ n.plan = job.plan /\ n.mapping = job.mapping
      /\ NextStage.ops = <<>> /\ NextStage.plan = job.plan /\ NextStage.mapping = job.mapping
  BY <1>1 DEF Fields, NextStage
<1>6. \A k \in 1..Len(<<>>) : FitsOwn(job.mapping, disk, <<>>, k)
  BY TellTuples, TellOwn
<1> HIDE DEF n
<1>7. ReplayReady(job.plan) /\ StreamsRead(job.plan) => JobOwn(disk, n)
  BY <1>3, <1>4, <1>5 DEF JobOwn
<1>8. JobOwn(disk, NextStage)
  BY <1>3, <1>5, <1>6 DEF JobOwn
<1> QED BY <1>2, <1>7, <1>8 DEF JobOwn

LEMMA PlannedOwn ==
    ASSUME OwnInv, Begin \/ PlanStage
    PROVE  JobOwn(disk, job')
<1>1. \A mapping : \A k \in 1..Len(<<>>) : FitsOwn(mapping, disk, <<>>, k)
  BY TellTuples, TellOwn
<1>2. CASE Begin
  <2>1. job'.ops = <<>> /\ job'.plan = <<>>
    BY <1>2 DEF Begin
  <2>2. 1..Len(<<>>) = {}
    OBVIOUS
  <2>3. \A mapping : OwnPlan(mapping, <<>>)
    BY <2>2 DEF OwnPlan
  <2> QED BY <1>1, <2>1, <2>3 DEF JobOwn
<1>3. CASE PlanStage
  <2> DEFINE plan == Plan(job.keys, job.mapping)
             n == [NextStage EXCEPT !.plan = plan]
  <2>1. DOMAIN job = Fields /\ job.ops = <<>> /\ job.keys \in Configs
    <3>1. Ready("stage") /\ CommandInv
      BY <1>3 DEF PlanStage, AtStage, OwnInv, RunInv, RootInv, FitInv
    <3> QED BY <3>1, ReadyFacts DEF Active
  <2>2. OwnPlan(job.mapping, plan)
    BY <2>1, PlanOwn
  <2> HIDE DEF plan
  <2>3. n.ops = <<>> /\ n.plan = plan /\ n.mapping = job.mapping
    BY <2>1 DEF Fields, NextStage
  <2>4. job' = n
    BY <1>3 DEF PlanStage, Proceed, plan
  <2> HIDE DEF n
  <2> QED BY <1>1, <2>2, <2>3, <2>4 DEF JobOwn
<1> QED BY <1>2, <1>3

LEMMA OwnInit == Init => OwnInv
BY RunInit DEF OwnInv, JobOwn, Init

LEMMA OwnNext ==
    ASSUME OwnInv, [Next]_vars
    PROVE  OwnInv'
<1>1. RunInv /\ RootInv /\ FitInv /\ CommandInv /\ JobOwn(disk, job)
  BY DEF OwnInv, RunInv, RootInv, FitInv
<1>2. RunInv'
  BY <1>1, RunNext
<1> SUFFICES JobOwn(disk', job')
  BY <1>2 DEF OwnInv
<1>3. CASE FileCall
  BY <1>3, FileCallOwn
<1>4. CASE Damage
  BY <1>4 DEF Damage, JobOwn
<1>5. CASE ArchiveChanges \/ UNCHANGED vars
  <2>1. disk' = disk /\ job' = job
    BY <1>5 DEF ArchiveChanges, vars
  <2> QED BY <1>1, <2>1
<1>6. ASSUME disk' = disk, KeepsPlan PROVE JobOwn(disk', job')
  <2>1. CASE job' = Idle
    BY <2>1 DEF JobOwn
  <2>2. CASE job' # Idle
    <3>1. job # Idle /\ AllTell(job'.ops) /\ job'.plan = job.plan /\ job'.mapping = job.mapping
      BY <1>6, <2>2 DEF KeepsPlan
    <3>2. \A k \in 1..Len(job'.ops) : FitsOwn(job'.mapping, disk, job'.ops, k)
      BY <3>1, TellOwn
    <3> QED BY <1>1, <1>6, <3>1, <3>2 DEF JobOwn
  <2> QED BY <2>1, <2>2
<1>7. CASE \/ Finish \/ VerifyStage \/ SyncStage \/ SyncDone \/ SkipReused \/ PrepareStage
           \/ PrepareDone \/ InspectStage \/ TransportFails \/ Crash \/ FetchSingles
  <2>1. disk' = disk
    BY <1>1, <1>7, StopStep, VerifyStep, SyncStep, DoneStep, SkipStep, PrepareStep, FetchStep
  <2>2. KeepsPlan
    BY <1>1, <1>7, KeptStep
  <2> QED BY <1>6, <2>1, <2>2
<1>8. CASE OpenStaging \/ FetchPage \/ PublishRevision \/ PreparePartition
  <2>1. disk' = disk
    BY <1>1, <1>8, OpenStep, PageStep, PublishStep, PrepareStep
  <2>2. KeepsPlan
    BY <1>1, <1>8, DownloadKept, PrepareKept
  <2> QED BY <1>6, <2>1, <2>2
<1>9. CASE Begin \/ PlanStage \/ ReplayStage
  <2>1. disk' = disk
    BY <1>1, <1>9, BeginStep, PlanStep, ReplayStep
  <2>2. JobOwn(disk, job')
    BY <1>9, PlannedOwn, ReplayOwn
  <2> QED BY <2>1, <2>2
<1> QED BY <1>3, <1>4, <1>5, <1>7, <1>8, <1>9 DEF Next, Step

\* A run appears by one move, of files staged by the command that moves them.
AppearsOwn ==
    \A o \in Outputs :
      ~DirExists(disk, OutputDir(o)) /\ DirExists(disk', OutputDir(o)) =>
        LET events == disk'[File(OutputDir(o), "ledger.bin")][2]
        IN  \A i \in 1..Len(events) : events[i].mapping = job.mapping

LEMMA OwnStep ==
    ASSUME OwnInv, [Next]_vars
    PROVE  AppearsOwn
<1>1. RunInv /\ RootInv /\ FitInv /\ CommandInv
  BY DEF OwnInv, RunInv, RootInv, FitInv
<1>2. ASSUME DOMAIN disk' = DOMAIN disk PROVE AppearsOwn
  BY <1>2 DEF AppearsOwn, DirExists
<1>3. CASE FileCall
  <2> SUFFICES ASSUME NEW out \in Outputs, ~DirExists(disk, OutputDir(out)), DirExists(disk', OutputDir(out))
               PROVE  OwnEvents(job.mapping, disk'[File(OutputDir(out), "ledger.bin")][2])
    BY DEF AppearsOwn, OwnEvents
  <2> DEFINE s == job.ops
             o == Head(job.ops)
             e == Applied(disk, o)
             dir == OutputDir(out)
  <2>1. Active(disk, job) /\ DiskOK(disk) /\ s # <<>> /\ job # Idle
    BY <1>1, <1>3 DEF CommandInv, FileCall
  <2>2. OpsOK(disk, s) /\ IsSeq(s) /\ AllPaths(disk)
    BY <2>1 DEF Active, OpsOK, DiskOK
  <2>3. o = s[1] /\ 1 \in 1..Len(s)
    BY <2>1, <2>2, SeqFacts
  <2>4. disk' = disk \/ disk' = e
    BY <1>3 DEF FileCall, Fail
  <2>5. disk' = e
    BY <2>4
  <2>6. Harmless(o) /\ Free(disk, o)
    <3>1. o.op = "move" => ~DirExists(disk, o.to.dir)
      BY <2>2, <2>3 DEF OpsOK, Guarded
    <3> QED BY <2>2, <2>3, <3>1 DEF OpsOK, Free
  <2>7. \A p \in DOMAIN e : p \in DOMAIN disk \/ Makes(o, p)
    BY <2>2, <2>6, CallKept
  <2>8. dir[1] = "output"
    BY DEF OutputDir
  <2> HIDE DEF dir
  <2>9. PICK p \in DOMAIN e : p.dir = dir /\ Makes(o, p)
    BY <2>5, <2>7 DEF DirExists, dir
  <2>10. o.op = "move" /\ o.to.dir = dir
    <3> HIDE DEF e, o
    <3> QED BY <2>6, <2>8, <2>9 DEF Makes, Harmless, IsFinal, Sealed
  <2>11. MovesRun(s[1]) /\ FitsOwn(job.mapping, disk, s, 1)
    BY <2>1, <2>3, <2>8, <2>10 DEF MovesRun, OwnInv, JobOwn
  <2>12. PICK events : /\ OwnEvents(job.mapping, events)
                       /\ Brought(disk, s, 1, File(s[1].path.dir, "ledger.bin"), <<"ledger.bin", events>>)
    BY <2>11 DEF FitsOwn
  <2>13. 1..(1 - 1) = {}
    OBVIOUS
  <2> DEFINE from == File(o.path.dir, "ledger.bin")
             to == File(o.to.dir, "ledger.bin")
  <2>14. Has(disk, from) /\ disk[from] = <<"ledger.bin", events>>
    BY <2>3, <2>12, <2>13 DEF Brought
  <2>15. ~DirExists(disk, o.to.dir) /\ o.path.dir # o.to.dir /\ \A q \in DOMAIN disk : IsPath(q)
    BY <2>2, <2>6, <2>10 DEF Harmless, Free, AllPaths
  <2>16. \A name, n : Has(disk, At(o.path.dir, name, n)) =>
                        e[At(o.to.dir, name, n)] = disk[At(o.path.dir, name, n)]
    BY <2>10, <2>15, MovedFacts
  <2> HIDE DEF e, o, s
  <2>17. e[to] = disk[from]
    BY <2>14, <2>16 DEF File
  <2>18. disk'[File(dir, "ledger.bin")] = <<"ledger.bin", events>>
    BY <2>5, <2>10, <2>14, <2>17
  <2>19. disk'[File(dir, "ledger.bin")][2] = events
    BY <2>18
  <2> QED BY <2>12, <2>19 DEF dir
<1>4. CASE Damage
  <2>1. DOMAIN disk' = DOMAIN disk
    BY <1>4 DEF Damage
  <2> QED BY <1>2, <2>1
<1>5. CASE ArchiveChanges \/ UNCHANGED vars
  BY <1>2, <1>5 DEF ArchiveChanges, vars
<1>6. CASE \/ Finish \/ VerifyStage \/ SyncStage \/ SyncDone \/ SkipReused \/ PrepareStage
           \/ PrepareDone \/ InspectStage \/ TransportFails \/ Crash \/ FetchSingles
           \/ OpenStaging \/ FetchPage \/ PublishRevision \/ PreparePartition
           \/ Begin \/ PlanStage \/ ReplayStage
  <2>1. disk' = disk
    BY <1>1, <1>6, StopStep, VerifyStep, SyncStep, DoneStep, SkipStep, PrepareStep, FetchStep,
       OpenStep, PageStep, PublishStep, BeginStep, PlanStep, ReplayStep
  <2> QED BY <1>2, <2>1
<1> QED BY <1>3, <1>4, <1>5, <1>6 DEF Next, Step

\* A run that appears was computed by the mapping of the command that published
\* it (PartitionCacheCatalog::inspect asks for the mapping of the running
\* binary, publish_artifacts moves what this command staged): never by a cache
\* an earlier binary left behind, whatever caches of other mappings are there,
\* stale or half built.
THEOREM RunsOfTheirOwnMapping == Spec => RunsUseTheirOwnMapping
<1>1. OwnInv /\ [Next]_vars => [AppearsOwn]_vars
  BY OwnStep
<1> QED BY <1>1, OwnInit, OwnNext, PTL DEF Spec, RunsUseTheirOwnMapping, AppearsOwn
=============================================================================
