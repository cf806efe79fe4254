------------------------- MODULE WrappingProofs -------------------------
(***************************************************************************)
(* For every number of nodes, goroutines and tokens, with failing          *)
(* repository calls and restarts: a node hands a payload out at most once, *)
(* and two nodes hand out the same one only if one of them minted it.      *)
(* First the inductive invariant, and the steps that neither mark a token  *)
(* nor hand a payload out.                                                 *)
(***************************************************************************)
EXTENDS Wrapping

Mutex ==
  \A a, b \in Threads :
    (/\ NodeOf[a] = NodeOf[b]
     /\ job[a].at \in LockHeld /\ job[b].at \in LockHeld) => a = b

\* Goroutine th is inside Wrap of t.
Building(th, t) ==
  /\ job[th].at \in {"putmeta", "undo", "gclock", "gc", "gcdestroy", "gcdelete"}
  /\ job[th].tok = t

\* A token is private to the request that mints it until it is returned.
Private ==
  /\ \A th \in Threads, t \in Tokens : Building(th, t) =>
       /\ minter[t] # NoNode /\ minter[t] = NodeOf[th] /\ t \notin issued
       /\ \A b \in Threads : Building(b, t) => b = th
  /\ \A t \in Tokens : minter[t] = NoNode => t \notin issued
  /\ \A th \in Threads :
       job[th].at \in {"mark", "fetch", "discard"} => job[th].tok \in issued
  /\ \A n \in Nodes, t \in Tokens : handed[n][t] > 0 => t \in issued

\* Version v of the metadata of t existed, and was unused.
SeenUnused(t, v) ==
  /\ \E w \in DOMAIN meta[t] : v <= w
  /\ v \in DOMAIN meta[t] => ~meta[t][v].used

\* What it takes for node n to go on and mark t: it has not taken t, it has
\* seen an unused version or is the minter.
Claim(n, t, cas) ==
  /\ ~Took(n, t)
  /\ cas = NoCas => minter[t] = n
  /\ cas # NoCas => SeenUnused(t, cas)

Claims ==
  /\ \A n \in Nodes, t \in Tokens :
       (wraps[n][t].there /\ ~wraps[n][t].used) => Claim(n, t, wraps[n][t].cas)
  /\ \A th \in Threads :
       At(th, "mark") => Claim(NodeOf[th], job[th].tok, job[th].cas)

Numbered == \A t \in Tokens : \E n \in Nat : Dense(meta[t], n)

IInv ==
  /\ TypeOK /\ Numbered /\ Mutex /\ Private /\ Claims
  /\ TakenIsMarked /\ OncePerNode /\ MinterIsTheException

\* A thread at rest.
LEMMA IdleOK == Idle \in Job /\ Idle.at = "idle"
<1>1. Idle.tok \in Tokens /\ Idle.gcid \in Tokens
  BY WrappingAssumption DEF Idle
<1> QED BY <1>1 DEF Idle, Job, Labels

\* Nothing is wrapped at first.
LEMMA InitOK == Init => IInv
<1> SUFFICES ASSUME Init PROVE IInv
  OBVIOUS
<1> USE WrappingAssumption, IdleOK DEF Init
<1>1. DOMAIN NoRows = {}
  BY Zenon DEF NoRows
<1>2. \A t \in Tokens : DOMAIN meta[t] = {} /\ Live(meta[t]) = {}
  BY Zenon, <1>1 DEF Live
<1>3. Absent \in LocalEntry /\ ~Absent.there
  BY DEF Absent, LocalEntry
<1>4. TypeOK
  BY <1>2, <1>3 DEF TypeOK
<1>5. Numbered
  BY <1>2 DEF Numbered, Dense
<1>6. Mutex
  BY Zenon DEF Mutex, LockHeld
<1>7. Private
  BY DEF Private, Building
<1>8. \A n \in Nodes, t \in Tokens : ~Took(n, t)
  BY DEF Took, Past
<1>9. Claims /\ TakenIsMarked /\ MinterIsTheException
  BY Zenon, <1>3, <1>8 DEF Claims, At, TakenIsMarked, MinterIsTheException
<1>10. OncePerNode
  BY DEF OncePerNode, Past
<1> QED BY <1>4, <1>5, <1>6, <1>7, <1>9, <1>10 DEF IInv

-----------------------------------------------------------------------------
(* How the rows of a token may change: nothing appears at or below a       *)
(* version that existed, no version becomes used or unused, and an unused  *)
(* live row is never added to a token that was taken.                      *)

Evolves(r, s) ==
  /\ \E n \in Nat : Dense(s, n)
  /\ DOMAIN s \subseteq Nat \ {0}
  /\ \A v \in DOMAIN s : s[v] \in [used : BOOLEAN, destroyed : BOOLEAN]
  /\ \A v \in DOMAIN s : \/ v \in DOMAIN r /\ s[v].used = r[v].used
                         \/ \A w \in DOMAIN r : v > w
  /\ \A w \in DOMAIN r : \E v \in DOMAIN s : w <= v

RowsOK(r) ==
  /\ \E n \in Nat : Dense(r, n)
  /\ DOMAIN r \subseteq Nat \ {0}
  /\ \A v \in DOMAIN r : r[v] \in [used : BOOLEAN, destroyed : BOOLEAN]

\* Rows that stay the same have evolved.
LEMMA SameEvolves ==
  ASSUME NEW r, RowsOK(r) PROVE Evolves(r, r)
BY DEF RowsOK, Evolves

\* A put adds a version and leaves the old ones, or destroys them.
LEMMA PutEvolves ==
  ASSUME NEW r, RowsOK(r), NEW u \in BOOLEAN
  PROVE  LET s == PutAtomic(r, [used |-> u, destroyed |-> FALSE], 1)
         IN  Evolves(r, s) /\ \A v \in Live(s) : s[v].used = u
<1> DEFINE row == [used |-> u, destroyed |-> FALSE]
           s == PutAtomic(r, row, 1)
<1>1. PICK n \in Nat : Dense(r, n)
  BY Zenon DEF RowsOK
<1>2. /\ Dense(s, n + 1) /\ s[n + 1] = row
      /\ \A v \in DOMAIN s \ {n + 1} : v \in DOMAIN r /\ s[v] = r[v]
  BY <1>1, PutAtomicRows
<1>3. Live(s) = {n + 1}
  BY Zenon, <1>1, PutAtomicOne
<1> HIDE DEF s
<1>4. n + 1 \in DOMAIN s /\ DOMAIN s \subseteq Nat \ {0}
  BY <1>2 DEF Dense
<1>5. \A w \in DOMAIN r : w \in Nat /\ w < n + 1
  BY <1>1 DEF Dense
<1>6. \A v \in DOMAIN s : s[v] \in [used : BOOLEAN, destroyed : BOOLEAN]
  <2>1. row \in [used : BOOLEAN, destroyed : BOOLEAN]
    BY Zenon
  <2> HIDE DEF row
  <2> QED BY Zenon, <2>1, <1>2 DEF RowsOK
<1>7. \A w \in DOMAIN r : w <= n + 1
  BY <1>5
<1>8. \E k \in Nat : Dense(s, k)
  BY <1>2
<1>9. \A v \in DOMAIN s : \/ v \in DOMAIN r /\ s[v].used = r[v].used
                          \/ \A w \in DOMAIN r : v > w
  BY Zenon, <1>2, <1>5
<1>10. Evolves(r, s)
  BY Zenon, <1>4, <1>6, <1>7, <1>8, <1>9 DEF Evolves
<1>11. \A v \in Live(s) : s[v].used = u
  BY <1>2, <1>3
<1> QED BY Zenon, <1>10, <1>11 DEF s

\* So does destroying one version.
LEMMA DestroyEvolves ==
  ASSUME NEW r, RowsOK(r), NEW x \in DOMAIN r
  PROVE  Evolves(r, Destroy(r, x)) /\
         \A v \in Live(Destroy(r, x)) : v \in Live(r) /\ Destroy(r, x)[v].used = r[v].used
<1> DEFINE s == Destroy(r, x)
<1>1. PICK n \in Nat : Dense(r, n)
  BY Zenon DEF RowsOK
<1>2. /\ Dense(s, n) /\ DOMAIN s = DOMAIN r
      /\ \A w \in DOMAIN r \ {x} : s[w] = r[w]
      /\ s[x] = [r[x] EXCEPT !.destroyed = TRUE]
  BY Zenon, <1>1, DestroyRows
<1> HIDE DEF s
<1>3. s[x].used = r[x].used /\ s[x].destroyed = TRUE
      /\ s[x] \in [used : BOOLEAN, destroyed : BOOLEAN]
  BY Zenon, <1>2 DEF RowsOK
<1>4. \A w \in DOMAIN r : w <= w
  BY DEF RowsOK
<1>5. Evolves(r, s)
  BY Zenon, <1>2, <1>3, <1>4 DEF Evolves, RowsOK
<1>6. \A v \in Live(s) : v \in Live(r) /\ s[v].used = r[v].used
  BY Zenon, <1>2, <1>3 DEF Live
<1> QED BY Zenon, <1>5, <1>6 DEF s

\* The stored rows of a token are well formed.
LEMMA RowsOfType ==
  ASSUME IInv, NEW t \in Tokens PROVE RowsOK(meta[t])
BY Zenon DEF IInv, TypeOK, Numbered, RowsOK

-----------------------------------------------------------------------------
(* A step that takes nothing: goroutine th moves on without marking, the   *)
(* rows evolve, local entries are refreshed, dropped or marked used.       *)

\* A claim survives what other threads do to the rows.
LEMMA ClaimKept ==
  ASSUME NEW n \in Nodes, NEW t \in Tokens, NEW cas \in Nat \cup {NoCas},
         Claim(n, t, cas), Took(n, t)' => Took(n, t), minter'[t] = minter[t],
         RowsOK(meta[t]), Evolves(meta[t], meta'[t])
  PROVE  Claim(n, t, cas)'
<1>1. CASE cas = NoCas
  BY Zenon, <1>1 DEF Claim
<1>2. CASE cas # NoCas
  <2>1. SeenUnused(t, cas) /\ cas \in Nat
    BY Zenon, <1>2 DEF Claim
  <2>2. \E w \in DOMAIN meta'[t] : cas <= w
    <3>1. PICK w \in DOMAIN meta[t] : cas <= w
      BY Zenon, <2>1 DEF SeenUnused
    <3>2. PICK v \in DOMAIN meta'[t] : w <= v
      BY Zenon, <3>1 DEF Evolves
    <3>3. w \in Nat /\ v \in Nat
      BY Zenon, <3>1, <3>2 DEF RowsOK, Evolves
    <3>4. cas <= v
      BY <3>1, <3>2, <3>3, <2>1
    <3> QED BY Zenon, <3>2, <3>4
  <2>3. cas \in DOMAIN meta'[t] => ~meta'[t][cas].used
    <3> SUFFICES ASSUME cas \in DOMAIN meta'[t] PROVE ~meta'[t][cas].used
      BY Zenon
    <3>1. PICK w \in DOMAIN meta[t] : cas <= w
      BY Zenon, <2>1 DEF SeenUnused
    <3>2. ~(cas > w)
      BY <3>1, <2>1 DEF RowsOK
    <3>3. cas \in DOMAIN meta[t] /\ meta'[t][cas].used = meta[t][cas].used
      BY Zenon, <3>1, <3>2 DEF Evolves
    <3> QED BY Zenon, <3>3, <2>1 DEF SeenUnused
  <2> QED BY Zenon, <2>2, <2>3, <1>2 DEF Claim, SeenUnused
<1> QED BY Zenon, <1>1, <1>2

\* Claims', one instance at a time.
LEMMA ClaimsFromInstances ==
  ASSUME TypeOK',
         \A n \in Nodes, t \in Tokens, c \in Nat \cup {NoCas} :
           (wraps'[n][t].there /\ ~wraps'[n][t].used /\ c = wraps'[n][t].cas)
             => Claim(n, t, c)',
         \A x \in Threads, t \in Tokens, c \in Nat \cup {NoCas} :
           (At(x, "mark")' /\ t = job'[x].tok /\ c = job'[x].cas)
             => Claim(NodeOf[x], t, c)'
  PROVE  Claims'
<1>1. \A n \in Nodes, t \in Tokens : wraps'[n][t].cas \in Nat \cup {NoCas}
  BY DEF TypeOK, LocalEntry
<1>2. \A x \in Threads : job'[x].tok \in Tokens /\ job'[x].cas \in Nat \cup {NoCas}
  BY ZenonT(60) DEF TypeOK, Job
<1>3. (\A n \in Nodes, t \in Tokens :
         (wraps[n][t].there /\ ~wraps[n][t].used) => Claim(n, t, wraps[n][t].cas))'
  <2> SUFFICES ASSUME NEW n \in Nodes, NEW t \in Tokens,
                      (wraps[n][t].there /\ ~wraps[n][t].used)'
               PROVE  Claim(n, t, wraps[n][t].cas)'
    OBVIOUS
  <2>1. PICK c \in Nat \cup {NoCas} : c = wraps'[n][t].cas
    BY Zenon, <1>1
  <2>2. Claim(n, t, c)'
    BY Zenon, <2>1
  <2> QED BY Zenon, <2>1, <2>2 DEF Claim, SeenUnused
<1>4. (\A x \in Threads :
         At(x, "mark") => Claim(NodeOf[x], job[x].tok, job[x].cas))'
  <2> SUFFICES ASSUME NEW x \in Threads, At(x, "mark")'
               PROVE  Claim(NodeOf[x], job[x].tok, job[x].cas)'
    OBVIOUS
  <2>1. PICK t \in Tokens, c \in Nat \cup {NoCas} : t = job'[x].tok /\ c = job'[x].cas
    BY Zenon, <1>2
  <2>2. Claim(NodeOf[x], t, c)'
    BY Zenon, <2>1
  <2> QED BY Zenon, <2>1, <2>2 DEF Claim, SeenUnused
<1> QED BY Zenon, <1>3, <1>4 DEF Claims

\* Where goroutine th may go without marking anything.
Plain(th, j) ==
  /\ j \in Job
  /\ j.at = "mark" => j.tok \in issued /\ Claim(NodeOf[th], j.tok, j.cas)
  /\ j.at \in {"fetch", "discard"} => Past(th, j.tok)
  /\ j.at \in LockHeld => (job[th].at \in LockHeld \/ ~Locked(NodeOf[th]))
  /\ j.at \in {"putmeta", "undo", "gclock", "gc", "gcdestroy", "gcdelete"} =>
       Building(th, j.tok)

\* What a local entry may be replaced by.
Refreshed(n, t, e) ==
  /\ e \in LocalEntry
  /\ (e.there /\ ~e.used) => e = wraps[n][t] \/ Claim(n, t, e.cas)

\* A thread that moves on without marking leaves the claims of all threads
\* alone.
LEMMA PlainJobs ==
  ASSUME TypeOK, Mutex, Private, OncePerNode, NEW th \in Threads, NEW j, Plain(th, j),
         job' = [job EXCEPT ![th] = j], UNCHANGED <<minter, issued, handed>>
  PROVE  /\ job' \in [Threads -> Job]
         /\ Mutex' /\ Private' /\ OncePerNode'
         /\ \A x \in Threads, t \in Tokens : Past(x, t)' => Past(x, t)
         /\ \A n \in Nodes, t \in Tokens : Took(n, t)' => Took(n, t)
         /\ \A x \in Threads : At(x, "mark")' =>
              (x = th /\ job'[x] = j) \/ (job'[x] = job[x] /\ At(x, "mark"))
<1>1. \A x \in Threads : job'[x] = IF x = th THEN j ELSE job[x]
  BY Zenon DEF TypeOK
<1>2. job' \in [Threads -> Job]
  BY Zenon DEF TypeOK, Plain
<1>3. Mutex'
  BY <1>1 DEF Mutex, Plain, Locked
<1>4. \A x \in Threads, t \in Tokens : Past(x, t)' => Past(x, t)
  BY Zenon, <1>1 DEF Past, Plain
<1>5. \A n \in Nodes, t \in Tokens : Took(n, t)' => Took(n, t)
  BY Zenon, <1>4 DEF Took
<1>6. OncePerNode'
  BY Zenon, <1>4 DEF OncePerNode
<1>7. \A x \in Threads, t \in Tokens : Building(x, t)' => Building(x, t)
  BY Zenon, <1>1 DEF Building, Plain
<1>8. \A x \in Threads :
        (job[x].at \in {"mark", "fetch", "discard"} => job[x].tok \in issued)'
  BY <1>1 DEF Private, Plain, Past
<1>9. Private'
  BY Zenon, <1>7, <1>8 DEF Private
<1>10. \A x \in Threads : At(x, "mark")' =>
              (x = th /\ job'[x] = j) \/ (job'[x] = job[x] /\ At(x, "mark"))
  BY Zenon, <1>1 DEF At, Plain
<1> QED BY Zenon, <1>2, <1>3, <1>4, <1>5, <1>6, <1>9, <1>10

\* Rows evolve and, once the token was taken, a live row that is new is a
\* used one.
Settles(t, s) ==
  /\ Evolves(meta[t], s)
  /\ (\E n \in Nodes : Took(n, t)) =>
       \A v \in Live(s) : \/ s[v].used
                          \/ v \in Live(meta[t]) /\ s[v].used = meta[t][v].used

\* Steps that hand nothing out keep the invariant, as long as the rows and
\* the local entries they touch stay within it.
LEMMA QuietStep ==
  ASSUME IInv, NEW th \in Threads, NEW j, Plain(th, j),
         job' = [job EXCEPT ![th] = j], UNCHANGED <<minter, issued, handed>>,
         payload' \in [Tokens -> BOOLEAN], expired' \in [Tokens -> BOOLEAN],
         DOMAIN meta' = Tokens, \A t \in Tokens : Settles(t, meta'[t]),
         wraps' \in [Nodes -> [Tokens -> LocalEntry]],
         \A n \in Nodes, t \in Tokens : Refreshed(n, t, wraps'[n][t])
  PROVE  IInv'
<1>0. TypeOK /\ Mutex /\ Private /\ OncePerNode /\ Claims
      /\ TakenIsMarked /\ MinterIsTheException
  BY DEF IInv
<1>1. /\ job' \in [Threads -> Job]
      /\ Mutex' /\ Private' /\ OncePerNode'
      /\ \A n \in Nodes, t \in Tokens : Took(n, t)' => Took(n, t)
      /\ \A x \in Threads : At(x, "mark")' =>
              (x = th /\ job'[x] = j) \/ (job'[x] = job[x] /\ At(x, "mark"))
  BY Zenon, <1>0, PlainJobs
<1>2. \A t \in Tokens : RowsOK(meta[t]) /\ Evolves(meta[t], meta'[t])
  BY Zenon, RowsOfType DEF Settles
<1>3. Numbered' /\ TypeOK'
  BY Zenon, <1>0, <1>1, <1>2 DEF Numbered, TypeOK, Evolves
<1>4. TakenIsMarked'
  <2> SUFFICES ASSUME NEW t \in Tokens, \E n \in Nodes : Took(n, t)'
               PROVE  \A v \in Live(meta'[t]) : meta'[t][v].used
    BY DEF TakenIsMarked
  <2>1. \E n \in Nodes : Took(n, t)
    BY Zenon, <1>1
  <2>2. \A v \in Live(meta[t]) : meta[t][v].used
    BY Zenon, <2>1, <1>0 DEF TakenIsMarked
  <2> QED BY Zenon, <2>1, <2>2 DEF Settles
<1>5. MinterIsTheException'
  BY ZenonT(60), <1>0, <1>1 DEF MinterIsTheException
<1>6. \A n \in Nodes, t \in Tokens, cas \in Nat \cup {NoCas} :
        Claim(n, t, cas) => Claim(n, t, cas)'
  BY ZenonT(60), <1>1, <1>2, ClaimKept
<1>7. \A n \in Nodes, t \in Tokens, c \in Nat \cup {NoCas} :
        (wraps'[n][t].there /\ ~wraps'[n][t].used /\ c = wraps'[n][t].cas)
          => Claim(n, t, c)'
  BY <1>0, <1>6 DEF Refreshed, Claims
<1>8. \A x \in Threads, t \in Tokens, c \in Nat \cup {NoCas} :
        (At(x, "mark")' /\ t = job'[x].tok /\ c = job'[x].cas) => Claim(NodeOf[x], t, c)'
  <2>1. j.at = "mark" => Claim(NodeOf[th], j.tok, j.cas)
    BY ZenonT(60) DEF Plain
  <2>2. \A x \in Threads : At(x, "mark")' => Claim(NodeOf[x], job'[x].tok, job'[x].cas)
    BY Zenon, <2>1, <1>0, <1>1 DEF Claims, At
  <2>3. \A x \in Threads : NodeOf[x] \in Nodes
    BY Zenon, WrappingAssumption
  <2> QED BY <2>2, <2>3, <1>6
<1>9. Claims'
  BY ZenonT(60), <1>3, <1>7, <1>8, ClaimsFromInstances
<1> QED BY Zenon, <1>1, <1>3, <1>4, <1>5, <1>9 DEF IInv

-----------------------------------------------------------------------------
(* The actions.                                                            *)

\* Rows that do not change settle.
LEMMA MetaSame ==
  ASSUME IInv, meta' = meta
  PROVE  DOMAIN meta' = Tokens /\ \A t \in Tokens : Settles(t, meta'[t])
BY Zenon, RowsOfType, SameEvolves DEF Settles, IInv, TypeOK

\* Rows of one token that settle.
LEMMA MetaOne ==
  ASSUME IInv, NEW t \in Tokens, NEW s, meta' = [meta EXCEPT ![t] = s],
         Settles(t, s)
  PROVE  DOMAIN meta' = Tokens /\ \A x \in Tokens : Settles(x, meta'[x])
<1>1. DOMAIN meta = Tokens
  BY Zenon DEF IInv, TypeOK
<1>2. \A x \in Tokens : meta'[x] = IF x = t THEN s ELSE meta[x]
  BY Zenon, <1>1
<1>3. \A x \in Tokens : Settles(x, meta[x])
  BY Zenon, RowsOfType, SameEvolves DEF Settles
<1> QED BY Zenon, <1>1, <1>2, <1>3

\* The row that marks a token used settles it.
LEMMA MarkSettles ==
  ASSUME IInv, NEW t \in Tokens
  PROVE  Settles(t, PutAtomic(meta[t], [used |-> TRUE, destroyed |-> FALSE], 1))
<1>1. RowsOK(meta[t])
  BY Zenon, RowsOfType
<1> DEFINE s == PutAtomic(meta[t], [used |-> TRUE, destroyed |-> FALSE], 1)
<1>2. Evolves(meta[t], s) /\ \A v \in Live(s) : s[v].used = TRUE
  BY Zenon, <1>1, PutEvolves
<1> QED BY Zenon, <1>2 DEF Settles

\* Local entries that do not change, or one that does.
LEMMA WrapsSame ==
  ASSUME IInv, wraps' = wraps
  PROVE  /\ wraps' \in [Nodes -> [Tokens -> LocalEntry]]
         /\ \A n \in Nodes, t \in Tokens : Refreshed(n, t, wraps'[n][t])
BY DEF IInv, TypeOK, Refreshed

\* Changing one local entry is enough to look at that entry.
LEMMA WrapsOne ==
  ASSUME IInv, NEW m \in Nodes, NEW x \in Tokens, NEW e,
         wraps' = [wraps EXCEPT ![m][x] = e], Refreshed(m, x, e)
  PROVE  /\ wraps' \in [Nodes -> [Tokens -> LocalEntry]]
         /\ \A n \in Nodes, t \in Tokens : Refreshed(n, t, wraps'[n][t])
<1>1. wraps \in [Nodes -> [Tokens -> LocalEntry]] /\ e \in LocalEntry
  BY Zenon DEF IInv, TypeOK, Refreshed
<1>2. \A n \in Nodes, t \in Tokens :
        wraps'[n][t] = IF n = m /\ t = x THEN e ELSE wraps[n][t]
  BY Zenon, <1>1
<1>3. wraps' \in [Nodes -> [Tokens -> LocalEntry]]
  BY Zenon, <1>1
<1>4. \A n \in Nodes, t \in Tokens : Refreshed(n, t, wraps[n][t])
  BY Zenon, <1>1 DEF Refreshed
<1> QED BY Zenon, <1>2, <1>3, <1>4

\* Deleting the wrapped secret keeps its type.
LEMMA PayloadOK ==
  ASSUME IInv, NEW t \in Tokens, NEW w, CubbyDelete(t, w)
  PROVE  payload' \in [Tokens -> BOOLEAN]
<1>1. payload \in [Tokens -> BOOLEAN]
  BY Zenon DEF IInv, TypeOK
<1>2. (payload[t] /\ w = "error") \in BOOLEAN
  BY Zenon
<1> QED BY Zenon, <1>1, <1>2 DEF CubbyDelete

\* The requests of a goroutine are well formed.
LEMMA JobOK ==
  ASSUME IInv, NEW th \in Threads
  PROVE  /\ job[th] \in Job /\ job[th].tok \in Tokens /\ job[th].gcid \in Tokens
         /\ job[th].cas \in Nat \cup {NoCas} /\ NodeOf[th] \in Nodes
         /\ expired \in [Tokens -> BOOLEAN] /\ payload \in [Tokens -> BOOLEAN]
BY Zenon, WrappingAssumption DEF IInv, TypeOK, Job

\* Going idle is always a plain move.
LEMMA IdlePlain == ASSUME NEW th \in Threads PROVE Plain(th, Idle)
BY Zenon, IdleOK DEF Plain, LockHeld

\* Dropping a lock, or going on under it, inside Wrap.
LEMMA GotoPlain ==
  ASSUME IInv, NEW th \in Threads, NEW l \in Labels, NEW j,
         j = [job[th] EXCEPT !.at = l],
         l \notin {"mark", "fetch", "idle"},
         l \in LockHeld => job[th].at \in LockHeld \/ ~Locked(NodeOf[th]),
         l = "discard" => At(th, "fetch"),
         l # "discard" => Building(th, job[th].tok)
  PROVE  Plain(th, j)
<1>1. j \in Job /\ j.at = l /\ j.tok = job[th].tok
  BY Zenon, JobOK DEF Job
<1> QED BY Zenon, <1>1 DEF Plain, Past, At, Building, Labels

\* A token that nobody was given has not been redeemed.
LEMMA NotIssuedNotTaken ==
  ASSUME IInv, NEW t \in Tokens, t \notin issued
  PROVE  \A n \in Nodes : ~Took(n, t)
BY DEF IInv, Private, Took, Past

\* The steps of Wrap after the payload is stored.
LEMMA WrapMetaOK ==
  ASSUME IInv, NEW th \in Threads, NEW w \in {"ok", "error", "lost"}, WrapMeta(th, w)
  PROVE  IInv'
<1> DEFINE t == job[th].tok
           n == NodeOf[th]
           j == [job[th] EXCEPT !.at = IF w = "ok" THEN "gclock" ELSE "undo"]
           e == Entry(FALSE, NoCas)
<1>1. /\ t \in Tokens /\ n \in Nodes /\ expired' = expired /\ payload' = payload
      /\ expired \in [Tokens -> BOOLEAN] /\ payload \in [Tokens -> BOOLEAN]
  BY Zenon, JobOK DEF WrapMeta
<1>2. Building(th, t)
  BY Zenon DEF Building, WrapMeta, At
<1>3. minter[t] = n /\ t \notin issued
  BY <1>1, <1>2 DEF IInv, Private
<1>4. \A m \in Nodes : ~Took(m, t)
  BY Zenon, <1>1, <1>3, NotIssuedNotTaken
<1>5. Plain(th, j)
  BY Zenon, <1>2, GotoPlain DEF Labels, LockHeld
<1>6. job' = [job EXCEPT ![th] = j]
  BY Zenon DEF WrapMeta, Goto, Become
<1>7. Refreshed(n, t, e)
  BY Zenon, <1>1, <1>3, <1>4 DEF Refreshed, Entry, LocalEntry, Claim
<1>8. wraps' = [wraps EXCEPT ![n][t] = e]
  BY Zenon DEF WrapMeta
<1>9. /\ wraps' \in [Nodes -> [Tokens -> LocalEntry]]
      /\ \A m \in Nodes, x \in Tokens : Refreshed(m, x, wraps'[m][x])
  <2> HIDE DEF e, n, t
  <2> QED BY Zenon, <1>1, <1>7, <1>8, WrapsOne
<1>10. DOMAIN meta' = Tokens /\ \A x \in Tokens : Settles(x, meta'[x])
  <2>1. CASE w = "error"
    BY Zenon, <2>1, MetaSame DEF WrapMeta
  <2>2. CASE w # "error"
    <3> DEFINE s == PutAtomic(meta[t], [used |-> FALSE, destroyed |-> FALSE], 1)
    <3>1. Evolves(meta[t], s)
      BY Zenon, <1>1, RowsOfType, PutEvolves
    <3>2. Settles(t, s)
      BY Zenon, <3>1, <1>4 DEF Settles
    <3>3. meta' = [meta EXCEPT ![t] = s]
      BY Zenon, <2>2 DEF WrapMeta, PutMeta
    <3> HIDE DEF s, t
    <3> QED BY Zenon, <1>1, <3>2, <3>3, MetaOne
  <2> QED BY Zenon, <2>1, <2>2
<1>11. UNCHANGED <<minter, issued, handed>>
  BY DEF WrapMeta
<1> HIDE DEF j, e, n, t
<1> QED BY Zenon, <1>1, <1>5, <1>6, <1>9, <1>10, <1>11, QuietStep

\* Wrap undoes its entry after a failed write.
LEMMA WrapUndoOK ==
  ASSUME IInv, NEW th \in Threads, NEW w \in {"ok", "error", "lost"}, WrapUndo(th, w)
  PROVE  IInv'
<1>1. payload' \in [Tokens -> BOOLEAN] /\ expired' \in [Tokens -> BOOLEAN]
  BY Zenon, JobOK, PayloadOK DEF WrapUndo
<1>2. job' = [job EXCEPT ![th] = Idle] /\ UNCHANGED <<meta, wraps, minter, issued, handed>>
  BY Zenon DEF WrapUndo, Become
<1> QED BY Zenon, <1>1, <1>2, IdlePlain, MetaSame, WrapsSame, QuietStep

\* The collector takes the mutex.
LEMMA GcLockOK ==
  ASSUME IInv, NEW th \in Threads, GcLock(th)
  PROVE  IInv'
<1> DEFINE T == {t \in Tokens : /\ wraps[NodeOf[th]][t].there
                                /\ (wraps[NodeOf[th]][t].used \/ expired[t])}
           j == [job[th] EXCEPT !.at = "gc", !.todo = T]
<1>1. job' = [job EXCEPT ![th] = j]
      /\ UNCHANGED <<meta, payload, expired, wraps, minter, issued, handed>>
  BY Zenon DEF GcLock, Become
<1>2. T \subseteq Tokens
  OBVIOUS
<1> HIDE DEF T
<1>3. j \in Job /\ j.at = "gc" /\ j.tok = job[th].tok
  BY Zenon, <1>2, JobOK DEF Job, Labels
<1>4. Plain(th, j)
  BY <1>3 DEF Plain, GcLock, At, Building, LockHeld
<1> HIDE DEF j
<1> QED BY Zenon, <1>1, <1>4, JobOK, MetaSame, WrapsSame, QuietStep

\* The collector drops a local entry.
LEMMA GcDropOK ==
  ASSUME IInv, NEW th \in Threads, NEW t \in Tokens, NEW ok \in BOOLEAN, GcDrop(th, t, ok)
  PROVE  IInv'
<1> DEFINE found == ok /\ HasLatest(meta[t])
           c == IF found THEN Latest(meta[t]) ELSE NoCas
           j == [job[th] EXCEPT !.todo = @ \ {t}, !.gcid = t,
                   !.at = IF found THEN "gcdestroy" ELSE "gcdelete", !.cas = c]
<1>1. job' = [job EXCEPT ![th] = j]
      /\ UNCHANGED <<meta, payload, expired, minter, issued, handed>>
      /\ wraps' = [wraps EXCEPT ![NodeOf[th]][t] = Absent]
  BY Zenon DEF GcDrop, Become
<1>2. c \in Nat \cup {NoCas}
  <2>1. HasLatest(meta[t]) => Latest(meta[t]) \in Nat
    BY Zenon, RowsOfType, LatestIsNewest DEF RowsOK, Live
  <2> QED BY Zenon, <2>1
<1> HIDE DEF c
<1>3. j \in Job /\ j.at \in {"gcdestroy", "gcdelete"} /\ j.tok = job[th].tok
  BY Zenon, <1>2, JobOK DEF Job, Labels
<1>4. Plain(th, j)
  BY <1>3 DEF Plain, GcDrop, At, Building, LockHeld
<1>5. Refreshed(NodeOf[th], t, Absent)
  BY DEF Refreshed, Absent, LocalEntry
<1> HIDE DEF j
<1> QED BY Zenon, <1>1, <1>4, <1>5, JobOK, MetaSame, WrapsOne, QuietStep

\* The collector destroys the stored entry.
LEMMA GcDestroyOK ==
  ASSUME IInv, NEW th \in Threads, NEW w \in {"ok", "error", "lost"}, GcDestroy(th, w)
  PROVE  IInv'
<1> DEFINE t == job[th].gcid
           v == job[th].cas
           j == [job[th] EXCEPT !.at = "gcdelete"]
<1>1. job' = [job EXCEPT ![th] = j] /\ t \in Tokens
      /\ UNCHANGED <<payload, expired, wraps, minter, issued, handed>>
  BY Zenon, JobOK DEF GcDestroy, Goto, Become
<1>2. Plain(th, j)
  BY Zenon, GotoPlain DEF GcDestroy, At, Building, LockHeld, Labels
<1>3. DOMAIN meta' = Tokens /\ \A x \in Tokens : Settles(x, meta'[x])
  <2>1. CASE CanDestroy(meta[t], v) /\ w # "error"
    <3>1. meta' = [meta EXCEPT ![t] = Destroy(meta[t], v)]
      BY Zenon, <2>1 DEF GcDestroy
    <3>2. v \in DOMAIN meta[t]
      BY <2>1 DEF CanDestroy, Live
    <3>3. Settles(t, Destroy(meta[t], v))
      BY ZenonT(60), <1>1, <3>2, RowsOfType, DestroyEvolves DEF Settles
    <3> HIDE DEF t, v
    <3> QED BY Zenon, <1>1, <3>1, <3>3, MetaOne
  <2>2. CASE ~(CanDestroy(meta[t], v) /\ w # "error")
    BY ZenonT(60), <2>2, MetaSame DEF GcDestroy
  <2> QED BY Zenon, <2>1, <2>2
<1> HIDE DEF j
<1> QED BY Zenon, <1>1, <1>2, <1>3, JobOK, WrapsSame, QuietStep

\* The collector deletes the wrapped secret.
LEMMA GcDeleteOK ==
  ASSUME IInv, NEW th \in Threads, NEW w \in {"ok", "error", "lost"}, GcDelete(th, w)
  PROVE  IInv'
<1> DEFINE j == [job[th] EXCEPT !.at = "gc"]
<1>1. job' = [job EXCEPT ![th] = j] /\ UNCHANGED <<meta, expired, wraps, minter, issued, handed>>
  BY Zenon DEF GcDelete, Goto, Become
<1>2. payload' \in [Tokens -> BOOLEAN] /\ expired' \in [Tokens -> BOOLEAN]
  BY Zenon, <1>1, JobOK, PayloadOK DEF GcDelete
<1>3. Plain(th, j)
  BY GotoPlain DEF GcDelete, At, Building, LockHeld, Labels
<1> HIDE DEF j
<1> QED BY Zenon, <1>1, <1>2, <1>3, MetaSame, WrapsSame, QuietStep

\* A redemption fetches the wrapped secret.
LEMMA FetchOK ==
  ASSUME IInv, NEW th \in Threads, NEW ok \in BOOLEAN, Fetch(th, ok)
  PROVE  IInv'
<1> DEFINE j == IF ok /\ payload[job[th].tok] THEN [job[th] EXCEPT !.at = "discard"] ELSE Idle
<1>1. job' = [job EXCEPT ![th] = j]
      /\ UNCHANGED <<meta, payload, expired, wraps, minter, issued, handed>>
  BY Zenon DEF Fetch, Goto, Become
<1>2. Plain(th, [job[th] EXCEPT !.at = "discard"])
  BY GotoPlain DEF Fetch, LockHeld, Labels
<1>3. Plain(th, j)
  BY Zenon, <1>2, IdlePlain
<1> HIDE DEF j
<1> QED BY Zenon, <1>1, <1>3, JobOK, MetaSame, WrapsSame, QuietStep

\* What getMetaLocked returns for an unused entry is a claim.
LEMMA GetMetaClaims ==
  ASSUME IInv, NEW n \in Nodes, NEW t \in Tokens, NEW ok \in BOOLEAN
  PROVE  /\ GetMeta(n, t, ok) \in LocalEntry
         /\ (GetMeta(n, t, ok).there /\ ~GetMeta(n, t, ok).used) =>
              Claim(n, t, GetMeta(n, t, ok).cas)
<1>1. CASE ok /\ HasLatest(meta[t])
  <2> DEFINE v == Latest(meta[t])
             e == Entry(meta[t][v].used, v)
  <2>1. RowsOK(meta[t])
    BY ZenonT(60), RowsOfType
  <2>2. v \in Live(meta[t])
    BY ZenonT(60), <1>1, <2>1, LatestIsNewest DEF RowsOK
  <2>3. v \in DOMAIN meta[t] /\ v \in Nat \ {0} /\ meta[t][v].used \in BOOLEAN
    BY ZenonT(60), <2>1, <2>2 DEF RowsOK, Live
  <2>4. GetMeta(n, t, ok) = e
    BY ZenonT(60), <1>1 DEF GetMeta
  <2> HIDE DEF v
  <2>5. e \in LocalEntry /\ e.used = meta[t][v].used /\ e.cas = v
    BY Zenon, <2>3 DEF Entry, LocalEntry
  <2>6. ASSUME ~meta[t][v].used PROVE Claim(n, t, v)
    <3>1. ~Took(n, t)
      BY Zenon, <2>2, <2>6 DEF IInv, TakenIsMarked
    <3>2. SeenUnused(t, v)
      BY <2>3, <2>6 DEF SeenUnused
    <3>3. v # NoCas
      BY SMTT(30), <2>3 DEF NoCas
    <3> QED BY Zenon, <3>1, <3>2, <3>3 DEF Claim
  <2> HIDE DEF e
  <2> QED BY <2>4, <2>5, <2>6
<1>2. CASE ~(ok /\ HasLatest(meta[t]))
  <2>1. GetMeta(n, t, ok) = wraps[n][t]
    BY Zenon, <1>2 DEF GetMeta
  <2> QED BY <2>1 DEF IInv, TypeOK, Claims
<1> QED BY Zenon, <1>1, <1>2

\* An entry that is read from the store is kept on the node.
LEMMA RememberOK ==
  ASSUME IInv, NEW n \in Nodes, NEW t \in Tokens, NEW ok \in BOOLEAN, Remember(n, t, ok)
  PROVE  /\ wraps' \in [Nodes -> [Tokens -> LocalEntry]]
         /\ \A m \in Nodes, x \in Tokens : Refreshed(m, x, wraps'[m][x])
<1>1. Refreshed(n, t, GetMeta(n, t, ok))
  BY Zenon, GetMetaClaims DEF Refreshed
<1>2. CASE ok /\ HasLatest(meta[t])
  BY Zenon, <1>1, <1>2, WrapsOne DEF Remember
<1>3. CASE ~(ok /\ HasLatest(meta[t]))
  BY Zenon, <1>3, WrapsSame DEF Remember
<1> QED BY Zenon, <1>2, <1>3

\* An idle goroutine that stays idle.
LEMMA StayIdle ==
  ASSUME IInv, NEW th \in Threads, At(th, "idle"), job' = job
  PROVE  Plain(th, job[th]) /\ job' = [job EXCEPT ![th] = job[th]]
<1>1. job \in [Threads -> Job]
  BY Zenon DEF IInv, TypeOK
<1> QED BY Zenon, <1>1 DEF Plain, At, LockHeld

\* A lookup of a token.
LEMMA LookupOK ==
  ASSUME IInv, NEW th \in Threads, NEW t \in Tokens, NEW ok \in BOOLEAN, Lookup(th, t, ok)
  PROVE  IInv'
<1>1. At(th, "idle") /\ UNCHANGED <<meta, payload, expired, job, minter, issued, handed>>
  BY Zenon DEF Lookup
<1>2. /\ wraps' \in [Nodes -> [Tokens -> LocalEntry]]
      /\ \A m \in Nodes, x \in Tokens : Refreshed(m, x, wraps'[m][x])
  BY Zenon, JobOK, RememberOK DEF Lookup
<1>3. Plain(th, job[th]) /\ job' = [job EXCEPT ![th] = job[th]]
  BY Zenon, <1>1, StayIdle
<1> QED BY Zenon, <1>1, <1>2, <1>3, JobOK, MetaSame, QuietStep

\* A redemption begins: the entry is looked up and marked on the node.
LEMMA UnwrapOK ==
  ASSUME IInv, NEW th \in Threads, NEW t \in Tokens, NEW ok \in BOOLEAN, Unwrap(th, t, ok)
  PROVE  IInv'
<1> DEFINE m == GetMeta(NodeOf[th], t, ok)
           j == [Idle EXCEPT !.at = "mark", !.tok = t, !.cas = m.cas]
<1>1. /\ At(th, "idle") /\ t \in issued /\ ~Locked(NodeOf[th])
      /\ UNCHANGED <<meta, payload, expired, minter, issued, handed>>
  BY Zenon DEF Unwrap
<1>2. /\ wraps' \in [Nodes -> [Tokens -> LocalEntry]]
      /\ \A n \in Nodes, x \in Tokens : Refreshed(n, x, wraps'[n][x])
  BY ZenonT(60), JobOK, RememberOK DEF Unwrap
<1>3. CASE m.there /\ ~m.used /\ ~expired[t]
  <2>1. job' = [job EXCEPT ![th] = j]
    BY Zenon, <1>3 DEF Unwrap, Become
  <2>2. Claim(NodeOf[th], t, m.cas) /\ m \in LocalEntry
    BY <1>3, JobOK, GetMetaClaims
  <2>3. m.cas \in Nat \cup {NoCas}
    BY <2>2 DEF LocalEntry
  <2> HIDE DEF m
  <2>4. j \in Job /\ j.at = "mark" /\ j.tok = t /\ j.cas = m.cas
    BY Zenon, <2>3, IdleOK DEF Job, Labels
  <2>5. Plain(th, j)
    BY Zenon, <2>2, <2>4, <1>1 DEF Plain, LockHeld
  <2> HIDE DEF j
  <2> QED BY Zenon, <1>1, <1>2, <2>1, <2>5, JobOK, MetaSame, QuietStep
<1>4. CASE ~(m.there /\ ~m.used /\ ~expired[t])
  <2>1. job' = job
    BY Zenon, <1>4 DEF Unwrap
  <2>2. Plain(th, job[th]) /\ job' = [job EXCEPT ![th] = job[th]]
    BY Zenon, <1>1, <2>1, StayIdle
  <2> QED BY Zenon, <1>1, <1>2, <2>2, JobOK, MetaSame, QuietStep
<1> QED BY Zenon, <1>3, <1>4

\* A Mark that fails, or whose answer is lost, takes nothing.
LEMMA MarkFails ==
  ASSUME IInv, NEW th \in Threads, NEW w \in {"ok", "error", "lost"}, Mark(th, w),
         ~(w = "ok" /\ CasHolds(meta[job[th].tok], job[th].cas))
  PROVE  IInv'
<1> DEFINE t == job[th].tok
           e == Entry(TRUE, job[th].cas)
<1>1. t \in Tokens /\ NodeOf[th] \in Nodes
      /\ UNCHANGED <<payload, expired, minter, issued, handed>>
  BY JobOK DEF Mark
<1>2. job' = [job EXCEPT ![th] = Idle]
  BY DEF Mark, Become
<1>3. Refreshed(NodeOf[th], t, e)
  BY JobOK DEF Refreshed, Entry, LocalEntry
<1>4. wraps' = [wraps EXCEPT ![NodeOf[th]][t] = e]
  BY ZenonT(60) DEF Mark
<1>5. DOMAIN meta' = Tokens /\ \A x \in Tokens : Settles(x, meta'[x])
  <2>1. CASE w # "error" /\ CasHolds(meta[t], job[th].cas)
    <3> DEFINE s == PutAtomic(meta[t], [used |-> TRUE, destroyed |-> FALSE], 1)
    <3>1. meta' = [meta EXCEPT ![t] = s]
      BY <2>1 DEF Mark, PutMeta
    <3>2. Settles(t, s)
      BY <1>1, MarkSettles
    <3> HIDE DEF s, t
    <3> QED BY Zenon, <1>1, <3>1, <3>2, MetaOne
  <2>2. CASE ~(w # "error" /\ CasHolds(meta[t], job[th].cas))
    BY Zenon, <2>2, MetaSame DEF Mark
  <2> QED BY ZenonT(60), <2>1, <2>2
<1> HIDE DEF e, t
<1>6. /\ wraps' \in [Nodes -> [Tokens -> LocalEntry]]
      /\ \A n \in Nodes, x \in Tokens : Refreshed(n, x, wraps'[n][x])
  BY Zenon, <1>1, <1>3, <1>4, WrapsOne
<1> QED BY Zenon, <1>1, <1>2, <1>5, <1>6, IdlePlain, JobOK, QuietStep

\* A Mark that succeeds takes the token for its node.  With a CAS version
\* the live row was unused, so nobody had taken it; without one the node is
\* the minter.
LEMMA MarkSucceeds ==
  ASSUME IInv, NEW th \in Threads, Mark(th, "ok"),
         CasHolds(meta[job[th].tok], job[th].cas)
  PROVE  IInv'
<1> DEFINE t == job[th].tok
           n == NodeOf[th]
           cas == job[th].cas
           j == [job[th] EXCEPT !.at = "fetch"]
           s == PutAtomic(meta[t], [used |-> TRUE, destroyed |-> FALSE], 1)
           e == Entry(TRUE, cas)
<1>1. /\ t \in Tokens /\ n \in Nodes /\ cas \in Nat \cup {NoCas}
      /\ At(th, "mark") /\ UNCHANGED <<payload, expired, minter, issued, handed>>
  BY JobOK DEF Mark
<1>2. j \in Job /\ j.at = "fetch" /\ j.tok = t
  BY JobOK DEF Job, Labels
<1>3. /\ job' = [job EXCEPT ![th] = j]
      /\ meta' = [meta EXCEPT ![t] = s]
      /\ wraps' = [wraps EXCEPT ![n][t] = e]
  BY ZenonT(60) DEF Mark, Goto, Become, PutMeta
<1>4. Settles(t, s) /\ RowsOK(meta[t])
  BY ZenonT(60), <1>1, MarkSettles, RowsOfType
<1>5. \A v \in Live(s) : s[v].used = TRUE
  BY Zenon, <1>4, PutEvolves
<1>6. e \in LocalEntry /\ e.used
  BY <1>1 DEF Entry, LocalEntry
<1>7. Claim(n, t, cas)
  BY <1>1 DEF IInv, Claims
<1> HIDE DEF t, n, cas, j, s, e
<1>8. TypeOK /\ Numbered /\ Mutex /\ Private /\ Claims
      /\ TakenIsMarked /\ OncePerNode /\ MinterIsTheException
  BY DEF IInv
<1>9. \A x \in Threads : job'[x] = IF x = th THEN j ELSE job[x]
  BY <1>3, <1>8 DEF TypeOK
<1>10. DOMAIN meta' = Tokens /\ \A x \in Tokens : Settles(x, meta'[x])
  BY Zenon, <1>1, <1>3, <1>4, MetaOne
<1>11. \A x \in Tokens : meta'[x] = IF x = t THEN s ELSE meta[x]
  BY <1>3, <1>8 DEF TypeOK
<1>12. \A m \in Nodes, x \in Tokens :
         wraps'[m][x] = IF m = n /\ x = t THEN e ELSE wraps[m][x]
  BY <1>3, <1>8 DEF TypeOK
<1>13. \A x \in Threads, y \in Tokens :
         Past(x, y)' <=> Past(x, y) \/ (x = th /\ y = t)
  BY <1>1, <1>2, <1>9 DEF Past, At
<1>14. \A m \in Nodes, y \in Tokens : Took(m, y)' <=> Took(m, y) \/ (m = n /\ y = t)
  BY ZenonT(60), <1>1, <1>13 DEF Took, n
<1>15. TypeOK'
  <2>1. job' \in [Threads -> Job] /\ wraps' \in [Nodes -> [Tokens -> LocalEntry]]
    BY ZenonT(60), <1>2, <1>3, <1>6, <1>8 DEF TypeOK
  <2> QED BY ZenonT(60), <2>1, <1>1, <1>8, <1>10 DEF TypeOK, Settles, Evolves
<1>16. Numbered'
  BY <1>10 DEF Numbered, Settles, Evolves
<1>17. Mutex'
  BY <1>2, <1>8, <1>9 DEF Mutex, LockHeld
<1>18. Private'
  <2>1. \A x \in Threads, y \in Tokens : Building(x, y)' => Building(x, y)
    BY ZenonT(60), <1>2, <1>9 DEF Building
  <2>2. t \in issued
    BY ZenonT(60), <1>1, <1>8 DEF Private, At, t
  <2>3. \A x \in Threads :
          (job[x].at \in {"mark", "fetch", "discard"} => job[x].tok \in issued)'
    BY ZenonT(60), <2>2, <1>1, <1>2, <1>8, <1>9 DEF Private
  <2> QED BY ZenonT(60), <2>1, <2>3, <1>1, <1>8 DEF Private
<1>19. OncePerNode'
  <2>1. handed[n][t] = 0 /\ \A x \in Threads : NodeOf[x] = n => ~Past(x, t)
    BY SMTT(30), <1>1, <1>7, <1>8 DEF Claim, Took, TypeOK
  <2>2. NodeOf[th] = n
    BY ZenonT(60) DEF n
  <2> QED BY SMTT(30), <2>1, <2>2, <1>1, <1>8, <1>13 DEF OncePerNode
<1>20. TakenIsMarked'
  <2> SUFFICES ASSUME NEW x \in Tokens, \E m \in Nodes : Took(m, x)'
               PROVE  \A v \in Live(meta'[x]) : meta'[x][v].used
    BY ZenonT(60) DEF TakenIsMarked
  <2>1. CASE x = t
    BY ZenonT(60), <2>1, <1>5, <1>11
  <2>2. CASE x # t
    <3>1. meta'[x] = meta[x] /\ \E m \in Nodes : Took(m, x)
      BY ZenonT(60), <2>2, <1>11, <1>14
    <3> QED BY ZenonT(60), <3>1, <1>8 DEF TakenIsMarked
  <2> QED BY ZenonT(60), <2>1, <2>2
<1>21. MinterIsTheException'
  <2>1. ASSUME NEW m \in Nodes, m # n, Took(m, t) PROVE minter[t] = n
    <3>1. CASE cas = NoCas
      BY ZenonT(60), <3>1, <1>7 DEF Claim
    <3>2. CASE cas # NoCas
      <4>1. HasLatest(meta[t]) /\ Latest(meta[t]) = cas
        BY ZenonT(60), <3>2 DEF CasHolds, t, cas
      <4>2. cas \in Live(meta[t])
        BY ZenonT(60), <4>1, <1>4, LatestIsNewest DEF RowsOK
      <4>3. meta[t][cas].used
        BY ZenonT(60), <4>2, <2>1, <1>1, <1>8 DEF TakenIsMarked
      <4>4. ~meta[t][cas].used
        BY ZenonT(60), <4>2, <3>2, <1>7 DEF Claim, SeenUnused, Live
      <4> QED BY ZenonT(60), <4>3, <4>4
    <3> QED BY ZenonT(60), <3>1, <3>2
  <2> QED BY ZenonT(60), <2>1, <1>1, <1>8, <1>14 DEF MinterIsTheException
<1>22. \A m \in Nodes, x \in Tokens, c \in Nat \cup {NoCas} :
         (Claim(m, x, c) /\ ~(m = n /\ x = t)) => Claim(m, x, c)'
  BY ZenonT(60), <1>1, <1>10, <1>14, ClaimKept, RowsOfType DEF Settles
<1>23. \A m \in Nodes, x \in Tokens, c \in Nat \cup {NoCas} :
         (wraps'[m][x].there /\ ~wraps'[m][x].used /\ c = wraps'[m][x].cas)
            => Claim(m, x, c)'
  BY ZenonT(60), <1>6, <1>8, <1>12, <1>22 DEF Claims
<1>24. \A x \in Threads, y \in Tokens, c \in Nat \cup {NoCas} :
         (At(x, "mark")' /\ y = job'[x].tok /\ c = job'[x].cas) => Claim(NodeOf[x], y, c)'
  <2> SUFFICES ASSUME NEW x \in Threads, At(x, "mark")'
               PROVE  \A y \in Tokens, c \in Nat \cup {NoCas} :
                 (y = job'[x].tok /\ c = job'[x].cas) => Claim(NodeOf[x], y, c)'
    BY SMTT(30)
  <2>1. x # th /\ job'[x] = job[x] /\ At(x, "mark") /\ NodeOf[x] \in Nodes
    BY ZenonT(60), <1>2, <1>9, WrappingAssumption DEF At
  <2>2. NodeOf[x] # n
    BY ZenonT(60), <2>1, <1>1, <1>8 DEF Mutex, LockHeld, At, n
  <2> QED BY Zenon, <2>1, <2>2, <1>8, <1>22 DEF Claims
<1>25. Claims'
  BY ZenonT(60), <1>15, <1>23, <1>24, ClaimsFromInstances
<1> QED BY <1>15, <1>16, <1>17, <1>18, <1>19, <1>20, <1>21, <1>25 DEF IInv

\* Handing the payload out turns "taking" into "taken".
LEMMA DiscardOK ==
  ASSUME IInv, NEW th \in Threads, NEW w \in {"ok", "error", "lost"}, Discard(th, w)
  PROVE  IInv'
<1> DEFINE t == job[th].tok
           n == NodeOf[th]
<1>1. /\ t \in Tokens /\ n \in Nodes /\ Past(th, t)
      /\ UNCHANGED <<meta, expired, wraps, minter, issued>>
      /\ job' = [job EXCEPT ![th] = Idle]
      /\ handed' = [handed EXCEPT ![n][t] = @ + 1]
  BY ZenonT(60), JobOK DEF Discard, Past, At, Become
<1>2. payload' \in [Tokens -> BOOLEAN]
  BY JobOK, PayloadOK DEF Discard
<1>3. TypeOK /\ Numbered /\ Mutex /\ Private /\ Claims
      /\ TakenIsMarked /\ OncePerNode /\ MinterIsTheException
  BY ZenonT(60) DEF IInv
<1>4. t \in issued
  BY ZenonT(60), <1>1, <1>3 DEF Private, Past
<1>5. handed[n][t] = 0 /\ \A x \in Threads : (NodeOf[x] = n /\ Past(x, t)) => x = th
  BY <1>1, <1>3 DEF OncePerNode
<1>6. n = NodeOf[th]
  BY SMTT(30)
<1> HIDE DEF t, n
<1>7. \A x \in Threads : job'[x] = IF x = th THEN Idle ELSE job[x]
  BY ZenonT(60), <1>1, <1>3 DEF TypeOK
<1>8. \A m \in Nodes, y \in Tokens :
        handed'[m][y] = IF m = n /\ y = t THEN 1 ELSE handed[m][y]
  BY SMTT(30), <1>1, <1>3, <1>5 DEF TypeOK
<1>9. \A x \in Threads, y \in Tokens : Past(x, y)' => Past(x, y) /\ x # th
  BY <1>7, IdleOK DEF Past
<1>10. \A m \in Nodes, y \in Tokens : Took(m, y)' => Took(m, y)
  <2> SUFFICES ASSUME NEW m \in Nodes, NEW y \in Tokens, Took(m, y)' PROVE Took(m, y)
    BY SMTT(30)
  <2>1. CASE m = n /\ y = t
    BY ZenonT(60), <2>1, <1>1, <1>6 DEF Took
  <2>2. CASE ~(m = n /\ y = t)
    BY ZenonT(60), <2>2, <1>8, <1>9 DEF Took
  <2> QED BY <2>1, <2>2
<1>11. TypeOK'
  <2>1. handed' \in [Nodes -> [Tokens -> Nat]]
    BY SMTT(30), <1>1, <1>3 DEF TypeOK
  <2>2. job' \in [Threads -> Job]
    BY ZenonT(60), <1>1, <1>3, IdleOK DEF TypeOK
  <2> QED BY ZenonT(60), <2>1, <2>2, <1>1, <1>2, <1>3 DEF TypeOK
<1>12. Mutex' /\ Numbered'
  BY ZenonT(60), <1>1, <1>3, <1>7, IdleOK DEF Mutex, LockHeld, Numbered
<1>13. Private'
  <2>1. \A x \in Threads, y \in Tokens : Building(x, y)' => Building(x, y)
    BY ZenonT(60), <1>7, IdleOK DEF Building
  <2> QED BY SMTT(30), <2>1, <1>1, <1>3, <1>4, <1>7, <1>8, IdleOK DEF Private
<1>14. OncePerNode'
  BY SMTT(30), <1>3, <1>5, <1>8, <1>9 DEF OncePerNode
<1>15. TakenIsMarked' /\ MinterIsTheException'
  BY ZenonT(60), <1>1, <1>3, <1>10 DEF TakenIsMarked, MinterIsTheException
<1>16. \A m \in Nodes, x \in Tokens, c \in Nat \cup {NoCas} :
         Claim(m, x, c) => Claim(m, x, c)'
  BY ZenonT(60), <1>1, <1>10, ClaimKept, RowsOfType, SameEvolves
<1>17. \A m \in Nodes, x \in Tokens, c \in Nat \cup {NoCas} :
         (wraps'[m][x].there /\ ~wraps'[m][x].used /\ c = wraps'[m][x].cas)
            => Claim(m, x, c)'
  BY ZenonT(60), <1>1, <1>3, <1>16 DEF Claims
<1>18. \A x \in Threads, y \in Tokens, c \in Nat \cup {NoCas} :
         (At(x, "mark")' /\ y = job'[x].tok /\ c = job'[x].cas) => Claim(NodeOf[x], y, c)'
  <2>1. \A x \in Threads : At(x, "mark")' => At(x, "mark") /\ job'[x] = job[x]
    BY ZenonT(60), <1>7, IdleOK DEF At
  <2> QED BY ZenonT(60), <2>1, <1>3, <1>16, WrappingAssumption DEF Claims
<1>19. Claims'
  BY ZenonT(60), <1>11, <1>17, <1>18, ClaimsFromInstances
<1> QED BY ZenonT(60), <1>11, <1>12, <1>13, <1>14, <1>15, <1>19 DEF IInv

\* Steps that leave the metadata and who took what alone.
LEMMA HistoryStep ==
  ASSUME IInv, TypeOK', Mutex', Private', UNCHANGED <<meta, handed>>,
         \A x \in Threads, y \in Tokens : Past(x, y)' => Past(x, y),
         \A x \in Threads : At(x, "mark")' => At(x, "mark") /\ job'[x] = job[x],
         \A y \in Tokens : minter'[y] = minter[y]
            \/ (minter[y] = NoNode /\ \A n \in Nodes : ~Took(n, y)),
         \A n \in Nodes, y \in Tokens : wraps'[n][y] = wraps[n][y] \/ ~wraps'[n][y].there
  PROVE  IInv'
<1>1. Numbered /\ Claims /\ TakenIsMarked /\ OncePerNode /\ MinterIsTheException /\ TypeOK
  BY DEF IInv
<1>2. \A m \in Nodes, y \in Tokens : Took(m, y)' => Took(m, y)
  BY DEF Took
<1>3. Numbered' /\ TakenIsMarked' /\ OncePerNode'
  BY ZenonT(60), <1>1, <1>2 DEF Numbered, TakenIsMarked, OncePerNode
<1>4. MinterIsTheException'
  BY ZenonT(60), <1>1, <1>2 DEF MinterIsTheException
<1>5. \A m \in Nodes, x \in Tokens, c \in Nat \cup {NoCas} :
        Claim(m, x, c) => Claim(m, x, c)'
  <2> SUFFICES ASSUME NEW m \in Nodes, NEW x \in Tokens, NEW c \in Nat \cup {NoCas},
                      Claim(m, x, c)
               PROVE  Claim(m, x, c)'
    BY SMTT(30)
  <2>1. CASE minter'[x] = minter[x]
    BY ZenonT(60), <2>1, <1>2, ClaimKept, RowsOfType, SameEvolves
  <2>2. CASE minter[x] = NoNode
    <3>1. c # NoCas
      BY ZenonT(60), <2>2, WrappingAssumption DEF Claim
    <3> QED BY ZenonT(60), <3>1, <1>2 DEF Claim, SeenUnused
  <2> QED BY ZenonT(60), <2>1, <2>2
<1>6. \A m \in Nodes, x \in Tokens, c \in Nat \cup {NoCas} :
        (wraps'[m][x].there /\ ~wraps'[m][x].used /\ c = wraps'[m][x].cas)
           => Claim(m, x, c)'
  BY ZenonT(60), <1>1, <1>5 DEF Claims
<1>7. \A x \in Threads, y \in Tokens, c \in Nat \cup {NoCas} :
        (At(x, "mark")' /\ y = job'[x].tok /\ c = job'[x].cas) => Claim(NodeOf[x], y, c)'
  BY ZenonT(60), <1>1, <1>5, WrappingAssumption DEF Claims
<1>8. Claims'
  BY ZenonT(60), <1>6, <1>7, ClaimsFromInstances
<1> QED BY <1>3, <1>4, <1>8 DEF IInv

\* A step that touches neither the entries nor the requests nor what was
\* handed out keeps the invariant.
LEMMA SameHistory ==
  ASSUME IInv, TypeOK', Mutex', Private',
         UNCHANGED <<meta, wraps, job, minter, issued, handed>>
  PROVE  IInv'
<1>1. \A x \in Threads, y \in Tokens : Past(x, y)' => Past(x, y)
  BY DEF Past
<1>2. \A x \in Threads : At(x, "mark")' => At(x, "mark") /\ job'[x] = job[x]
  BY DEF At
<1>3. \A y \in Tokens : minter'[y] = minter[y]
            \/ (minter[y] = NoNode /\ \A m \in Nodes : ~Took(m, y))
  OBVIOUS
<1>4. \A m \in Nodes, y \in Tokens : wraps'[m][y] = wraps[m][y] \/ ~wraps'[m][y].there
  OBVIOUS
<1>5. UNCHANGED <<meta, handed>>
  BY SMTT(30)
<1> QED BY ZenonT(60), <1>1, <1>2, <1>3, <1>4, <1>5, HistoryStep

\* Wrap writes the entry of a new token (Wrap).
LEMMA WrapStoreOK ==
  ASSUME IInv, NEW th \in Threads, NEW t \in Tokens,
         NEW w \in {"ok", "error", "lost"}, WrapStore(th, t, w)
  PROVE  IInv'
<1> DEFINE n == NodeOf[th]
           j == IF w = "ok" THEN [Idle EXCEPT !.at = "putmeta", !.tok = t] ELSE job[th]
<1>1. TypeOK /\ Mutex /\ Private /\ n \in Nodes /\ n # NoNode
  BY WrappingAssumption DEF IInv
<1>2. /\ At(th, "idle") /\ minter[t] = NoNode
      /\ minter' = [minter EXCEPT ![t] = n]
      /\ payload' = [payload EXCEPT ![t] = w # "error"]
      /\ UNCHANGED <<meta, expired, wraps, issued, handed>>
  BY DEF WrapStore
<1>3. job' = [job EXCEPT ![th] = j]
  BY <1>1 DEF WrapStore, Become, TypeOK
<1>4. /\ j \in Job /\ j.at \in {"idle", "putmeta"} /\ (j.at = "putmeta" => j.tok = t)
  BY ZenonT(60), <1>1, <1>2, IdleOK DEF Job, Labels, TypeOK, At
<1> HIDE DEF j, n
<1>5. \A x \in Threads : job'[x] = IF x = th THEN j ELSE job[x]
  BY <1>1, <1>3 DEF TypeOK
<1>6. \A y \in Tokens : minter'[y] = IF y = t THEN n ELSE minter[y]
  BY <1>1, <1>2 DEF TypeOK
<1>7. TypeOK'
  <2>1. (w # "error") \in BOOLEAN
    BY SMTT(30)
  <2>2. payload' \in [Tokens -> BOOLEAN] /\ minter' \in [Tokens -> Nodes \cup {NoNode}]
    BY Zenon, <2>1, <1>1, <1>2 DEF TypeOK
  <2>3. job' \in [Threads -> Job]
    BY ZenonT(60), <1>1, <1>3, <1>4 DEF TypeOK
  <2> QED BY Zenon, <2>2, <2>3, <1>1, <1>2 DEF TypeOK
<1>8. Mutex'
  BY ZenonT(60), <1>1, <1>4, <1>5 DEF Mutex, LockHeld
<1>9. t \notin issued /\ \A x \in Threads : ~Building(x, t)
  BY ZenonT(60), <1>1, <1>2 DEF Private
<1>10. Private'
  <2>1. \A x \in Threads, y \in Tokens :
          Building(x, y)' => Building(x, y) \/ (x = th /\ y = t)
    BY ZenonT(60), <1>4, <1>5 DEF Building
  <2>2. ASSUME NEW x \in Threads, NEW y \in Tokens, Building(x, y)'
        PROVE  /\ minter'[y] # NoNode /\ minter'[y] = NodeOf[x] /\ y \notin issued
               /\ \A b \in Threads : Building(b, y)' => b = x
    <3>1. CASE y = t
      BY ZenonT(60), <3>1, <2>1, <2>2, <1>1, <1>6, <1>9 DEF n
    <3>2. CASE y # t
      BY ZenonT(60), <3>2, <2>1, <2>2, <1>1, <1>6 DEF Private
    <3> QED BY ZenonT(60), <3>1, <3>2
  <2>3. \A y \in Tokens : minter'[y] = NoNode => y \notin issued
    BY ZenonT(60), <1>1, <1>6 DEF Private
  <2>4. \A x \in Threads :
          (job[x].at \in {"mark", "fetch", "discard"} => job[x].tok \in issued)'
    BY ZenonT(60), <1>1, <1>2, <1>4, <1>5 DEF Private
  <2> QED BY ZenonT(60), <2>2, <2>3, <2>4, <1>1, <1>2 DEF Private
<1>11. \A x \in Threads, y \in Tokens : Past(x, y)' => Past(x, y)
  BY ZenonT(60), <1>4, <1>5 DEF Past
<1>12. \A x \in Threads : At(x, "mark")' => At(x, "mark") /\ job'[x] = job[x]
  BY <1>4, <1>5 DEF At
<1>13. \A m \in Nodes : ~Took(m, t)
  BY ZenonT(60), <1>9, NotIssuedNotTaken
<1>14. \A y \in Tokens : minter'[y] = minter[y]
            \/ (minter[y] = NoNode /\ \A m \in Nodes : ~Took(m, y))
  BY ZenonT(60), <1>2, <1>6, <1>13
<1>15. \A m \in Nodes, y \in Tokens : wraps'[m][y] = wraps[m][y] \/ ~wraps'[m][y].there
  BY <1>2
<1>16. UNCHANGED <<meta, handed>>
  BY ZenonT(60), <1>2
<1> QED BY ZenonT(60), <1>7, <1>8, <1>10, <1>11, <1>12, <1>14, <1>15, <1>16, HistoryStep

\* Wrap hands the new token out.
LEMMA WrapReturnOK ==
  ASSUME IInv, NEW th \in Threads, WrapReturn(th)
  PROVE  IInv'
<1>1. TypeOK /\ Mutex /\ Private
  BY ZenonT(60) DEF IInv
<1> DEFINE t == job[th].tok
<1>2. /\ t \in Tokens /\ issued' = issued \cup {t} /\ Building(th, t)
      /\ job' = [job EXCEPT ![th] = Idle]
      /\ UNCHANGED <<meta, payload, expired, wraps, minter, handed>>
  BY ZenonT(60), JobOK DEF WrapReturn, Become, Building, At
<1> HIDE DEF t
<1>3. \A x \in Threads : job'[x] = IF x = th THEN Idle ELSE job[x]
  BY ZenonT(60), <1>1, <1>2 DEF TypeOK
<1>4. TypeOK' /\ Mutex'
  BY ZenonT(60), <1>1, <1>2, <1>3, IdleOK DEF TypeOK, Mutex, LockHeld
<1>5. Private'
  <2>1. \A x \in Threads, y \in Tokens : Building(x, y)' => Building(x, y) /\ x # th
    BY <1>3, IdleOK DEF Building
  <2>2. \A x \in Threads, y \in Tokens : Building(x, y)' => y # t
    BY <2>1, <1>1, <1>2 DEF Private
  <2>3. minter[t] # NoNode
    BY ZenonT(60), <1>1, <1>2 DEF Private
  <2>4. \A x \in Threads :
          (job[x].at \in {"mark", "fetch", "discard"} => job[x].tok \in issued)'
    BY SMTT(30), <1>1, <1>2, <1>3, IdleOK DEF Private
  <2> QED BY ZenonT(60), <2>1, <2>2, <2>3, <2>4, <1>1, <1>2 DEF Private
<1>6. \A x \in Threads, y \in Tokens : Past(x, y)' => Past(x, y)
  BY ZenonT(60), <1>3, IdleOK DEF Past
<1>7. \A x \in Threads : At(x, "mark")' => At(x, "mark") /\ job'[x] = job[x]
  BY ZenonT(60), <1>3, IdleOK DEF At
<1>8. \A y \in Tokens : minter'[y] = minter[y]
            \/ (minter[y] = NoNode /\ \A m \in Nodes : ~Took(m, y))
  BY <1>2
<1>9. \A m \in Nodes, y \in Tokens : wraps'[m][y] = wraps[m][y] \/ ~wraps'[m][y].there
  BY <1>2
<1>10. UNCHANGED <<meta, handed>>
  BY <1>2
<1> QED BY ZenonT(60), <1>4, <1>5, <1>6, <1>7, <1>8, <1>9, <1>10, HistoryStep

\* A token runs out.
LEMMA ExpireOK ==
  ASSUME IInv, NEW t \in Tokens, Expire(t)
  PROVE  IInv'
<1>1. expired' \in [Tokens -> BOOLEAN]
  BY DEF Expire, IInv, TypeOK
<1>2. UNCHANGED <<meta, payload, wraps, job, minter, issued, handed>>
  BY ZenonT(60) DEF Expire
<1>3. TypeOK /\ Mutex /\ Private
  BY DEF IInv
<1>4. TypeOK'
  BY ZenonT(60), <1>1, <1>2, <1>3 DEF TypeOK
<1>5. Mutex'
  BY Zenon, <1>2, <1>3 DEF Mutex
<1>6. Private'
  BY ZenonT(60), <1>2, <1>3 DEF Private, Building
<1> QED BY ZenonT(60), <1>2, <1>4, <1>5, <1>6, SameHistory

\* A node restarts with an empty map.
LEMMA RestartOK ==
  ASSUME IInv, NEW n \in Nodes, Restart(n)
  PROVE  IInv'
<1>1. TypeOK /\ Mutex /\ Private
  BY DEF IInv
<1>2. /\ UNCHANGED <<meta, payload, expired, minter, issued, handed>>
      /\ wraps' = [wraps EXCEPT ![n] = [t \in Tokens |-> Absent]]
      /\ \A x \in Threads : job'[x] = Idle \/ job'[x] = job[x]
      /\ job' \in [Threads -> Job]
  BY ZenonT(60), <1>1, IdleOK DEF Restart, TypeOK
<1>3. Absent \in LocalEntry /\ ~Absent.there
  BY ZenonT(60) DEF Absent, LocalEntry
<1>4. wraps' \in [Nodes -> [Tokens -> LocalEntry]]
  BY ZenonT(60), <1>1, <1>2, <1>3 DEF TypeOK
<1>5. \A m \in Nodes, y \in Tokens : wraps'[m][y] = wraps[m][y] \/ ~wraps'[m][y].there
  BY ZenonT(60), <1>1, <1>2, <1>3 DEF TypeOK
<1>6. TypeOK' /\ Mutex'
  BY ZenonT(60), <1>1, <1>2, <1>4, IdleOK DEF TypeOK, Mutex, LockHeld
<1>7. Private'
  BY <1>1, <1>2, IdleOK DEF Private, Building
<1>8. \A x \in Threads, y \in Tokens : Past(x, y)' => Past(x, y)
  BY ZenonT(60), <1>2, IdleOK DEF Past
<1>9. \A x \in Threads : At(x, "mark")' => At(x, "mark") /\ job'[x] = job[x]
  BY Zenon, <1>2, IdleOK DEF At
<1>10. \A y \in Tokens : minter'[y] = minter[y]
            \/ (minter[y] = NoNode /\ \A m \in Nodes : ~Took(m, y))
  BY <1>2
<1>11. UNCHANGED <<meta, handed>>
  BY ZenonT(60), <1>2
<1> QED BY Zenon, <1>5, <1>6, <1>7, <1>8, <1>9, <1>10, <1>11, HistoryStep

\* Every step keeps the invariant.
LEMMA NextOK == IInv /\ [Next]_vars => IInv'
<1> SUFFICES ASSUME IInv, [Next]_vars PROVE IInv'
  OBVIOUS
<1>0. Writes \subseteq {"ok", "error", "lost"} /\ Reads \subseteq BOOLEAN
  BY Zenon DEF Writes, Reads
<1>1. ASSUME NEW th \in Threads, WrapStep(th) PROVE IInv'
  BY <1>0, <1>1, WrapStoreOK, WrapMetaOK, WrapUndoOK, GcLockOK, WrapReturnOK,
     GcDropOK, GcDestroyOK, GcDeleteOK DEF WrapStep
<1>2. ASSUME NEW th \in Threads, NEW w \in Writes, Mark(th, w) PROVE IInv'
  BY <1>0, <1>2, MarkFails, MarkSucceeds
<1>3. ASSUME NEW th \in Threads, UnwrapStep(th) PROVE IInv'
  BY ZenonT(60), <1>0, <1>2, <1>3, UnwrapOK, LookupOK, DiscardOK, FetchOK DEF UnwrapStep
<1>4. CASE UNCHANGED vars
  <2>1. UNCHANGED <<meta, payload, expired, wraps, job, minter, issued, handed>>
    BY ZenonT(60), <1>4 DEF vars
  <2>2. TypeOK /\ Mutex /\ Private
    BY DEF IInv
  <2>3. TypeOK'
    BY ZenonT(60), <2>1, <2>2 DEF TypeOK
  <2>4. Mutex'
    BY Zenon, <2>1, <2>2 DEF Mutex
  <2>5. Private'
    BY ZenonT(60), <2>1, <2>2 DEF Private, Building
  <2> QED BY ZenonT(60), <2>1, <2>3, <2>4, <2>5, SameHistory
<1> QED BY ZenonT(60), <1>1, <1>3, <1>4, ExpireOK, RestartOK DEF Next

\* The types hold in every reachable state.
THEOREM TypeOKAlways == Spec => []TypeOK
<1>1. IInv => TypeOK
  BY DEF IInv
<1> QED BY <1>1, InitOK, NextOK, PTL DEF Spec

\* A node hands a payload out at most once, for every number of nodes,
\* goroutines and tokens, with failing calls and restarts.
THEOREM OncePerNodeAlways == Spec => []OncePerNode
<1>1. IInv => OncePerNode
  BY DEF IInv
<1> QED BY <1>1, InitOK, NextOK, PTL DEF Spec

\* Of two nodes that took the same payload one minted the token.
THEOREM MinterIsTheExceptionAlways == Spec => []MinterIsTheException
<1>1. IInv => MinterIsTheException
  BY DEF IInv
<1> QED BY <1>1, InitOK, NextOK, PTL DEF Spec

\* The stored metadata of a taken token never says unused again.
THEOREM TakenIsMarkedAlways == Spec => []TakenIsMarked
<1>1. IInv => TakenIsMarked
  BY DEF IInv
<1> QED BY <1>1, InitOK, NextOK, PTL DEF Spec

\* A step of the service is a step of the single-use store: a token is
\* minted or issued, an issued token is redeemed for the first time on its
\* node, or nothing the store shows happens.
LEMMA StoreStep ==
  ASSUME IInv, [Next]_vars
  PROVE  [Abstract!Next]_<<minter, issued, handed>>
<1>1. ASSUME NEW th \in Threads, WrapReturn(th) PROVE Abstract!Next
  <2> DEFINE t == job[th].tok
  <2>1. t \in Tokens /\ Building(th, t)
    BY ZenonT(60), <1>1, JobOK DEF WrapReturn, Building, At
  <2>2. minter[t] # NoNode /\ t \notin issued
    BY ZenonT(60), <2>1 DEF IInv, Private
  <2>3. Abstract!Issue(t)
    BY Zenon, <1>1, <2>2 DEF WrapReturn, Abstract!Issue
  <2> QED BY Zenon, <2>1, <2>3 DEF Abstract!Next
<1>2. ASSUME NEW th \in Threads, NEW w \in Writes, Discard(th, w) PROVE Abstract!Next
  <2> DEFINE t == job[th].tok
             n == NodeOf[th]
  <2>1. t \in Tokens /\ n \in Nodes /\ Past(th, t)
    BY ZenonT(60), <1>2, JobOK DEF Discard, Past, At
  <2>2. t \in issued
    BY ZenonT(60), <2>1 DEF IInv, Private, Past
  <2>3. handed[n][t] = 0
    BY ZenonT(60), <2>1 DEF IInv, OncePerNode
  <2>4. handed' = [handed EXCEPT ![n][t] = 1] /\ UNCHANGED <<minter, issued>>
    <3>1. handed \in [Nodes -> [Tokens -> Nat]]
      BY DEF IInv, TypeOK
    <3>2. handed' = [handed EXCEPT ![n][t] = @ + 1] /\ UNCHANGED <<minter, issued>>
      BY Zenon, <1>2 DEF Discard
    <3> QED BY SMTT(30), <2>1, <2>3, <3>1, <3>2
  <2>5. ASSUME NEW m \in Nodes, handed[m][t] # 0 PROVE minter[t] \in {m, n}
    <3>1. m # n
      BY Zenon, <2>3, <2>5
    <3>2. handed \in [Nodes -> [Tokens -> Nat]] /\ MinterIsTheException
      BY Zenon DEF IInv, TypeOK
    <3>3. Took(m, t) /\ Took(n, t)
      BY SMTT(30), <2>1, <2>5, <3>2 DEF Took
    <3> QED BY ZenonT(60), <2>1, <3>1, <3>2, <3>3 DEF MinterIsTheException
  <2>6. Abstract!Redeem(n, t)
    BY Zenon, <2>1, <2>2, <2>3, <2>4, <2>5 DEF Abstract!Redeem
  <2> QED BY ZenonT(60), <2>1, <2>6 DEF Abstract!Next
<1>8. ASSUME NEW th \in Threads, NEW t \in Tokens, NEW w \in Writes, WrapStore(th, t, w)
      PROVE  Abstract!Next
  <2>1. NodeOf[th] \in Nodes
    BY WrappingAssumption
  <2>2. Abstract!Mint(NodeOf[th], t)
    BY Zenon, <1>8 DEF WrapStore, Abstract!Mint
  <2> QED BY Zenon, <2>1, <2>2 DEF Abstract!Next
<1>3. ASSUME NEW th \in Threads, WrapStep(th), ~WrapReturn(th),
             \A t \in Tokens, w \in Writes : ~WrapStore(th, t, w)
      PROVE  UNCHANGED <<minter, issued, handed>>
  BY Zenon, <1>3 DEF WrapStep, WrapMeta, WrapUndo, GcLock, GcDrop, GcDestroy, GcDelete
<1>4. ASSUME NEW th \in Threads, UnwrapStep(th), \A w \in Writes : ~Discard(th, w)
      PROVE  UNCHANGED <<minter, issued, handed>>
  BY Zenon, <1>4 DEF UnwrapStep, Unwrap, Lookup, Mark, Fetch
<1>5. ASSUME NEW t \in Tokens, Expire(t) PROVE UNCHANGED <<minter, issued, handed>>
  BY ZenonT(60), <1>5 DEF Expire
<1>6. ASSUME NEW n \in Nodes, Restart(n) PROVE UNCHANGED <<minter, issued, handed>>
  BY <1>6 DEF Restart
<1>7. CASE UNCHANGED vars
  BY <1>7 DEF vars
<1> QED BY <1>1, <1>2, <1>3, <1>4, <1>5, <1>6, <1>7, <1>8 DEF Next

\* The service implements the single-use store, for every number of nodes,
\* goroutines and tokens, with failing calls and restarts.
THEOREM RedeemedOnceAlways == Spec => RedeemedOnce
<1>1. Init => Abstract!Init
  BY DEF Init, Abstract!Init
<1>2. IInv /\ [Next]_vars => [Abstract!Next]_<<minter, issued, handed>>
  BY StoreStep
<1> QED BY <1>1, <1>2, InitOK, NextOK, PTL DEF Spec, RedeemedOnce, Abstract!Spec
=============================================================================
