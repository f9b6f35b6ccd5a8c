--------------------------- MODULE Metadata_proofs ---------------------------
(***************************************************************************)
(* Proofs about Metadata, for any clients, counters and number of          *)
(* versions: types, that no committed edit is lost, and that a version is  *)
(* good for one write.                                                     *)
(*                                                                         *)
(* The argument is about what a version means.  Wherever a document can be *)
(* seen (committed, read by a client, written by an open transaction, or   *)
(* named by the If-Match of a request), its version belongs to one counter *)
(* and to one content.  A conditional statement that finds the version it  *)
(* names has therefore found the content its client had edited, and the    *)
(* row lock keeps that so until the commit.                                *)
(***************************************************************************)
EXTENDS Metadata, TLAPS

\* A request under If-Match, and the document its client had read.
Conditional(p) == pc[p] # "idle" /\ req[p].op \in {"replace", "delete"}
Basis(p) == [ver |-> req[p].expected, data |-> req[p].base]

\* What a request carries at each stage: a write under If-None-Match starts
\* from nothing, a write under If-Match names a version, a read does not write.
Carried(p) ==
    /\ pc[p] = "idle" <=> req[p] = NoReq
    /\ pc[p] # "idle" /\ req[p].op \in {"get", "create"} => req[p].base = {} /\ req[p].expected = 0
    /\ Conditional(p) => req[p].expected \in Versions
    /\ pc[p] = "read" => req[p].op = "get"
    /\ pc[p] \in {"write", "commit"} => req[p].op # "get"

\* The new row of an open write is what the client had read with the new edit,
\* under a version nobody has named yet.
NewRow(p) ==
    /\ tx[p].row \in Docs
    /\ tx[p].row.data = req[p].base \cup {tx[p].row.ver}
    /\ tx[p].row.ver # req[p].expected
    /\ tx[p].row.ver <= drawn
    /\ spent[tx[p].row.ver] = 0

\* An open write has its row, and the condition of its statement still holds.
OpenWrite(p) ==
    pc[p] = "commit" =>
        /\ lock[Mine(p)] = p
        /\ Matches(p)
        /\ req[p].op = "delete" => tx[p].row = NoDoc
        /\ req[p].op # "delete" => NewRow(p)

LockOwned ==
    \A c \in Counters : lock[c] # NoProc => pc[lock[c]] = "commit" /\ Mine(lock[c]) = c

\* NoLostUpdate, with the history of a counter that has no document.
EditsKept ==
    \A c \in Counters : edits[c] = IF doc[c] = NoDoc THEN {} ELSE doc[c].data

\* Document d of counter c is to be found somewhere.
Seen(d, c) ==
    \/ d = doc[c]
    \/ \E p \in Procs : d = known[p][c]
    \/ \E p \in Procs : pc[p] = "commit" /\ req[p].counter = c /\ d = tx[p].row
    \/ \E p \in Procs : Conditional(p) /\ req[p].counter = c /\ d = Basis(p)

\* A version has been drawn, and names one document of one counter.
VersionDrawn == \A c \in Counters, d \in Docs : Seen(d, c) => d.ver <= drawn
VersionNames ==
    \A b, c \in Counters, d, e \in Docs :
        Seen(d, b) /\ Seen(e, c) /\ d.ver = e.ver => d = e /\ b = c

\* No write has named the version of a committed document, or one not drawn.
Unspent ==
    /\ \A c \in Counters : doc[c] # NoDoc => spent[doc[c].ver] = 0
    /\ \A v \in Versions : v > drawn => spent[v] = 0

IInv ==
    /\ TypeOK
    /\ \A p \in Procs : Carried(p)
    /\ \A p \in Procs : OpenWrite(p)
    /\ LockOwned
    /\ EditsKept
    /\ VersionDrawn
    /\ VersionNames
    /\ Unspent
    /\ VersionSpentOnce

------------------------------------------------------------------------------
(* Facts that every step uses.                                             *)

\* A request under way has its shape; its document is a document.
LEMMA Shapes ==
    ASSUME TypeOK, NEW p \in Procs, Carried(p)
    PROVE  /\ pc[p] # "idle" => req[p] \in ReqShape /\ Mine(p) \in Counters
           /\ Conditional(p) => Basis(p) \in Docs
  BY MetadataAssumption DEF TypeOK, Carried, Conditional, Basis, ReqShape, Docs, Mine

\* A step that shows no document that was not seen before keeps what versions mean.
LEMMA NamesKept ==
    ASSUME VersionDrawn, VersionNames, drawn' = drawn,
           \A c \in Counters, d \in Docs : Seen(d, c)' => Seen(d, c)
    PROVE  VersionDrawn' /\ VersionNames'
  <1>1. VersionDrawn'
    BY DEF VersionDrawn
  <1>2. VersionNames'
    BY DEF VersionNames
  <1> QED  BY <1>1, <1>2

\* A step that leaves the tables, the locks and the history alone, and goes
\* neither to nor from an open write.
LEMMA QuietStep ==
    ASSUME IInv, TypeOK', NEW p \in Procs,
           UNCHANGED <<doc, drawn, lock, tx, edits, spent>>,
           pc[p] # "commit", pc'[p] # "commit",
           \A q \in Procs : q # p => pc'[q] = pc[q] /\ req'[q] = req[q],
           Carried(p)',
           \A c \in Counters, d \in Docs : Seen(d, c)' => Seen(d, c)
    PROVE  IInv'
  <1>1. ASSUME NEW q \in Procs PROVE Carried(q)'
    BY DEF IInv, Carried, Conditional
  <1>2. ASSUME NEW q \in Procs PROVE OpenWrite(q)'
    BY DEF IInv, OpenWrite, Matches, NewRow, Mine
  <1>3. LockOwned'
    <2> SUFFICES ASSUME NEW c \in Counters, lock[c] # NoProc
                 PROVE  pc'[lock[c]] = "commit" /\ req'[lock[c]].counter = c
      BY DEF LockOwned, Mine
    <2>1. lock[c] \in Procs /\ pc[lock[c]] = "commit" /\ req[lock[c]].counter = c
      BY DEF IInv, LockOwned, TypeOK, Mine
    <2> QED  BY <2>1
  <1>4. EditsKept' /\ Unspent' /\ VersionSpentOnce'
    BY DEF IInv, EditsKept, Unspent, VersionSpentOnce
  <1>5. VersionDrawn' /\ VersionNames'
    BY NamesKept DEF IInv
  <1> QED  BY <1>1, <1>2, <1>3, <1>4, <1>5 DEF IInv

------------------------------------------------------------------------------
(* One lemma per action.                                                   *)

LEMMA StartStep ==
    ASSUME IInv, NEW p \in Procs, NEW c \in Counters,
           StartGet(p, c) \/ StartCreate(p, c) \/ StartMatch(p, c)
    PROVE  IInv'
  <1>1. PICK r \in ReqShape :
            /\ Send(p, r) /\ r.counter = c
            /\ r.op \in {"get", "create"} => r.base = {} /\ r.expected = 0
            /\ r.op \in {"replace", "delete"} =>
                   /\ known[p][c] \in Docs /\ r.expected = known[p][c].ver
                   /\ r.base = known[p][c].data
    <2>1. CASE StartGet(p, c)
      <3> DEFINE r == Ask("get", c, 0, {})
      <3>1. /\ r \in ReqShape /\ r.op = "get" /\ r.base = {} /\ r.expected = 0
            /\ r.counter = c /\ Send(p, r)
        BY <2>1, MetadataAssumption DEF StartGet, Ask, ReqShape, Ops
      <3> QED  BY <3>1
    <2>2. CASE StartCreate(p, c)
      <3> DEFINE r == Ask("create", c, 0, {})
      <3>1. /\ r \in ReqShape /\ r.op = "create" /\ r.base = {} /\ r.expected = 0
            /\ r.counter = c /\ Send(p, r)
        BY <2>2, MetadataAssumption DEF StartCreate, Ask, ReqShape, Ops
      <3> QED  BY <3>1
    <2>3. CASE StartMatch(p, c)
      <3>1. known[p][c] \in Docs
        BY <2>3 DEF StartMatch, IInv, TypeOK
      <3>2. PICK op \in {"replace", "delete"} :
                Send(p, Ask(op, c, known[p][c].ver, known[p][c].data))
        BY <2>3 DEF StartMatch
      <3> DEFINE r == Ask(op, c, known[p][c].ver, known[p][c].data)
      <3>3. /\ r \in ReqShape /\ r.op = op /\ r.counter = c
            /\ r.expected = known[p][c].ver /\ r.base = known[p][c].data
        BY <3>1, MetadataAssumption DEF Ask, ReqShape, Ops, Docs, Versions
      <3> QED  BY <3>1, <3>2, <3>3
    <2> QED  BY <2>1, <2>2, <2>3
  <1>2. /\ pc[p] = "idle" /\ pc' = [pc EXCEPT ![p] = "exists"]
        /\ req' = [req EXCEPT ![p] = r]
        /\ UNCHANGED <<doc, drawn, lock, known, tx, resp, edits, spent>>
    BY <1>1 DEF Send, GoTo
  <1>3. TypeOK'
    BY <1>1, <1>2 DEF IInv, TypeOK, Stages
  <1>4. pc'[p] = "exists" /\ req'[p] = r
    BY <1>2 DEF IInv, TypeOK
  <1>5. \A q \in Procs : q # p => pc'[q] = pc[q] /\ req'[q] = req[q]
    BY <1>2 DEF IInv, TypeOK
  <1>6. Carried(p)'
    BY <1>1, <1>4, MetadataAssumption DEF Carried, Conditional, Docs
  <1>7. ASSUME NEW b \in Counters, NEW d \in Docs, Seen(d, b)' PROVE Seen(d, b)
    <2>1. CASE Conditional(p)' /\ req'[p].counter = b /\ d = Basis(p)'
      <3>1. b = c /\ known[p][c] \in Docs /\ d.ver = known[p][c].ver /\ d.data = known[p][c].data
        BY <2>1, <1>1, <1>4 DEF Conditional, Basis
      <3>2. d = known[p][c]
        BY <3>1 DEF Docs
      <3> QED  BY <3>1, <3>2 DEF Seen
    <2>2. CASE ~ (Conditional(p)' /\ req'[p].counter = b /\ d = Basis(p)')
      BY <2>2, <1>7, <1>2, <1>4, <1>5 DEF Seen, Conditional, Basis
    <2> QED  BY <2>1, <2>2
  <1> QED  BY <1>2, <1>3, <1>4, <1>5, <1>6, <1>7, QuietStep

LEMMA CounterExistsStep ==
    ASSUME IInv, NEW p \in Procs, CounterExists(p)
    PROVE  IInv'
  <1>1. /\ pc[p] = "exists"
        /\ pc' = [pc EXCEPT ![p] = IF req[p].op = "get" THEN "read" ELSE "write"]
        /\ UNCHANGED <<doc, drawn, lock, req, known, tx, resp, edits, spent>>
    BY DEF CounterExists, GoTo
  <1>2. TypeOK'
    BY <1>1 DEF IInv, TypeOK, Stages
  <1>3. /\ pc'[p] = IF req[p].op = "get" THEN "read" ELSE "write"
        /\ \A q \in Procs : q # p => pc'[q] = pc[q]
    BY <1>1 DEF IInv, TypeOK
  <1>4. Carried(p)'
    BY <1>1, <1>3 DEF IInv, Carried, Conditional
  <1>5. ASSUME NEW c \in Counters, NEW d \in Docs, Seen(d, c)' PROVE Seen(d, c)
    BY <1>1, <1>3, <1>5 DEF Seen, Conditional, Basis
  <1> QED  BY <1>1, <1>2, <1>3, <1>4, <1>5, QuietStep

LEMMA ReadStep ==
    ASSUME IInv, NEW p \in Procs, Read(p)
    PROVE  IInv'
  <1>0. Mine(p) \in Counters /\ pc[p] = "read"
    BY Shapes DEF Read, IInv
  <1>1. /\ pc' = [pc EXCEPT ![p] = "done"]
        /\ known' = [known EXCEPT ![p][Mine(p)] = doc[Mine(p)]]
        /\ resp' = [resp EXCEPT ![p] = IF doc[Mine(p)] = NoDoc THEN "no_metadata" ELSE "ok"]
        /\ UNCHANGED <<doc, drawn, lock, req, tx, edits, spent>>
    BY DEF Read, GoTo
  <1>2. TypeOK'
    BY <1>0, <1>1 DEF IInv, TypeOK, Stages, Statuses
  <1>3. pc'[p] = "done" /\ \A q \in Procs : q # p => pc'[q] = pc[q]
    BY <1>1 DEF IInv, TypeOK
  <1>4. Carried(p)'
    BY <1>0, <1>1, <1>3 DEF IInv, Carried, Conditional
  <1>5. ASSUME NEW c \in Counters, NEW q \in Procs
        PROVE  known'[q][c] = IF q = p /\ c = Mine(p) THEN doc[c] ELSE known[q][c]
    BY <1>0, <1>1 DEF IInv, TypeOK
  <1>6. ASSUME NEW c \in Counters, NEW d \in Docs, Seen(d, c)' PROVE Seen(d, c)
    BY <1>0, <1>1, <1>3, <1>5, <1>6 DEF Seen, Conditional, Basis
  <1> QED  BY <1>0, <1>1, <1>2, <1>3, <1>4, <1>6, QuietStep

LEMMA AgainStep ==
    ASSUME IInv, NEW p \in Procs, Resend(p) \/ Recycle(p)
    PROVE  IInv'
  <1>1. /\ pc[p] = "done"
        /\ \/ pc' = [pc EXCEPT ![p] = "exists"] /\ UNCHANGED req
           \/ pc' = [pc EXCEPT ![p] = "idle"] /\ req' = [req EXCEPT ![p] = NoReq]
        /\ resp' = [resp EXCEPT ![p] = "none"]
        /\ UNCHANGED <<doc, drawn, lock, known, tx, edits, spent>>
    BY DEF Resend, Recycle, GoTo
  <1>2. TypeOK'
    BY <1>1 DEF IInv, TypeOK, Stages, Statuses
  <1>3. /\ \/ pc'[p] = "exists" /\ req'[p] = req[p]
           \/ pc'[p] = "idle" /\ req'[p] = NoReq
        /\ \A q \in Procs : q # p => pc'[q] = pc[q] /\ req'[q] = req[q]
    BY <1>1 DEF IInv, TypeOK
  <1>4. Carried(p)'
    BY <1>1, <1>3 DEF IInv, Carried, Conditional
  <1>5. ASSUME NEW c \in Counters, NEW d \in Docs, Seen(d, c)' PROVE Seen(d, c)
    BY <1>1, <1>3, <1>5 DEF Seen, Conditional, Basis
  <1> QED  BY <1>1, <1>2, <1>3, <1>4, <1>5, QuietStep

LEMMA AbortStep ==
    ASSUME IInv, NEW p \in Procs, pc[p] \in InTx, NEW s \in Statuses, Abort(p, s)
    PROVE  IInv'
  <1>1. /\ lock' = [c \in Counters |-> IF lock[c] = p THEN NoProc ELSE lock[c]]
        /\ tx' = [tx EXCEPT ![p] = NoTx]
        /\ resp' = [resp EXCEPT ![p] = s]
        /\ pc' = [pc EXCEPT ![p] = "done"]
        /\ UNCHANGED <<doc, drawn, req, known, edits, spent>>
    BY DEF Abort, GoTo
  <1>2. /\ pc'[p] = "done" /\ tx'[p] = NoTx
        /\ \A q \in Procs : q # p => pc'[q] = pc[q] /\ tx'[q] = tx[q]
    BY <1>1 DEF IInv, TypeOK
  <1>3. TypeOK'
    <2>1. NoTx \in [set : BOOLEAN, row : Docs \cup {NoDoc}] /\ NoTx.set = FALSE
      BY DEF NoTx
    <2>2. \A q \in Procs : tx'[q].set <=> pc'[q] = "commit"
      BY <1>2, <2>1 DEF IInv, TypeOK
    <2> QED  BY <1>1, <2>1, <2>2 DEF IInv, TypeOK, Stages
  <1>4. ASSUME NEW q \in Procs PROVE Carried(q)'
    <2>1. CASE q = p
      BY <2>1, <1>1, <1>2 DEF IInv, Carried, Conditional, InTx
    <2>2. CASE q # p
      BY <2>2, <1>1, <1>2 DEF IInv, Carried, Conditional
    <2> QED  BY <2>1, <2>2
  <1>5. ASSUME NEW q \in Procs PROVE OpenWrite(q)'
    <2> SUFFICES ASSUME pc'[q] = "commit" PROVE OpenWrite(q)'
      BY DEF OpenWrite
    <2>1. q # p /\ pc[q] = "commit" /\ tx'[q] = tx[q]
      BY <1>2
    <2>2. Mine(q) \in Counters
      BY <2>1, Shapes DEF IInv
    <2>3. lock'[Mine(q)] = q
      BY <1>1, <2>1, <2>2 DEF IInv, OpenWrite
    <2> QED  BY <1>1, <2>1, <2>3 DEF IInv, OpenWrite, NewRow, Matches, Mine
  <1>6. LockOwned'
    <2> SUFFICES ASSUME NEW c \in Counters, lock'[c] # NoProc
                 PROVE  pc'[lock'[c]] = "commit" /\ req[lock'[c]].counter = c
      BY <1>1 DEF LockOwned, Mine
    <2>1. lock'[c] = lock[c] /\ lock[c] # NoProc /\ lock[c] # p /\ lock[c] \in Procs
      BY <1>1 DEF IInv, TypeOK
    <2> QED  BY <1>2, <2>1 DEF IInv, LockOwned, Mine
  <1>7. EditsKept' /\ Unspent' /\ VersionSpentOnce'
    BY <1>1 DEF IInv, EditsKept, Unspent, VersionSpentOnce
  <1>8. ASSUME NEW c \in Counters, NEW d \in Docs, Seen(d, c)' PROVE Seen(d, c)
    BY <1>1, <1>2, <1>8 DEF Seen, Conditional, Basis, InTx
  <1>9. VersionDrawn' /\ VersionNames'
    BY <1>1, <1>8, NamesKept DEF IInv
  <1> QED  BY <1>3, <1>4, <1>5, <1>6, <1>7, <1>9 DEF IInv

\* The statement of a write, whichever row it leaves: the locks and the
\* requests.
LEMMA WrittenStep ==
    ASSUME IInv, NEW p \in Procs, NEW row \in Docs \cup {NoDoc},
           pc[p] = "write", Unlocked(p), Matches(p), Written(p, row),
           drawn' \in 0 .. MaxVersions, drawn' >= drawn,
           req[p].op = "delete" => row = NoDoc,
           req[p].op # "delete" => NewRow(p)'
    PROVE  /\ TypeOK' /\ LockOwned' /\ EditsKept' /\ VersionSpentOnce'
           /\ \A q \in Procs : Carried(q)' /\ OpenWrite(q)'
           /\ \A c \in Counters, d \in Docs : Seen(d, c)' => Seen(d, c) \/ (c = Mine(p) /\ d = row)
  <1>0. Mine(p) \in Counters /\ req[p] \in ReqShape
    BY Shapes DEF IInv
  <1>1. /\ lock' = [lock EXCEPT ![Mine(p)] = p]
        /\ tx' = [tx EXCEPT ![p] = [set |-> TRUE, row |-> row]]
        /\ pc' = [pc EXCEPT ![p] = "commit"]
        /\ UNCHANGED <<doc, req, known, resp, edits, spent>>
    BY DEF Written, GoTo
  <1>2. /\ pc'[p] = "commit" /\ tx'[p] = [set |-> TRUE, row |-> row]
        /\ \A q \in Procs : q # p => pc'[q] = pc[q] /\ tx'[q] = tx[q]
    BY <1>1 DEF IInv, TypeOK
  <1>3. /\ lock'[Mine(p)] = p /\ lock[Mine(p)] = NoProc
        /\ \A c \in Counters : c # Mine(p) => lock'[c] = lock[c]
    BY <1>0, <1>1 DEF IInv, TypeOK, Unlocked
  <1>4. drawn \in Nat /\ drawn' \in Nat
    BY MetadataAssumption DEF IInv, TypeOK
  <1>5. TypeOK'
    <2>1. \A q \in Procs : tx'[q].set <=> pc'[q] = "commit"
      BY <1>2 DEF IInv, TypeOK
    <2> QED  BY <1>0, <1>1, <2>1 DEF IInv, TypeOK, Stages
  <1>6. LockOwned'
    <2> SUFFICES ASSUME NEW c \in Counters, lock'[c] # NoProc
                 PROVE  pc'[lock'[c]] = "commit" /\ req[lock'[c]].counter = c
      BY <1>1 DEF LockOwned, Mine
    <2>1. CASE c = Mine(p)
      BY <2>1, <1>2, <1>3 DEF Mine
    <2>2. CASE c # Mine(p)
      <3>1. lock'[c] = lock[c] /\ lock[c] \in Procs
        BY <2>2, <1>3 DEF IInv, TypeOK
      <3> QED  BY <3>1, <1>2 DEF IInv, LockOwned, Mine
    <2> QED  BY <2>1, <2>2
  <1>7. EditsKept' /\ VersionSpentOnce'
    BY <1>1 DEF IInv, EditsKept, VersionSpentOnce
  <1>8. ASSUME NEW q \in Procs PROVE Carried(q)'
    BY <1>1, <1>2 DEF IInv, Carried, Conditional
  <1>9. ASSUME NEW q \in Procs PROVE OpenWrite(q)'
    <2>1. CASE q = p
      BY <2>1, <1>1, <1>2, <1>3 DEF OpenWrite, Matches, Mine
    <2>2. CASE q # p
      <3> SUFFICES ASSUME pc'[q] = "commit" PROVE OpenWrite(q)'
        BY DEF OpenWrite
      <3>1. pc[q] = "commit" /\ lock[Mine(q)] = q /\ Mine(q) \in Counters
        BY <2>2, <1>2, Shapes DEF IInv, OpenWrite
      <3>2. Mine(q) # Mine(p)
        BY <3>1, <1>3, MetadataAssumption
      <3>3. lock'[Mine(q)] = q /\ tx'[q] = tx[q]
        BY <2>2, <3>1, <3>2, <1>2, <1>3
      <3>4. NewRow(q) => NewRow(q)'
        BY <1>1, <1>4, <3>3 DEF NewRow, Docs, Versions
      <3> QED  BY <1>1, <3>1, <3>3, <3>4 DEF IInv, OpenWrite, Matches, Mine
    <2> QED  BY <2>1, <2>2
  <1>10. ASSUME NEW c \in Counters, NEW d \in Docs, Seen(d, c)'
         PROVE  Seen(d, c) \/ (c = Mine(p) /\ d = row)
    <2>1. ASSUME NEW q \in Procs PROVE Conditional(q)' => Conditional(q)
      BY <1>1, <1>2 DEF Conditional
    <2>2. ASSUME NEW q \in Procs, pc'[q] = "commit", req'[q].counter = c, d = tx'[q].row
          PROVE  Seen(d, c) \/ (c = Mine(p) /\ d = row)
      BY <1>1, <1>2, <2>2 DEF Seen, Mine
    <2> QED  BY <1>1, <1>10, <2>1, <2>2 DEF Seen, Basis
  <1> QED  BY <1>5, <1>6, <1>7, <1>8, <1>9, <1>10

LEMMA StoreStep ==
    ASSUME IInv, NEW p \in Procs, Store(p)
    PROVE  IInv'
  <1> DEFINE v == drawn + 1
             row == [ver |-> v, data |-> req[p].base \cup {v}]
  <1>1. /\ pc[p] = "write" /\ req[p].op \in {"create", "replace"}
        /\ Unlocked(p) /\ Matches(p)
        /\ drawn < MaxVersions /\ drawn' = v
        /\ Written(p, row)
    BY DEF Store, NewVersion
  <1>2. drawn \in Nat /\ MaxVersions \in Nat /\ v \in Versions
    BY <1>1, MetadataAssumption DEF IInv, TypeOK, Versions
  <1>3. req[p] \in ReqShape /\ Mine(p) \in Counters /\ row \in Docs
    BY <1>1, <1>2, Shapes DEF IInv, ReqShape, Docs, Edits
  <1>4. /\ req' = req /\ spent' = spent /\ doc' = doc
        /\ tx'[p] = [set |-> TRUE, row |-> row]
    BY <1>1 DEF Written, IInv, TypeOK
  <1>5. spent[v] = 0
    BY <1>2 DEF IInv, Unspent
  <1>6. req[p].expected # v
    <2>1. CASE req[p].op = "create"
      BY <1>1, <1>2, <2>1 DEF IInv, Carried
    <2>2. CASE req[p].op = "replace"
      <3>1. doc[Mine(p)] \in Docs /\ doc[Mine(p)].ver = req[p].expected
        BY <1>1, <1>3, <2>2 DEF IInv, TypeOK, Matches
      <3>2. req[p].expected <= drawn
        BY <1>3, <3>1 DEF IInv, VersionDrawn, Seen
      <3> QED  BY <1>2, <1>3, <3>2 DEF ReqShape
    <2> QED  BY <1>1, <2>1, <2>2
  <1>7. NewRow(p)'
    BY <1>1, <1>2, <1>3, <1>4, <1>5, <1>6 DEF NewRow
  <1>8. /\ TypeOK' /\ LockOwned' /\ EditsKept' /\ VersionSpentOnce'
        /\ \A q \in Procs : Carried(q)' /\ OpenWrite(q)'
        /\ \A c \in Counters, d \in Docs : Seen(d, c)' => Seen(d, c) \/ (c = Mine(p) /\ d = row)
    <2>1. drawn' \in 0 .. MaxVersions /\ drawn' >= drawn
      BY <1>1, <1>2
    <2>2. req[p].op # "delete"
      BY <1>1
    <2> HIDE DEF row
    <2> QED  BY <1>1, <1>3, <1>7, <2>1, <2>2, WrittenStep
  <1>9. \A c \in Counters, d \in Docs : Seen(d, c) => d.ver \in Nat /\ d.ver <= drawn
    BY DEF IInv, VersionDrawn, Docs, Versions
  <1>10. row.ver = v /\ drawn' = v
    BY <1>1
  <1>11. VersionDrawn'
    <2> SUFFICES ASSUME NEW c \in Counters, NEW d \in Docs, Seen(d, c)' PROVE d.ver <= drawn'
      BY DEF VersionDrawn
    <2> QED  BY <1>2, <1>8, <1>9, <1>10
  <1>12. VersionNames'
    <2> SUFFICES ASSUME NEW b \in Counters, NEW c \in Counters, NEW d \in Docs, NEW e \in Docs,
                        Seen(d, b)', Seen(e, c)', d.ver = e.ver
                 PROVE  d = e /\ b = c
      BY DEF VersionNames
    <2>1. ASSUME NEW a \in Counters, NEW f \in Docs, Seen(f, a) PROVE f.ver # v
      BY <1>2, <1>9, <2>1
    <2>2. CASE Seen(d, b) /\ Seen(e, c)
      BY <2>2 DEF IInv, VersionNames
    <2> HIDE DEF row
    <2> QED  BY <1>8, <1>10, <2>1, <2>2
  <1>13. Unspent'
    BY <1>1, <1>2, <1>4 DEF IInv, Unspent, Versions
  <1> QED  BY <1>8, <1>11, <1>12, <1>13 DEF IInv

LEMMA DeleteStep ==
    ASSUME IInv, NEW p \in Procs, Delete(p)
    PROVE  IInv'
  <1>1. /\ pc[p] = "write" /\ req[p].op = "delete"
        /\ Unlocked(p) /\ Matches(p) /\ drawn' = drawn
        /\ Written(p, NoDoc)
    BY DEF Delete
  <1>2. drawn' \in 0 .. MaxVersions /\ drawn' >= drawn
    BY <1>1, MetadataAssumption DEF IInv, TypeOK
  <1>3. /\ TypeOK' /\ LockOwned' /\ EditsKept' /\ VersionSpentOnce'
        /\ \A q \in Procs : Carried(q)' /\ OpenWrite(q)'
        /\ \A c \in Counters, d \in Docs : Seen(d, c)' => Seen(d, c) \/ (c = Mine(p) /\ d = NoDoc)
    BY <1>1, <1>2, WrittenStep
  <1>4. VersionDrawn' /\ VersionNames'
    BY <1>1, <1>3, NamesKept, MetadataAssumption DEF IInv
  <1>5. Unspent'
    BY <1>1 DEF IInv, Unspent, Written
  <1> QED  BY <1>3, <1>4, <1>5 DEF IInv

\* The commit.  The condition of the statement still holds, so the version the
\* request names is that of the committed document, which nobody has spent, and
\* the content the client had edited is the committed one.
LEMMA PublishStep ==
    ASSUME IInv, NEW p \in Procs, pc[p] = "commit", Publish(p),
           NEW s \in Statuses, resp' = [resp EXCEPT ![p] = s],
           pc' = [pc EXCEPT ![p] = "done"],
           \/ known' = [known EXCEPT ![p][Mine(p)] = tx[p].row]
           \/ known' = known
    PROVE  IInv'
  <1> DEFINE c == Mine(p)
             row == tx[p].row
  <1>1. /\ doc' = [doc EXCEPT ![c] = row]
        /\ edits' = [edits EXCEPT ![c] =
                        IF row = NoDoc THEN {} ELSE @ \cup (row.data \ req[p].base)]
        /\ spent' = IF req[p].op = "create" THEN spent
                    ELSE [spent EXCEPT ![req[p].expected] = @ + 1]
        /\ lock' = [lock EXCEPT ![c] = NoProc]
        /\ tx' = [tx EXCEPT ![p] = NoTx]
        /\ UNCHANGED <<drawn, req>>
    BY DEF Publish
  <1>2. req[p] \in ReqShape /\ c \in Counters /\ req[p].op \in {"create", "replace", "delete"}
    BY Shapes DEF IInv, Carried, ReqShape, Ops
  <1>3. row \in Docs \cup {NoDoc}
    BY DEF IInv, TypeOK
  <1>4. lock[c] = p /\ Matches(p) /\ (req[p].op = "delete" => row = NoDoc)
    BY DEF IInv, OpenWrite
  <1>5. req[p].op # "delete" => NewRow(p) /\ row # NoDoc
    BY MetadataAssumption DEF IInv, OpenWrite, NewRow
  <1>6. /\ pc'[p] = "done" /\ tx'[p] = NoTx /\ doc'[c] = row /\ lock'[c] = NoProc
        /\ \A q \in Procs : q # p => pc'[q] = pc[q] /\ tx'[q] = tx[q]
        /\ \A b \in Counters : b # c => doc'[b] = doc[b] /\ lock'[b] = lock[b] /\ edits'[b] = edits[b]
    BY <1>1, <1>2 DEF IInv, TypeOK
  <1>8. req[p].op # "create" =>
            /\ req[p].expected \in Versions
            /\ doc[c] \in Docs /\ doc[c].ver = req[p].expected /\ doc[c] = Basis(p)
    <2> SUFFICES ASSUME req[p].op # "create"
                 PROVE  /\ req[p].expected \in Versions
                        /\ doc[c] \in Docs /\ doc[c].ver = req[p].expected /\ doc[c] = Basis(p)
      OBVIOUS
    <2>1. Conditional(p)
      BY <1>2 DEF Conditional
    <2>2. Basis(p) \in Docs /\ req[p].expected \in Versions
      BY <2>1, Shapes DEF IInv, Carried
    <2>3. doc[c] \in Docs /\ doc[c].ver = req[p].expected
      BY <1>2, <1>4 DEF IInv, TypeOK, Matches
    <2>4. Seen(doc[c], c) /\ Seen(Basis(p), c)
      BY <2>1 DEF Seen, Mine
    <2>5. Basis(p).ver = req[p].expected
      BY DEF Basis
    <2>6. doc[c] = Basis(p)
      BY <1>2, <2>2, <2>3, <2>4, <2>5 DEF IInv, VersionNames
    <2> QED  BY <2>2, <2>3, <2>6
  <1>9. \A v \in Versions :
            spent'[v] = IF req[p].op # "create" /\ v = req[p].expected THEN spent[v] + 1 ELSE spent[v]
    BY <1>1, <1>8 DEF IInv, TypeOK
  <1>10. req[p].op # "create" => spent[req[p].expected] = 0
    BY <1>2, <1>8, MetadataAssumption DEF IInv, Unspent
  <1>11. TypeOK'
    <2>1. NoTx \in [set : BOOLEAN, row : Docs \cup {NoDoc}] /\ NoTx.set = FALSE
      BY DEF NoTx
    <2>2. \A q \in Procs : tx'[q].set <=> pc'[q] = "commit"
      BY <1>6, <2>1 DEF IInv, TypeOK
    <2>3. spent' \in [Versions -> Nat]
      BY <1>1, <1>8 DEF IInv, TypeOK
    <2>4. edits' \in [Counters -> SUBSET Edits]
      <3>1. row # NoDoc => row.data \subseteq Edits
        BY <1>3 DEF Docs
      <3> QED  BY <1>1, <1>2, <3>1 DEF IInv, TypeOK
    <2>5. known' \in [Procs -> [Counters -> Docs \cup {NoDoc}]]
      <3>1. known \in [Procs -> [Counters -> Docs \cup {NoDoc}]]
        BY DEF IInv, TypeOK
      <3>2. CASE known' = [known EXCEPT ![p][c] = row]
        <4> HIDE DEF row, c
        <4> QED  BY <1>2, <1>3, <3>1, <3>2
      <3>3. CASE known' = known
        BY <3>1, <3>3
      <3> QED  BY <3>2, <3>3
    <2>6. doc' \in [Counters -> Docs \cup {NoDoc}] /\ lock' \in [Counters -> Procs \cup {NoProc}]
      BY <1>1, <1>2, <1>3 DEF IInv, TypeOK
    <2> QED  BY <1>1, <2>1, <2>2, <2>3, <2>4, <2>5, <2>6 DEF IInv, TypeOK, Stages
  <1>12. ASSUME NEW q \in Procs PROVE Carried(q)'
    BY <1>1, <1>6 DEF IInv, Carried, Conditional
  <1>13. ASSUME NEW q \in Procs, q # p, pc[q] = "commit"
         PROVE  /\ Mine(q) \in Counters /\ Mine(q) # c /\ lock[Mine(q)] = q
                /\ NewRow(q) /\ req[p].op # "create" => tx[q].row.ver # req[p].expected
    <2>1. Mine(q) \in Counters /\ lock[Mine(q)] = q
      BY <1>13, Shapes DEF IInv, OpenWrite
    <2>2. Mine(q) # c
      BY <2>1, <1>13, <1>4
    <2>3. ASSUME NewRow(q), req[p].op # "create" PROVE tx[q].row.ver # req[p].expected
      <3>1. tx[q].row \in Docs /\ Seen(tx[q].row, Mine(q)) /\ Seen(doc[c], c)
        BY <1>13, <2>3 DEF NewRow, Seen, Mine
      <3> QED  BY <1>2, <1>8, <2>1, <2>2, <2>3, <3>1 DEF IInv, VersionNames
    <2> QED  BY <2>1, <2>2, <2>3
  <1>14. ASSUME NEW q \in Procs PROVE OpenWrite(q)'
    <2> SUFFICES ASSUME pc'[q] = "commit" PROVE OpenWrite(q)'
      BY DEF OpenWrite
    <2>1. q # p /\ pc[q] = "commit" /\ tx'[q] = tx[q]
      BY <1>6
    <2>2. lock'[Mine(q)] = q /\ doc'[Mine(q)] = doc[Mine(q)] /\ req'[q] = req[q]
      BY <1>1, <1>6, <1>13, <2>1
    <2>3. NewRow(q) => NewRow(q)'
      BY <1>1, <1>9, <1>13, <2>1 DEF NewRow, Docs
    <2> QED  BY <2>1, <2>2, <2>3 DEF IInv, OpenWrite, Matches, Mine
  <1>15. LockOwned'
    <2> SUFFICES ASSUME NEW b \in Counters, lock'[b] # NoProc
                 PROVE  pc'[lock'[b]] = "commit" /\ req[lock'[b]].counter = b
      BY <1>1 DEF LockOwned, Mine
    <2>1. b # c /\ lock'[b] = lock[b] /\ lock[b] \in Procs
      BY <1>6 DEF IInv, TypeOK
    <2>2. pc[lock[b]] = "commit" /\ Mine(lock[b]) = b
      BY <2>1 DEF IInv, LockOwned
    <2> QED  BY <1>6, <2>1, <2>2 DEF Mine
  <1>16. EditsKept'
    <2> SUFFICES ASSUME NEW b \in Counters
                 PROVE  edits'[b] = IF doc'[b] = NoDoc THEN {} ELSE doc'[b].data
      BY DEF EditsKept
    <2>1. CASE b # c
      BY <2>1, <1>6 DEF IInv, EditsKept
    <2>2. CASE b = c /\ row = NoDoc
      BY <2>2, <1>1, <1>2, <1>6 DEF IInv, TypeOK
    <2>3. CASE b = c /\ row # NoDoc
      <3>1. edits'[c] = edits[c] \cup (row.data \ req[p].base)
        BY <2>3, <1>1, <1>2 DEF IInv, TypeOK
      <3>2. req[p].base \subseteq row.data
        BY <2>3, <1>4, <1>5 DEF NewRow
      <3>3. edits[c] = req[p].base
        <4>1. CASE req[p].op = "create"
          BY <4>1, <1>2, <1>4 DEF IInv, Carried, EditsKept, Matches
        <4>2. CASE req[p].op # "create"
          BY <4>2, <1>2, <1>8, MetadataAssumption DEF IInv, EditsKept, Basis
        <4> QED  BY <4>1, <4>2
      <3> QED  BY <2>3, <1>6, <3>1, <3>2, <3>3
    <2> QED  BY <2>1, <2>2, <2>3
  <1>17. Unspent'
    <2>1. ASSUME NEW b \in Counters, doc'[b] # NoDoc PROVE spent'[doc'[b].ver] = 0
      <3>1. CASE b = c
        <4>1. NewRow(p)
          BY <2>1, <3>1, <1>4, <1>5, <1>6
        <4> QED  BY <3>1, <4>1, <1>6, <1>9 DEF NewRow, Docs
      <3>2. CASE b # c
        <4>1. doc'[b] = doc[b] /\ doc[b] \in Docs /\ spent[doc[b].ver] = 0
          BY <2>1, <3>2, <1>6 DEF IInv, TypeOK, Unspent
        <4>2. req[p].op # "create" => doc[b].ver # req[p].expected
          <5>1. Seen(doc[b], b) /\ Seen(doc[c], c)
            BY DEF Seen
          <5> QED  BY <1>2, <1>8, <3>2, <4>1, <5>1 DEF IInv, VersionNames
        <4> QED  BY <1>9, <4>1, <4>2 DEF Docs
      <3> QED  BY <3>1, <3>2
    <2>2. ASSUME NEW v \in Versions, v > drawn PROVE spent'[v] = 0
      <3>1. req[p].op # "create" => req[p].expected <= drawn
        BY <1>2, <1>8 DEF IInv, VersionDrawn, Seen
      <3>2. v \in Int /\ drawn \in Int /\ (req[p].op # "create" => req[p].expected \in Int)
        BY <1>8, MetadataAssumption DEF IInv, TypeOK, Versions
      <3>3. spent[v] = 0
        BY <2>2 DEF IInv, Unspent
      <3> QED  BY <1>9, <2>2, <3>1, <3>2, <3>3
    <2> QED  BY <1>1, <2>1, <2>2 DEF Unspent
  <1>18. VersionSpentOnce'
    BY <1>9, <1>10 DEF IInv, VersionSpentOnce
  <1>19. ASSUME NEW b \in Counters, NEW d \in Docs, Seen(d, b)' PROVE Seen(d, b)
    <2>1. Seen(row, c)
      BY DEF Seen, Mine
    <2>2. ASSUME NEW q \in Procs
          PROVE  known'[q][b] = known[q][b] \/ (q = p /\ b = c /\ known'[q][b] = row)
      BY <1>2 DEF IInv, TypeOK
    <2>3. CASE d = doc'[b]
      BY <2>1, <2>3, <1>6 DEF Seen
    <2>4. CASE \E q \in Procs : d = known'[q][b]
      BY <2>1, <2>2, <2>4 DEF Seen
    <2>5. CASE \E q \in Procs : pc'[q] = "commit" /\ req'[q].counter = b /\ d = tx'[q].row
      BY <2>5, <1>1, <1>6 DEF Seen
    <2>6. CASE \E q \in Procs : Conditional(q)' /\ req'[q].counter = b /\ d = Basis(q)'
      BY <2>6, <1>1, <1>6 DEF Seen, Conditional, Basis
    <2> QED  BY <1>19, <2>3, <2>4, <2>5, <2>6 DEF Seen
  <1>20. VersionDrawn' /\ VersionNames'
    BY <1>1, <1>19, NamesKept DEF IInv
  <1> QED  BY <1>11, <1>12, <1>14, <1>15, <1>16, <1>17, <1>18, <1>20 DEF IInv

------------------------------------------------------------------------------
(* The theorems.                                                           *)

LEMMA InitInv == Init => IInv
  <1> SUFFICES ASSUME Init PROVE IInv
    OBVIOUS
  <1>1. TypeOK
    BY MetadataAssumption DEF Init, TypeOK, NoTx, Stages, Statuses
  <1>2. \A p \in Procs : Carried(p) /\ OpenWrite(p)
    BY DEF Init, Carried, OpenWrite, Conditional
  <1>3. ASSUME NEW c \in Counters, NEW d \in Docs PROVE ~ Seen(d, c)
    BY MetadataAssumption DEF Init, Seen, Conditional
  <1>4. LockOwned /\ EditsKept /\ VersionDrawn /\ VersionNames /\ Unspent /\ VersionSpentOnce
    BY <1>3 DEF Init, LockOwned, EditsKept, VersionDrawn, VersionNames, Unspent, VersionSpentOnce
  <1> QED  BY <1>1, <1>2, <1>4 DEF IInv

LEMMA NextInv == IInv /\ [Next]_vars => IInv'
  <1> SUFFICES ASSUME IInv, [Next]_vars PROVE IInv'
    OBVIOUS
  <1>1. CASE UNCHANGED vars
    BY <1>1 DEF vars, IInv, TypeOK, Carried, OpenWrite, NewRow, Matches, Mine, LockOwned, EditsKept,
       VersionDrawn, VersionNames, Seen, Conditional, Basis, Unspent, VersionSpentOnce
  <1>2. ASSUME NEW p \in Procs, NEW c \in Counters,
               StartGet(p, c) \/ StartCreate(p, c) \/ StartMatch(p, c)
        PROVE  IInv'
    BY <1>2, StartStep
  <1>3. ASSUME NEW p \in Procs, CounterMissing(p) \/ Refused(p) \/ Fail(p) PROVE IInv'
    BY <1>3, AbortStep DEF CounterMissing, Refused, Fail, InTx, Statuses
  <1>4. ASSUME NEW p \in Procs, CounterExists(p) PROVE IInv'
    BY <1>4, CounterExistsStep
  <1>5. ASSUME NEW p \in Procs, Read(p) PROVE IInv'
    BY <1>5, ReadStep
  <1>6. ASSUME NEW p \in Procs, Store(p) PROVE IInv'
    BY <1>6, StoreStep
  <1>7. ASSUME NEW p \in Procs, Delete(p) PROVE IInv'
    BY <1>7, DeleteStep
  <1>8. ASSUME NEW p \in Procs, Commit(p) \/ CommitUnacknowledged(p) PROVE IInv'
    BY <1>8, PublishStep DEF Commit, CommitUnacknowledged, GoTo, Statuses
  <1>9. ASSUME NEW p \in Procs, Resend(p) \/ Recycle(p) PROVE IInv'
    BY <1>9, AgainStep
  <1> QED  BY <1>1, <1>2, <1>3, <1>4, <1>5, <1>6, <1>7, <1>8, <1>9 DEF Next

LEMMA Invariance == Spec => []IInv
  BY InitInv, NextInv, PTL DEF Spec

\* Types hold in every reachable state, and a transaction has an uncommitted
\* row exactly while it waits for its commit.
THEOREM MetadataTypes == Spec => []TypeOK
  <1>1. IInv => TypeOK
    BY DEF IInv
  <1> QED  BY <1>1, Invariance, PTL

\* No committed edit is ever missing from the document it was committed to:
\* MetadataStore.Put under If-Match loses no update, whatever clients read,
\* write, delete, recreate and retry meanwhile.
THEOREM MetadataNoLostUpdate == Spec => []NoLostUpdate
  <1>1. IInv => NoLostUpdate
    BY DEF IInv, EditsKept, NoLostUpdate
  <1> QED  BY <1>1, Invariance, PTL

\* No two replacements or deletions commit on the strength of one ETag, the
\* retry of a write whose commit was not acknowledged included.
THEOREM MetadataVersionSpentOnce == Spec => []VersionSpentOnce
  <1>1. IInv => VersionSpentOnce
    BY DEF IInv
  <1> QED  BY <1>1, Invariance, PTL

\* A row is locked only by a transaction that has written it and waits for its
\* commit: no error return leaves a lock behind for others to wait on.
THEOREM MetadataLockOwned == Spec => []LockOwned
  <1>1. IInv => LockOwned
    BY DEF IInv
  <1> QED  BY <1>1, Invariance, PTL
==============================================================================
