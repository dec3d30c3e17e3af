-------------------------- MODULE FileTransferProofs --------------------------
(***************************************************************************)
(* What FileTransfer guarantees for every number of apps, types, names and *)
(* fragments, every timeout and every period of the cleanup thread.        *)
(***************************************************************************)
EXTENDS FileTransfer, FiniteSetTheorems, TLAPS

Pieces == UNION {[D -> App] : D \in SUBSET Nat}
State  == [total : Total, author : App, sum : Sum, age : 0..Longest, pieces : Pieces]

\* All fragments of a state were sent for the path it is kept for.
SentFor(t, path) == \A f \in DOMAIN t.pieces : Path(upload[t.pieces[f]]) = path

\* A transfer in the map waits for a fragment.
Waits(t, k) ==
    /\ t \in State
    /\ 0 \in DOMAIN t.pieces
    /\ Cardinality(DOMAIN t.pieces) # t.total
    /\ SentFor(t, k)

Chosen == upload \in [App -> Upload] /\ disk \in Disk

TransfersOK == DOMAIN transfers \subseteq Key /\ \A k \in DOMAIN transfers : Waits(transfers[k], k)

CompletedOK ==
    /\ Cardinality(completed) <= 1
    /\ \A c, d \in completed : c = d
    /\ \A c \in completed : /\ c.path \in Key /\ c.state \in State /\ SentFor(c.state, c.path)
                             /\ 0 \in DOMAIN c.state.pieces

\* An app that is ready has a fragment left to send.
AppsOK ==
    /\ sent \in [App -> Nat] /\ delivered \in [App -> Nat]
    /\ app \in [App -> {"ready", "waiting", "done", "refused"}]
    /\ \A a \in App : /\ delivered[a] <= sent[a] /\ sent[a] <= upload[a].total
                      /\ app[a] = "ready" => sent[a] < upload[a].total

FilesOK == DOMAIN file \subseteq Key /\ SavedIsWhole

AgesOK == slept \in 0..Period /\ NothingLingers

IInv == Chosen /\ TransfersOK /\ CompletedOK /\ AppsOK /\ FilesOK /\ AgesOK

LEMMA IInvImpliesType == IInv => TypeOK
<1> SUFFICES ASSUME IInv PROVE TypeOK
  OBVIOUS
<1>1. ASSUME NEW k \in DOMAIN transfers
      PROVE  LET t == transfers[k]
             IN  /\ t.total \in Total /\ t.author \in App /\ t.sum \in Sum
                 /\ t.age \in 0..Longest
                 /\ 0 \in DOMAIN t.pieces
                 /\ \A f \in DOMAIN t.pieces : t.pieces[f] \in App
                 /\ Cardinality(DOMAIN t.pieces) # t.total
  <2>1. Waits(transfers[k], k)
    BY DEF IInv, TransfersOK
  <2>2. transfers[k].pieces \in Pieces
    BY <2>1 DEF Waits, State
  <2>3. PICK D \in SUBSET Nat : transfers[k].pieces \in [D -> App]
    BY <2>2 DEF Pieces
  <2> QED
    BY <2>1, <2>3 DEF Waits, State
<1>2. ASSUME NEW a \in App
      PROVE  sent[a] \in 0..upload[a].total /\ delivered[a] \in 0..sent[a]
  <2>1. upload[a].total \in Nat
    BY TransferAssumption DEF IInv, Chosen, Upload
  <2>2. sent[a] \in Nat /\ delivered[a] \in Nat
        /\ delivered[a] <= sent[a] /\ sent[a] <= upload[a].total
    BY DEF IInv, AppsOK
  <2> QED
    BY <2>1, <2>2
<1> QED
  BY <1>1, <1>2 DEF IInv, TypeOK, Chosen, TransfersOK, CompletedOK, AppsOK, FilesOK, AgesOK

------------------------------------------------------------------------------
\* A state of one fragment, and a state with one more, are states again whose
\* fragments were sent for their path.
LEMMA FirstState ==
  ASSUME Chosen, NEW a \in App, NEW state,
         state = [total |-> upload[a].total, author |-> a, sum |-> upload[a].sum, age |-> 0,
                  pieces |-> [f \in {0} |-> a]]
  PROVE  /\ state \in State /\ SentFor(state, Path(upload[a])) /\ Path(upload[a]) \in Key
         /\ DOMAIN state.pieces = {0} /\ Cardinality(DOMAIN state.pieces) = 1
<1>1. upload[a] \in Upload
  BY DEF Chosen
<1>2. state.pieces \in Pieces
  <2>1. state.pieces \in [{0} -> App] /\ {0} \in SUBSET Nat
    OBVIOUS
  <2> QED
    BY <2>1 DEF Pieces
<1>3. Cardinality({0}) = 1
  BY FS_Singleton
<1>4. 0 \in 0..Longest
  BY TransferAssumption DEF Longest
<1> QED
  BY <1>1, <1>2, <1>3, <1>4 DEF State, Upload, SentFor, Path, Key

LEMMA NextState ==
  ASSUME Chosen, NEW a \in App, NEW frag \in Nat, NEW k \in Key, k = Path(upload[a]),
         NEW t \in State, SentFor(t, k), 0 \in DOMAIN t.pieces
  PROVE  /\ Stored(t, a, frag) \in State /\ SentFor(Stored(t, a, frag), k)
         /\ 0 \in DOMAIN Stored(t, a, frag).pieces
         /\ Stored(t, a, frag).age = 0
<1> DEFINE s == Stored(t, a, frag)
<1>1. upload[a] \in Upload
  BY DEF Chosen
<1>2. PICK D \in SUBSET Nat : t.pieces \in [D -> App]
  BY DEF State, Pieces
<1>3. s.pieces = With(t.pieces, frag, a)
  BY DEF Stored, State
<1>4. /\ With(t.pieces, frag, a) \in [D \cup {frag} -> App]
      /\ \A f \in D \cup {frag} :
           With(t.pieces, frag, a)[f] = IF f = frag THEN a ELSE t.pieces[f]
  BY <1>2 DEF With
<1>5. D \cup {frag} \in SUBSET Nat
  BY <1>2
<1>6. With(t.pieces, frag, a) \in Pieces
  BY <1>4, <1>5 DEF Pieces
<1>7. 0 \in 0..Longest
  BY TransferAssumption DEF Longest
<1>8. s \in State /\ s.age = 0
  BY <1>1, <1>6, <1>7 DEF Stored, State, Upload
<1>9. SentFor(s, k) /\ 0 \in DOMAIN s.pieces
  <2>1. DOMAIN t.pieces = D /\ DOMAIN s.pieces = D \cup {frag}
    BY <1>2, <1>3, <1>4
  <2>2. ASSUME NEW f \in D \cup {frag} PROVE Path(upload[s.pieces[f]]) = k
    <3>1. s.pieces[f] = IF f = frag THEN a ELSE t.pieces[f]
      BY <1>3, <1>4
    <3>2. f # frag => Path(upload[t.pieces[f]]) = k
      BY <2>1 DEF SentFor
    <3> QED
      BY <3>1, <3>2
  <2> QED
    BY <2>1, <2>2 DEF SentFor
<1> QED
  BY <1>8, <1>9

\* A map with fewer entries.
LEMMA WithoutMap ==
  ASSUME NEW map, NEW K
  PROVE  /\ DOMAIN Without(map, K) = DOMAIN map \ K
         /\ \A x \in DOMAIN map \ K : Without(map, K)[x] = map[x]
BY DEF Without

\* An answer, or its loss, leaves the apps in order.
LEMMA AnswerKeepsApps ==
  ASSUME Chosen, AppsOK, NEW type, NEW frag, NEW ok, SendAck(type, frag, ok),
         UNCHANGED <<upload, sent>>, delivered' \in [App -> Nat],
         \A a \in App : delivered'[a] <= sent[a]
  PROVE  AppsOK'
<1>1. app' \in [App -> {"ready", "waiting", "done", "refused"}]
  BY DEF SendAck, AppsOK, Told
<1>2. ASSUME NEW a \in App, app'[a] = "ready" PROVE sent[a] < upload[a].total
  <2>1. app[a] = "ready" \/ sent[a] # upload[a].total
    BY <1>2 DEF SendAck, Told, AppsOK
  <2>2. upload[a].total \in Nat /\ sent[a] \in Nat /\ sent[a] <= upload[a].total
    BY TransferAssumption DEF Chosen, Upload, AppsOK
  <2>3. CASE app[a] = "ready"
    BY <2>3 DEF AppsOK
  <2>4. CASE sent[a] # upload[a].total
    BY <2>2, <2>4
  <2> QED
    BY <2>1, <2>3, <2>4
<1> QED
  BY <1>1, <1>2 DEF AppsOK

------------------------------------------------------------------------------
LEMMA InitIInv == Init => IInv
<1> SUFFICES ASSUME Init PROVE IInv
  OBVIOUS
<1>1. Cardinality({}) = 0
  BY FS_EmptySet
<1>2. \A a \in App : upload[a].total \in Nat \ {0}
  BY TransferAssumption DEF Init, Upload
<1> QED
  BY <1>1, <1>2, TransferAssumption
     DEF Init, IInv, Chosen, TransfersOK, CompletedOK, AppsOK, FilesOK, SavedIsWhole, AgesOK,
         NothingLingers

\* The parts that depend on nothing else that changes.
LEMMA Untouched ==
  /\ TransfersOK /\ UNCHANGED <<upload, transfers>> => TransfersOK'
  /\ CompletedOK /\ UNCHANGED <<upload, completed>> => CompletedOK'
  /\ FilesOK /\ UNCHANGED <<upload, disk, file>> => FilesOK'
  /\ AppsOK /\ UNCHANGED <<upload, sent, delivered, app>> => AppsOK'
  /\ AgesOK /\ UNCHANGED <<slept, transfers>> => AgesOK'
BY DEF TransfersOK, CompletedOK, FilesOK, AppsOK, AgesOK, Waits, SentFor, SavedIsWhole,
   IsWhole, NothingLingers

\* What a step of the apps or the broker leaves in order.
LEMMA AppStep ==
  ASSUME IInv, NEW a \in App,
         \/ SendFragment(a) \/ StartOver(a)
         \/ \E from \in 0..(delivered[a] - 1) : Redeliver(a, from)
  PROVE  IInv'
<1>1. UNCHANGED <<upload, disk, transfers, completed, file, slept>>
  BY DEF SendFragment, StartOver, Redeliver
<1>2. \A b \in App : upload[b].total \in Nat \ {0}
  BY TransferAssumption DEF IInv, Chosen, Upload
<1>3. AppsOK'
  BY <1>1, <1>2 DEF IInv, AppsOK, SendFragment, StartOver, Redeliver
<1> QED
  BY <1>1, <1>3, Untouched DEF IInv, Chosen

\* A fragment that is delivered was sent.
LEMMA Delivered ==
  ASSUME IInv, NEW a \in App, NEW frag, Receive(a, frag)
  PROVE  /\ UNCHANGED <<upload, disk, file, slept, sent>>
         /\ delivered' \in [App -> Nat] /\ \A b \in App : delivered'[b] <= sent[b]
BY DEF IInv, AppsOK, Receive

\* One entry of the map is new or renewed, or one is gone.
LEMMA Entered ==
  ASSUME IInv, UNCHANGED <<upload, slept>>, NEW k \in Key, NEW t, Waits(t, k), t.age = 0,
         transfers' = With(transfers, k, t)
  PROVE  TransfersOK' /\ AgesOK'
<1>1. DOMAIN transfers' = DOMAIN transfers \cup {k} /\ transfers'[k] = t
      /\ \A x \in DOMAIN transfers : x # k => transfers'[x] = transfers[x]
  BY DEF With
<1>2. TransfersOK'
  BY <1>1 DEF IInv, TransfersOK, Waits, SentFor
<1>3. AgesOK'
  BY <1>1, TransferAssumption DEF IInv, AgesOK, NothingLingers
<1> QED
  BY <1>2, <1>3

LEMMA Removed ==
  ASSUME IInv, UNCHANGED upload, NEW K, transfers' = Without(transfers, K)
  PROVE  TransfersOK' /\ (UNCHANGED slept => AgesOK')
<1>1. DOMAIN transfers' = DOMAIN transfers \ K
      /\ \A x \in DOMAIN transfers \ K : transfers'[x] = transfers[x]
  BY WithoutMap
<1>2. TransfersOK'
  BY <1>1 DEF IInv, TransfersOK, Waits, SentFor
<1>3. UNCHANGED slept => AgesOK'
  BY <1>1 DEF IInv, AgesOK, NothingLingers
<1> QED
  BY <1>2, <1>3

\* What is complete is moved out of the map.
LEMMA Completed ==
  ASSUME UNCHANGED upload, NEW path \in Key, NEW t \in State, SentFor(t, path),
         0 \in DOMAIN t.pieces, completed' = {[path |-> path, state |-> t]}
  PROVE  CompletedOK'
<1> DEFINE c == [path |-> path, state |-> t]
<1>1. Cardinality({c}) = 1
  BY FS_Singleton
<1>2. SentFor(t, path)'
  BY DEF SentFor
<1>3. \A d \in completed' : d = c
  OBVIOUS
<1> QED
  BY <1>1, <1>2, <1>3 DEF CompletedOK

------------------------------------------------------------------------------
LEMMA FirstFragmentStep ==
  ASSUME IInv, NEW a \in App, FirstFragment(a)
  PROVE  IInv'
<1> DEFINE u == upload[a]
           state == [total |-> u.total, author |-> a, sum |-> u.sum, age |-> 0,
                     pieces |-> [f \in {0} |-> a]]
<1>1. Receive(a, 0)
  BY DEF FirstFragment
<1>2. /\ UNCHANGED <<upload, disk, file, slept, sent>>
      /\ delivered' \in [App -> Nat] /\ \A b \in App : delivered'[b] <= sent[b]
  BY <1>1, Delivered
<1>3. /\ state \in State /\ SentFor(state, Path(u)) /\ Path(u) \in Key
      /\ DOMAIN state.pieces = {0} /\ Cardinality(DOMAIN state.pieces) = 1
  BY FirstState DEF IInv
<1>4. Chosen' /\ FilesOK'
  BY <1>2, Untouched DEF IInv, Chosen
<1>5. CASE u.total = 1
  <2>1. /\ completed' = {[path |-> Path(u), state |-> state]}
        /\ UNCHANGED <<transfers, app>>
    BY <1>5 DEF FirstFragment
  <2>2. CompletedOK'
    BY <1>2, <1>3, <2>1, Completed
  <2>3. AppsOK'
    BY <1>2, <2>1 DEF IInv, AppsOK
  <2> QED
    BY <1>2, <1>4, <2>1, <2>2, <2>3, Untouched DEF IInv
<1>6. CASE u.total # 1
  <2>1. /\ transfers' = With(transfers, MakeTransferKey(u), state)
        /\ SendAck(u.type, 0, TRUE)
        /\ UNCHANGED completed
    BY <1>6 DEF FirstFragment
  <2>2. Waits(state, Path(u)) /\ state.age = 0 /\ MakeTransferKey(u) = Path(u)
    BY <1>3, <1>6 DEF Waits, Path, MakeTransferKey
  <2>3. TransfersOK' /\ AgesOK'
    BY <1>2, <1>3, <2>1, <2>2, Entered
  <2>4. AppsOK'
    BY <1>2, <2>1, AnswerKeepsApps DEF IInv
  <2> QED
    BY <1>2, <1>4, <2>1, <2>3, <2>4, Untouched DEF IInv
<1> QED
  BY <1>5, <1>6

LEMMA RefuseFragmentStep ==
  ASSUME IInv, NEW a \in App, NEW frag, RefuseFragment(a, frag)
  PROVE  IInv'
<1>1. /\ Receive(a, frag) /\ SendAck(upload[a].type, frag, FALSE) /\ UNCHANGED completed
      /\ transfers' = Without(transfers, {MakeTransferKey(upload[a])})
  BY DEF RefuseFragment
<1>2. /\ UNCHANGED <<upload, disk, file, slept, sent>>
      /\ delivered' \in [App -> Nat] /\ \A b \in App : delivered'[b] <= sent[b]
  BY <1>1, Delivered
<1>3. AppsOK'
  BY <1>1, <1>2, AnswerKeepsApps DEF IInv
<1>4. TransfersOK' /\ AgesOK'
  BY <1>1, <1>2, Removed
<1> QED
  BY <1>1, <1>2, <1>3, <1>4, Untouched DEF IInv, Chosen

LEMMA StoreFragmentStep ==
  ASSUME IInv, NEW a \in App, NEW frag \in Nat, StoreFragment(a, frag)
  PROVE  IInv'
<1> DEFINE u == upload[a]
           k == MakeTransferKey(u)
           t == Stored(transfers[k], a, frag)
<1>1. Receive(a, frag) /\ k \in DOMAIN transfers /\ SendAck(u.type, frag, TRUE)
  BY DEF StoreFragment
<1>2. /\ UNCHANGED <<upload, disk, file, slept, sent>>
      /\ delivered' \in [App -> Nat] /\ \A b \in App : delivered'[b] <= sent[b]
  BY <1>1, Delivered
<1>3. AppsOK'
  BY <1>1, <1>2, AnswerKeepsApps DEF IInv
<1>4. k \in Key /\ k = Path(u) /\ Waits(transfers[k], k)
  BY <1>1 DEF IInv, TransfersOK, MakeTransferKey, Path
<1>5. t \in State /\ SentFor(t, k) /\ 0 \in DOMAIN t.pieces /\ t.age = 0
  BY <1>4, NextState DEF IInv, Waits
<1>6. CASE IsComplete(t)
  <2>1. /\ transfers' = Without(transfers, {k})
        /\ completed' = {[path |-> Path(u), state |-> t]}
    BY <1>6 DEF StoreFragment
  <2>2. CompletedOK'
    BY <1>2, <1>4, <1>5, <2>1, Completed
  <2>3. TransfersOK' /\ AgesOK'
    BY <1>2, <2>1, Removed
  <2> QED
    BY <1>2, <1>3, <2>2, <2>3, Untouched DEF IInv, Chosen
<1>7. CASE ~IsComplete(t)
  <2>1. transfers' = With(transfers, k, t) /\ UNCHANGED completed
    BY <1>7 DEF StoreFragment
  <2>2. Waits(t, k)
    BY <1>5, <1>7 DEF Waits, IsComplete
  <2>3. TransfersOK' /\ AgesOK'
    BY <1>2, <1>4, <1>5, <2>1, <2>2, Entered
  <2> QED
    BY <1>2, <1>3, <2>1, <2>3, Untouched DEF IInv, Chosen
<1> QED
  BY <1>6, <1>7

LEMMA TotalIsNat == ASSUME NEW t \in State PROVE t.total \in Nat
<1>1. t.total \in Total
  BY DEF State
<1>2. Total \subseteq Nat
  BY TransferAssumption
<1> QED
  BY <1>1, <1>2

\* A file that is written has fragments of the state that was completed, and all of
\* them where the disk takes files.
LEMMA SavedFile ==
  ASSUME IInv, UNCHANGED <<upload, disk>>, NEW path \in Key, NEW t \in State,
         SentFor(t, path), Reassembles(t), ChecksumFits(t), NEW n \in 0..t.total,
         disk = "good" => n = t.total, file' = With(file, path, Content(t, n))
  PROVE  FilesOK'
<1> DEFINE s == Content(t, n)
<1>0. t.total \in Nat /\ n \in Nat /\ n <= t.total
  <2>1. t.total \in Nat
    BY TotalIsNat
  <2> QED
    BY <2>1
<1>1. DOMAIN file' = DOMAIN file \cup {path} /\ file'[path] = s
      /\ \A x \in DOMAIN file : x # path => file'[x] = file[x]
  BY DEF With
<1>2. /\ s.total = t.total /\ s.author = t.author /\ s.sum = t.sum
      /\ DOMAIN s.pieces = 0..(n - 1)
      /\ \A f \in DOMAIN s.pieces : /\ s.pieces[f] = t.pieces[f]
                                    /\ f \in 0..(t.total - 1) /\ f \in DOMAIN t.pieces
  <2>1. 0..(n - 1) \subseteq 0..(t.total - 1)
    BY <1>0
  <2> QED
    BY <2>1 DEF Content, Reassembles
<1>3. /\ \A f \in DOMAIN s.pieces : Path(upload[s.pieces[f]]) = path
      /\ s.sum # "wrong"
      /\ s.sum = "right" => /\ s.total = upload[s.author].total
                            /\ \A f \in DOMAIN s.pieces : s.pieces[f] = s.author
      /\ disk = "good" => DOMAIN s.pieces = 0..(s.total - 1)
  BY <1>2 DEF SentFor, ChecksumFits, IsWhole
<1> HIDE DEF s
<1>4. \A x \in DOMAIN file : x \in Key /\ Path(upload)' = Path(upload)
  BY DEF IInv, FilesOK, Path
<1> QED
  BY <1>1, <1>3, <1>4 DEF IInv, FilesOK, SavedIsWhole, Path

LEMMA TryCompleteStep ==
  ASSUME IInv, NEW c \in completed, TryComplete(c)
  PROVE  IInv'
<1>1. completed' = {} /\ UNCHANGED <<upload, disk, transfers, slept, sent, delivered>>
  BY DEF TryComplete
<1>2. c.path \in Key /\ c.state \in State /\ SentFor(c.state, c.path)
  BY DEF IInv, CompletedOK
<1>3. CompletedOK'
  BY <1>1, FS_EmptySet DEF CompletedOK
<1>4. \E type, frag, ok : SendAck(type, frag, ok)
  BY DEF TryComplete, Written
<1>5. AppsOK'
  <2>1. delivered' \in [App -> Nat] /\ \A b \in App : delivered'[b] <= sent[b]
    BY <1>1 DEF IInv, AppsOK
  <2> QED
    BY <1>1, <1>4, <2>1, AnswerKeepsApps DEF IInv
<1>6. FilesOK'
  <2>1. CASE UNCHANGED file
    BY <1>1, <2>1, Untouched DEF IInv
  <2>2. ASSUME Reassembles(c.state), ChecksumFits(c.state), NEW n \in 0..c.state.total,
               disk = "good" => n = c.state.total,
               file' = With(file, c.path, Content(c.state, n))
        PROVE  FilesOK'
    BY <1>1, <1>2, <2>2, SavedFile
  <2>3. c.state.total \in 0..c.state.total
    <3>1. c.state.total \in Nat
      BY <1>2, TotalIsNat
    <3> QED
      BY <3>1
  <2> QED
    BY <2>1, <2>2, <2>3 DEF TryComplete, Written
<1> QED
  BY <1>1, <1>3, <1>5, <1>6, Untouched DEF IInv, Chosen

LEMMA CleanupStep ==
  ASSUME IInv, Cleanup
  PROVE  IInv'
<1> DEFINE old == {k \in DOMAIN transfers : transfers[k].age > Timeout}
<1>1. transfers' = Without(transfers, old) /\ slept' = 0
      /\ UNCHANGED <<upload, disk, completed, file, sent, delivered, app>>
  BY DEF Cleanup, apps
<1>2. TransfersOK'
  BY <1>1, Removed
<1>3. DOMAIN transfers' = DOMAIN transfers \ old
      /\ \A x \in DOMAIN transfers \ old : transfers'[x] = transfers[x]
  BY <1>1, WithoutMap
<1>4. \A x \in DOMAIN transfers : transfers[x].age \in Int
  BY DEF IInv, TransfersOK, Waits, State
<1>5. ASSUME NEW x \in DOMAIN transfers' PROVE transfers'[x].age <= Timeout + slept'
  <2>1. x \in DOMAIN transfers /\ ~(transfers[x].age > Timeout) /\ transfers'[x] = transfers[x]
    BY <1>3
  <2> QED
    BY <1>1, <1>4, <2>1, TransferAssumption
<1>6. AgesOK'
  BY <1>1, <1>5, TransferAssumption DEF AgesOK, NothingLingers
<1> QED
  BY <1>1, <1>2, <1>6, Untouched DEF IInv, Chosen

LEMMA TickStep ==
  ASSUME IInv, Tick
  PROVE  IInv'
<1>1. /\ slept < Period /\ slept' = slept + 1
      /\ UNCHANGED <<upload, disk, completed, file, sent, delivered, app>>
  BY DEF Tick, apps
<1>2. DOMAIN transfers' = DOMAIN transfers
  BY DEF Tick
<1>3. ASSUME NEW k \in DOMAIN transfers
      PROVE  Waits(transfers'[k], k) /\ transfers'[k].age <= Timeout + slept'
  <2>1. Waits(transfers[k], k) /\ transfers[k].age <= Timeout + slept /\ slept \in 0..Period
    BY DEF IInv, TransfersOK, AgesOK, NothingLingers
  <2>2. transfers[k] \in State /\ transfers[k].age \in 0..Longest
    BY <2>1 DEF Waits, State
  <2>3. transfers'[k] = [transfers[k] EXCEPT !.age = IF @ = Longest THEN @ ELSE @ + 1]
    BY DEF Tick
  <2>4. transfers'[k].age = IF transfers[k].age = Longest THEN Longest ELSE transfers[k].age + 1
    BY <2>2, <2>3 DEF State
  <2>5. transfers'[k].age \in 0..Longest /\ transfers'[k].age <= Timeout + slept'
    BY <1>1, <2>1, <2>2, <2>4, TransferAssumption DEF Longest
  <2>6. /\ transfers'[k] \in State
        /\ transfers'[k].pieces = transfers[k].pieces /\ transfers'[k].total = transfers[k].total
    BY <2>2, <2>3, <2>5 DEF State
  <2> QED
    BY <2>1, <2>5, <2>6 DEF Waits, SentFor
<1>4. TransfersOK'
  BY <1>1, <1>2, <1>3 DEF IInv, TransfersOK, Waits, SentFor
<1>5. AgesOK'
  BY <1>1, <1>2, <1>3, TransferAssumption DEF IInv, AgesOK, NothingLingers
<1> QED
  BY <1>1, <1>4, <1>5, Untouched DEF IInv, Chosen

LEMMA RestartStep ==
  ASSUME IInv, Restart
  PROVE  IInv'
<1>1. transfers' = <<>> /\ slept' = 0 /\ DOMAIN transfers' = {}
      /\ UNCHANGED <<upload, disk, completed, file, sent, delivered, app>>
  BY DEF Restart, apps
<1>2. TransfersOK' /\ AgesOK'
  BY <1>1, TransferAssumption DEF TransfersOK, AgesOK, NothingLingers
<1> QED
  BY <1>1, <1>2, Untouched DEF IInv, Chosen

LEMMA StepIInv == IInv /\ [Next]_vars => IInv'
<1> SUFFICES ASSUME IInv, [Next]_vars PROVE IInv'
  OBVIOUS
<1>1. ASSUME NEW a \in App,
             \/ SendFragment(a) \/ StartOver(a)
             \/ \E from \in 0..(delivered[a] - 1) : Redeliver(a, from)
      PROVE  IInv'
  BY <1>1, AppStep
<1>2. ASSUME NEW a \in App, FirstFragment(a) PROVE IInv'
  BY <1>2, FirstFragmentStep
<1>3. ASSUME NEW a \in App, NEW frag \in 1..(upload[a].total - 1), RefuseFragment(a, frag)
      PROVE  IInv'
  BY <1>3, RefuseFragmentStep
<1>4. ASSUME NEW a \in App, NEW frag \in 1..(upload[a].total - 1), StoreFragment(a, frag)
      PROVE  IInv'
  <2>1. frag \in Nat
    BY TransferAssumption DEF IInv, Chosen, Upload
  <2> QED
    BY <1>4, <2>1, StoreFragmentStep
<1>5. ASSUME NEW c \in completed, TryComplete(c) PROVE IInv'
  BY <1>5, TryCompleteStep
<1>6. CASE UNCHANGED vars
  BY <1>6, Untouched DEF vars, apps, IInv, Chosen
<1> QED
  BY <1>1, <1>2, <1>3, <1>4, <1>5, <1>6, CleanupStep, TickStep, RestartStep DEF Next

------------------------------------------------------------------------------
\* The fragments 0 to m of a's file, and nothing else.
Lone(t, a, m) ==
    /\ t.total = upload[a].total /\ t.author = a /\ t.sum = upload[a].sum
    /\ DOMAIN t.pieces = 0..m
    /\ \A f \in 0..m : t.pieces[f] = a

\* The file of an app that uploads alone: what waits is a beginning of it that
\* reaches to what is delivered next, what is completed is all of it, and when the
\* app is done it is completed or saved.
LoneWaits(a) ==
    \A k \in DOMAIN transfers : k = Path(upload[a]) =>
       \E m \in 0..(upload[a].total - 2) : Lone(transfers[k], a, m) /\ delivered[a] <= m + 1

LoneCompleted(a) ==
    \A c \in completed : c.path = Path(upload[a]) => Lone(c.state, a, upload[a].total - 1)

Kept(a) == Path(upload[a]) \in DOMAIN file /\ IsWhole(file[Path(upload[a])], a)

LoneDone(a) ==
    app[a] = "done" /\ disk = "good" /\ upload[a].sum # "wrong" =>
       Kept(a) \/ \E c \in completed : c.path = Path(upload[a])

LoneOK(a) == LoneWaits(a) /\ LoneCompleted(a) /\ LoneDone(a)

LoneInv == \A a \in App : Alone(a) => LoneOK(a)

\* One more fragment of the beginning of a file, or one of it again.
LEMMA OneMore ==
  ASSUME NEW a \in App, NEW t \in State, NEW m \in Nat, Lone(t, a, m), NEW f \in 0..(m + 1)
  PROVE  Lone(Stored(t, a, f), a, IF f = m + 1 THEN m + 1 ELSE m)
<1> DEFINE s == Stored(t, a, f)
<1>1. /\ s.total = upload[a].total /\ s.author = a /\ s.sum = upload[a].sum
      /\ s.pieces = With(t.pieces, f, a)
  BY DEF State, Stored, Lone
<1>2. DOMAIN s.pieces = 0..m \cup {f} /\ \A g \in 0..m \cup {f} : s.pieces[g] = a
  BY <1>1 DEF With, Lone
<1>3. 0..m \cup {f} = 0..(IF f = m + 1 THEN m + 1 ELSE m)
  OBVIOUS
<1> QED
  BY <1>1, <1>2, <1>3 DEF Lone

LEMMA WhenComplete ==
  ASSUME NEW a \in App, NEW t, NEW m \in Nat, Lone(t, a, m)
  PROVE  IsComplete(t) <=> m + 1 = upload[a].total
<1>1. Cardinality(0..m) = m + 1
  BY FS_Interval
<1> QED
  BY <1>1 DEF Lone, IsComplete

\* Only an ok for the last fragment makes an app believe it is done.
LEMMA HowDone ==
  ASSUME AppsOK, NEW a \in App, NEW type, NEW frag, NEW ok, SendAck(type, frag, ok),
         app'[a] = "done", app[a] # "done"
  PROVE  ok /\ upload[a].type = type /\ frag = sent[a] - 1 /\ sent[a] = upload[a].total
BY DEF AppsOK, SendAck, Told

\* An app that is alone shares no path and no topic.
LEMMA OthersApart ==
  ASSUME NEW a \in App, Alone(a), NEW b \in App, b # a
  PROVE  upload[b].type # upload[a].type /\ Path(upload[b]) # Path(upload[a])
BY DEF Alone, Path

\* Nothing but the map and the app's number of deliveries matters to what waits.
LEMMA LoneSame ==
  ASSUME NEW a \in App, LoneOK(a), UNCHANGED upload
  PROVE  /\ /\ Path(upload[a]) \in DOMAIN transfers' => Path(upload[a]) \in DOMAIN transfers
            /\ \A k \in DOMAIN transfers' : k = Path(upload[a]) => transfers'[k] = transfers[k]
            /\ delivered'[a] = delivered[a]
            => LoneWaits(a)'
         /\ UNCHANGED completed => LoneCompleted(a)'
         /\ UNCHANGED <<completed, file, disk>> /\ (app'[a] = "done" => app[a] = "done")
            => LoneDone(a)'
<1>1. \A t, m : Lone(t, a, m)' <=> Lone(t, a, m)
  BY DEF Lone
<1>2. ASSUME Path(upload[a]) \in DOMAIN transfers' => Path(upload[a]) \in DOMAIN transfers,
             \A k \in DOMAIN transfers' : k = Path(upload[a]) => transfers'[k] = transfers[k],
             delivered'[a] = delivered[a]
      PROVE  LoneWaits(a)'
  BY <1>2 DEF LoneOK, LoneWaits, Lone
<1>3. UNCHANGED completed => LoneCompleted(a)'
  BY DEF LoneOK, LoneCompleted, Lone
<1>4. UNCHANGED <<completed, file, disk>> /\ (app'[a] = "done" => app[a] = "done") => LoneDone(a)'
  BY DEF LoneOK, LoneDone, Kept, IsWhole
<1> QED
  BY <1>2, <1>3, <1>4

------------------------------------------------------------------------------
\* What a step does to an app that is alone.
LEMMA LoneApps ==
  ASSUME IInv, NEW a \in App, Alone(a), LoneOK(a), NEW b \in App,
         \/ SendFragment(b) \/ StartOver(b)
         \/ \E from \in 0..(delivered[b] - 1) : Redeliver(b, from)
  PROVE  LoneOK(a)'
<1>1. UNCHANGED <<upload, disk, transfers, completed, file>>
  BY DEF SendFragment, StartOver, Redeliver
<1>2. app'[a] = "done" => app[a] = "done"
  BY DEF IInv, AppsOK, SendFragment, StartOver, Redeliver
<1>3. LoneCompleted(a)' /\ LoneDone(a)'
  BY <1>1, <1>2, LoneSame
<1>4. delivered'[a] \in Nat /\ delivered[a] \in Nat /\ delivered'[a] <= delivered[a]
  BY DEF IInv, AppsOK, SendFragment, StartOver, Redeliver
<1>5. LoneWaits(a)'
  BY <1>1, <1>4 DEF LoneOK, LoneWaits, Lone
<1> QED
  BY <1>3, <1>5 DEF LoneOK

\* A fragment of another app.
LEMMA LoneOthers ==
  ASSUME IInv, NEW a \in App, Alone(a), LoneOK(a), NEW b \in App, b # a, NEW frag \in Nat,
         FirstFragment(b) \/ RefuseFragment(b, frag) \/ StoreFragment(b, frag)
  PROVE  LoneOK(a)'
<1> DEFINE k == Path(upload[a])
           l == Path(upload[b])
<1>1. l # k /\ upload[b].type # upload[a].type /\ l = MakeTransferKey(upload[b])
  BY OthersApart DEF Path, MakeTransferKey
<1>2. /\ UNCHANGED <<upload, disk, file>> /\ completed = {}
      /\ delivered'[a] = delivered[a]
  BY DEF IInv, AppsOK, FirstFragment, RefuseFragment, StoreFragment, Receive
<1>3. app'[a] = "done" => app[a] = "done"
  BY <1>1, HowDone DEF IInv, FirstFragment, RefuseFragment, StoreFragment
<1>4. \/ UNCHANGED transfers
      \/ \E t : transfers' = With(transfers, l, t)
      \/ transfers' = Without(transfers, {l})
  BY <1>1 DEF FirstFragment, RefuseFragment, StoreFragment
<1>5. /\ k \in DOMAIN transfers' => k \in DOMAIN transfers
      /\ \A x \in DOMAIN transfers' : x = k => transfers'[x] = transfers[x]
  <2>1. ASSUME NEW t, transfers' = With(transfers, l, t)
        PROVE  /\ DOMAIN transfers' = DOMAIN transfers \cup {l}
               /\ \A x \in DOMAIN transfers : x # l => transfers'[x] = transfers[x]
    BY <2>1 DEF With
  <2>2. ASSUME transfers' = Without(transfers, {l})
        PROVE  /\ DOMAIN transfers' = DOMAIN transfers \ {l}
               /\ \A x \in DOMAIN transfers' : transfers'[x] = transfers[x]
    BY <2>2 DEF Without
  <2> HIDE DEF k, l
  <2> QED
    BY <1>1, <1>4, <2>1, <2>2
<1>6. LoneWaits(a)'
  BY <1>2, <1>5, LoneSame
<1>7. \A c \in completed' : c.path = l
  <2>1. CASE FirstFragment(b)
    <3>1. completed' = {} \/ \E t : completed' = {[path |-> l, state |-> t]}
      BY <1>2, <2>1 DEF FirstFragment
    <3> QED
      BY <3>1
  <2>2. CASE RefuseFragment(b, frag)
    BY <1>2, <2>2 DEF RefuseFragment
  <2>3. CASE StoreFragment(b, frag)
    BY <1>2, <2>3 DEF StoreFragment
  <2> QED
    BY <2>1, <2>2, <2>3
<1>8. LoneCompleted(a)'
  BY <1>1, <1>2, <1>7 DEF LoneCompleted
<1>9. LoneDone(a)'
  BY <1>2, <1>3 DEF LoneOK, LoneDone, Kept, IsWhole
<1> QED
  BY <1>6, <1>8, <1>9 DEF LoneOK

LEMMA LoneFirst ==
  ASSUME IInv, NEW a \in App, LoneOK(a), FirstFragment(a)
  PROVE  LoneOK(a)'
<1> DEFINE u == upload[a]
           state == [total |-> u.total, author |-> a, sum |-> u.sum, age |-> 0,
                     pieces |-> [f \in {0} |-> a]]
<1>1. /\ UNCHANGED <<upload, disk, file, sent>> /\ completed = {}
      /\ delivered'[a] = 1
  BY DEF IInv, AppsOK, FirstFragment, Receive
<1>2. u.total \in Nat \ {0}
  BY TransferAssumption DEF IInv, Chosen, Upload
<1>3. Lone(state, a, 0)
  BY DEF Lone
<1>4. \A t, m : Lone(t, a, m)' <=> Lone(t, a, m)
  BY <1>1 DEF Lone
<1>5. CASE u.total = 1
  <2>1. completed' = {[path |-> Path(u), state |-> state]} /\ UNCHANGED <<transfers, app>>
    BY <1>5 DEF FirstFragment
  <2>2. LoneCompleted(a)'
    BY <1>1, <1>3, <1>4, <1>5, <2>1 DEF LoneCompleted
  <2>3. LoneDone(a)'
    BY <1>1, <2>1 DEF LoneDone
  <2>4. Path(u) \notin DOMAIN transfers
    BY <1>5 DEF LoneOK, LoneWaits
  <2>5. LoneWaits(a)'
    BY <1>1, <2>1, <2>4 DEF LoneWaits
  <2> QED
    BY <2>2, <2>3, <2>5 DEF LoneOK
<1>6. CASE u.total # 1
  <2>1. /\ transfers' = With(transfers, Path(u), state)
        /\ SendAck(u.type, 0, TRUE) /\ UNCHANGED completed
    BY <1>6 DEF FirstFragment, MakeTransferKey, Path
  <2>2. transfers'[Path(u)] = state
    BY <2>1 DEF With
  <2>3. LoneWaits(a)'
    BY <1>1, <1>2, <1>3, <1>4, <1>6, <2>2 DEF LoneWaits
  <2>4. app'[a] = "done" => app[a] = "done"
    <3>1. sent[a] \in Nat /\ AppsOK
      BY DEF IInv, AppsOK
    <3>2. ~(0 = sent[a] - 1 /\ sent[a] = u.total)
      BY <1>2, <1>6, <3>1
    <3> QED
      BY <2>1, <3>1, <3>2, HowDone
  <2> QED
    BY <1>1, <2>1, <2>3, <2>4, LoneSame DEF LoneOK
<1> QED
  BY <1>5, <1>6

LEMMA LoneRefuse ==
  ASSUME IInv, NEW a \in App, LoneOK(a), NEW frag, RefuseFragment(a, frag)
  PROVE  LoneOK(a)'
<1>1. /\ UNCHANGED <<upload, disk, file, completed>>
      /\ SendAck(upload[a].type, frag, FALSE)
      /\ transfers' = Without(transfers, {Path(upload[a])})
  BY DEF RefuseFragment, Receive, MakeTransferKey, Path
<1>2. app'[a] = "done" => app[a] = "done"
  BY <1>1, HowDone DEF IInv
<1>3. Path(upload[a]) \notin DOMAIN transfers'
  BY <1>1 DEF Without
<1>4. LoneWaits(a)'
  BY <1>1, <1>3 DEF LoneWaits
<1> QED
  BY <1>1, <1>2, <1>4, LoneSame DEF LoneOK

\* The next fragment of what waits, or an earlier one again: what is stored is
\* still a beginning of the file, and the last fragment completes it.
LEMMA LoneStore ==
  ASSUME IInv, NEW a \in App, LoneOK(a), NEW frag \in Nat, StoreFragment(a, frag)
  PROVE  LoneOK(a)'
<1> DEFINE u == upload[a]
           k == Path(u)
           t == transfers[k]
           s == Stored(t, a, frag)
<1>1. /\ UNCHANGED <<upload, disk, file, sent>> /\ completed = {}
      /\ frag = delivered[a] /\ delivered'[a] = frag + 1
  BY DEF IInv, AppsOK, StoreFragment, Receive
<1>2. k = MakeTransferKey(u) /\ k \in DOMAIN transfers /\ SendAck(u.type, frag, TRUE)
  BY DEF StoreFragment, MakeTransferKey, Path
<1>3. PICK m \in 0..(u.total - 2) : Lone(t, a, m) /\ delivered[a] <= m + 1
  BY <1>2 DEF LoneOK, LoneWaits
<1>4. u.total \in Nat /\ m \in Nat /\ t \in State
  <2>1. u.total \in Nat
    BY TransferAssumption DEF IInv, Chosen, Upload
  <2>2. t \in State
    BY <1>2 DEF IInv, TransfersOK, Waits
  <2> QED
    BY <1>3, <2>1, <2>2
<1> DEFINE n == IF frag = m + 1 THEN m + 1 ELSE m
<1>5. frag \in 0..(m + 1) /\ n \in Nat /\ frag + 1 <= n + 1
  BY <1>1, <1>3, <1>4
<1>6. Lone(s, a, n)
  <2>1. Lone(t, a, m)
    BY <1>3
  <2> HIDE DEF t
  <2> QED
    BY <1>4, <1>5, <2>1, OneMore
<1>7. IsComplete(s) <=> n + 1 = u.total
  BY <1>5, <1>6, WhenComplete
<1>8. \A r, i : Lone(r, a, i)' <=> Lone(r, a, i)
  BY <1>1 DEF Lone
<1>9. app'[a] = "done" /\ app[a] # "done" => IsComplete(s)
  <2>1. SUFFICES ASSUME app'[a] = "done", app[a] # "done" PROVE n + 1 = u.total
    BY <1>7
  <2>2. SendAck(upload[a].type, frag, TRUE)
    BY <1>2
  <2>3. AppsOK
    BY DEF IInv
  <2>4. frag = sent[a] - 1 /\ sent[a] = upload[a].total
    BY <2>1, <2>2, <2>3, HowDone
  <2> QED
    BY <1>3, <1>4, <1>5, <2>4
<1>10. CASE IsComplete(s)
  <2>1. /\ transfers' = Without(transfers, {k})
        /\ completed' = {[path |-> k, state |-> s]}
    BY <1>2, <1>10 DEF StoreFragment
  <2>2. LoneWaits(a)'
    BY <1>1, <2>1 DEF LoneWaits, Without
  <2>3. n = u.total - 1
    BY <1>4, <1>5, <1>7, <1>10
  <2>4. LoneCompleted(a)'
    BY <1>1, <1>6, <1>8, <2>1, <2>3 DEF LoneCompleted
  <2>5. LoneDone(a)'
    BY <1>1, <2>1 DEF LoneDone
  <2> QED
    BY <2>2, <2>4, <2>5 DEF LoneOK
<1>11. CASE ~IsComplete(s)
  <2>1. transfers' = With(transfers, k, s) /\ UNCHANGED completed
    BY <1>2, <1>11 DEF StoreFragment
  <2>2. transfers'[k] = s
    BY <2>1 DEF With
  <2>3. n \in 0..(u.total - 2)
    BY <1>3, <1>4, <1>5, <1>7, <1>11
  <2>4. delivered'[a] <= n + 1
    BY <1>1, <1>5
  <2>5. LoneWaits(a)'
    BY <1>1, <1>6, <1>8, <2>2, <2>3, <2>4 DEF LoneWaits
  <2>6. app'[a] = "done" => app[a] = "done"
    BY <1>9, <1>11
  <2> QED
    BY <1>1, <2>1, <2>5, <2>6, LoneSame DEF LoneOK
<1> QED
  BY <1>10, <1>11

\* What is completed for an app that is alone is its whole file, and is saved
\* unless its checksum is wrong or the disk bad.
LEMMA LoneTryComplete ==
  ASSUME IInv, NEW a \in App, Alone(a), LoneOK(a), NEW c \in completed, TryComplete(c)
  PROVE  LoneOK(a)'
<1> DEFINE k == Path(upload[a])
           t == c.state
<1>1. completed' = {} /\ UNCHANGED <<upload, disk, transfers, delivered, sent>>
  BY DEF TryComplete
<1>2. LoneWaits(a)' /\ LoneCompleted(a)'
  BY <1>1, LoneSame DEF LoneCompleted
<1>3. \A d \in completed : d = c
  BY DEF IInv, CompletedOK
<1>4. CASE c.path = k
  <2>1. upload[a].total \in Nat \ {0}
    BY TransferAssumption DEF IInv, Chosen, Upload
  <2>2. Lone(t, a, upload[a].total - 1)
    BY <1>4 DEF LoneOK, LoneCompleted
  <2>3. Reassembles(t) /\ IsWhole(t, a)
    BY <2>2 DEF Lone, Reassembles, IsWhole
  <2>4. SUFFICES ASSUME disk = "good", upload[a].sum # "wrong" PROVE Kept(a)'
    BY <1>1, <1>2 DEF LoneOK, LoneDone
  <2>5. ChecksumFits(t)
    <3>1. upload[a].sum \in {"right", "wrong", "none"}
      BY TransferAssumption DEF IInv, Chosen, Upload
    <3> QED
      BY <2>2, <2>3, <2>4, <3>1 DEF ChecksumFits, Lone
  <2>6. file' = With(file, k, Content(t, t.total))
    BY <1>4, <2>3, <2>4, <2>5 DEF TryComplete, Written
  <2>7. k \in DOMAIN file' /\ file'[k] = Content(t, t.total)
    BY <2>6 DEF With
  <2>8. IsWhole(Content(t, t.total), a)
    BY <2>3 DEF Content, IsWhole
  <2> QED
    BY <1>1, <2>7, <2>8 DEF Kept, IsWhole
<1>5. CASE c.path # k
  <2>1. c.path[1] # upload[a].type
    <3>1. 0 \in DOMAIN t.pieces /\ SentFor(t, c.path) /\ t \in State
      BY DEF IInv, CompletedOK
    <3>2. PICK b \in App : Path(upload[b]) = c.path
      <4>1. PICK D \in SUBSET Nat : t.pieces \in [D -> App]
        BY <3>1 DEF State, Pieces
      <4>2. t.pieces[0] \in App
        BY <3>1, <4>1
      <4> QED
        BY <3>1, <4>2 DEF SentFor
    <3>3. b # a
      BY <1>5, <3>2
    <3> QED
      BY <3>2, <3>3, OthersApart DEF Path
  <2>2. app'[a] = "done" => app[a] = "done"
    <3>1. \E frag, ok : SendAck(c.path[1], frag, ok)
      BY DEF TryComplete, Written
    <3> QED
      BY <2>1, <3>1, HowDone DEF IInv
  <2>3. \/ UNCHANGED file
        \/ \E s : file' = With(file, c.path, s)
    BY DEF TryComplete, Written
  <2>4. k \in DOMAIN file => k \in DOMAIN file' /\ file'[k] = file[k]
    <3>1. ASSUME NEW s, file' = With(file, c.path, s)
          PROVE  k \in DOMAIN file => k \in DOMAIN file' /\ file'[k] = file[k]
      BY <1>5, <3>1 DEF With
    <3> QED
      BY <2>3, <3>1
  <2>5. Kept(a) => Kept(a)'
    BY <1>1, <2>4 DEF Kept, IsWhole
  <2>6. ~\E d \in completed : d.path = k
    BY <1>3, <1>5
  <2>7. LoneDone(a)'
    BY <1>1, <2>2, <2>5, <2>6 DEF LoneOK, LoneDone
  <2> QED
    BY <1>2, <2>7 DEF LoneOK
<1> QED
  BY <1>4, <1>5

\* Aborted transfers, time and restarts touch no file and no app.
LEMMA LoneTime ==
  ASSUME IInv, NEW a \in App, LoneOK(a), Cleanup \/ Tick \/ Restart \/ UNCHANGED vars
  PROVE  LoneOK(a)'
<1>1. UNCHANGED <<upload, disk, completed, file, sent, delivered, app>>
  BY DEF Cleanup, Tick, Restart, vars, apps
<1>2. LoneCompleted(a)' /\ LoneDone(a)'
  BY <1>1, LoneSame
<1>3. ASSUME NEW k \in DOMAIN transfers'
      PROVE  /\ k \in DOMAIN transfers
             /\ transfers'[k].total = transfers[k].total /\ transfers'[k].author = transfers[k].author
             /\ transfers'[k].sum = transfers[k].sum /\ transfers'[k].pieces = transfers[k].pieces
  <2>1. \A x \in DOMAIN transfers : transfers[x] \in State
    BY DEF IInv, TransfersOK, Waits
  <2>2. CASE Cleanup
    BY <2>2 DEF Cleanup, Without
  <2>3. CASE Tick
    BY <2>1, <2>3 DEF Tick, State
  <2>4. CASE Restart
    BY <2>4 DEF Restart
  <2>5. CASE UNCHANGED vars
    BY <2>5 DEF vars
  <2> QED
    BY <2>2, <2>3, <2>4, <2>5
<1>4. LoneWaits(a)'
  BY <1>1, <1>3 DEF LoneOK, LoneWaits, Lone
<1> QED
  BY <1>2, <1>4 DEF LoneOK

LEMMA InitLone == Init => LoneInv
BY DEF Init, LoneInv, LoneOK, LoneWaits, LoneCompleted, LoneDone

LEMMA StepLone == IInv /\ LoneInv /\ [Next]_vars => LoneInv'
<1> SUFFICES ASSUME IInv, LoneInv, [Next]_vars, NEW a \in App, Alone(a)' PROVE LoneOK(a)'
  BY DEF LoneInv
<1>1. UNCHANGED upload
  BY DEF Next, vars, SendFragment, StartOver, Redeliver, FirstFragment, RefuseFragment,
     StoreFragment, Receive, TryComplete, Cleanup, Tick, Restart
<1>2. Alone(a) /\ LoneOK(a)
  BY <1>1 DEF Alone, LoneInv
<1>3. ASSUME NEW b \in App, NEW frag \in Nat,
             FirstFragment(b) \/ RefuseFragment(b, frag) \/ StoreFragment(b, frag)
      PROVE  LoneOK(a)'
  BY <1>2, <1>3, LoneFirst, LoneRefuse, LoneStore, LoneOthers
<1>4. ASSUME NEW b \in App,
             \/ FirstFragment(b)
             \/ \E frag \in 1..(upload[b].total - 1) : RefuseFragment(b, frag) \/ StoreFragment(b, frag)
      PROVE  LoneOK(a)'
  <2>1. \A frag \in 1..(upload[b].total - 1) : frag \in Nat
    BY TransferAssumption DEF IInv, Chosen, Upload
  <2> QED
    BY <1>3, <1>4, <2>1
<1> QED
  BY <1>2, <1>4, LoneApps, LoneTryComplete, LoneTime DEF Next

------------------------------------------------------------------------------
\* The map, the transfer that is being completed and the apps have their types; in
\* particular a transfer that is complete never waits in the map
\* (HandleFragment, CleanupLoop).
THEOREM TypeCorrect == Spec => []TypeOK
<1>1. Spec => []IInv
  BY InitIInv, StepIInv, PTL DEF Spec
<1> QED
  BY <1>1, IInvImpliesType, PTL

\* However many apps upload at once, under whichever names, and whatever is
\* delivered again or aborted: what is saved under a checksum is one app's file, all
\* of it on a disk that takes files and a beginning of it where a write or close()
\* fails (HandleFragment, TryComplete).
THEOREM SavedWhole == Spec => []SavedIsWhole
<1>1. Spec => []IInv
  BY InitIInv, StepIInv, PTL DEF Spec
<1>2. IInv => SavedIsWhole
  BY DEF IInv, FilesOK
<1> QED
  BY <1>1, <1>2, PTL

\* No transfer outlives the timeout and one period of the cleanup thread
\* (CleanupLoop), for every timeout and every period.
THEOREM NoneLingers == Spec => []NothingLingers
<1>1. Spec => []IInv
  BY InitIInv, StepIInv, PTL DEF Spec
<1>2. IInv => NothingLingers
  BY DEF IInv, AgesOK
<1> QED
  BY <1>1, <1>2, PTL

\* An app that uploads alone can trust the ok for its last fragment, whatever is
\* delivered late or again and wherever the program was restarted, for every number
\* of fragments (HandleFragment, TryComplete, CleanupLoop).
THEOREM LastOkHolds == Spec => []LastOkIsTrue
<1>1. Spec => [](IInv /\ LoneInv)
  BY InitIInv, StepIInv, InitLone, StepLone, PTL DEF Spec
<1>2. LoneInv => LastOkIsTrue
  BY DEF LoneInv, LoneOK, LoneDone, Kept, LastOkIsTrue
<1> QED
  BY <1>1, <1>2, PTL
==============================================================================
