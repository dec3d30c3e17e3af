----------------------------- MODULE FileTransfer -----------------------------
(***************************************************************************)
(* AppManager's file upload: apps send a face or voice file in fragments   *)
(* over MQTT, the hub collects them in transfers_, answers each one,       *)
(* checks the checksum of the whole and saves it; a cleanup thread aborts  *)
(* transfers that have gone silent.                                        *)
(*                                                                         *)
(* The apps and the broker are the environment.  An app sends its next     *)
(* fragment when the previous one was answered with ok, and may start over *)
(* at any time.  MQTT delivers its fragments in order, and after a         *)
(* reconnection may deliver again from an earlier one on (QoS 1); answers  *)
(* may be lost.  An answer names a fragment number and not a file, and     *)
(* everybody who uploads a file of the same type reads it.                 *)
(*                                                                         *)
(* Left out: payloads that do not parse and names that are refused, which  *)
(* change nothing; base64; and the answer of the cleanup thread, whose     *)
(* fragment number is -1.                                                  *)
(***************************************************************************)
EXTENDS Integers, FiniteSets

CONSTANTS App,      \* the apps, one upload each
          Type,     \* face and voice
          Name,     \* file names, after SanitizeFileName
          Total,    \* how many fragments a file may have
          Sum,      \* what an app may give as checksum: "right", "wrong", "none"
          Disk,     \* whether files can be written: "good", "bad"
          Timeout,  \* a transfer silent for longer than this is aborted (2 s)
          Period    \* the cleanup thread sleeps this long (1 s)

ASSUME TransferAssumption == /\ Total \subseteq Nat \ {0}
                             /\ Sum \subseteq {"right", "wrong", "none"}
                             /\ Disk \subseteq {"good", "bad"}
                             /\ Timeout \in Nat
                             /\ Period \in Nat

VARIABLES upload,     \* what each app uploads (chosen at the start)
          disk,       \* whether the disk takes files (chosen at the start)
          transfers,  \* transfers_: key -> state of the transfer
          completed,  \* completed_state, when should_complete, as a set
          file,       \* path -> the file in the file system
          slept,      \* how long the cleanup thread has slept
          sent,       \* how many fragments an app has sent
          delivered,  \* how many of them the broker has delivered
          app         \* what an app knows

apps == <<sent, delivered, app>>
vars == <<upload, disk, transfers, completed, file, slept, apps>>

Key == Type \X Name
Longest == Timeout + Period + 1  \* bound: ages are not told apart beyond this

Upload == [type : Type, name : Name, total : Total, sum : Sum]

\* MakeFileDir and the name: where an upload is saved.
Path(u) == <<u.type, u.name>>

\* Slip: the type is left out of the key.
KeyByName(u) == <<CHOOSE t \in Type : TRUE, u.name>>

MakeTransferKey(u) == <<u.type, u.name>>

\* The map holds transfers that wait for a fragment: what is complete has been
\* moved out of it.  At most one transfer is being completed, and the cleanup
\* thread does not sleep longer than its period.
TypeOK ==
    /\ upload \in [App -> Upload]
    /\ disk \in Disk
    /\ DOMAIN transfers \subseteq Key
    /\ \A k \in DOMAIN transfers :
          LET t == transfers[k]
          IN  /\ t.total \in Total /\ t.author \in App /\ t.sum \in Sum
              /\ t.age \in 0..Longest
              /\ 0 \in DOMAIN t.pieces
              /\ \A f \in DOMAIN t.pieces : t.pieces[f] \in App
              /\ Cardinality(DOMAIN t.pieces) # t.total
    /\ Cardinality(completed) <= 1
    /\ DOMAIN file \subseteq Key
    /\ slept \in 0..Period
    /\ \A a \in App : /\ sent[a] \in 0..upload[a].total
                      /\ delivered[a] \in 0..sent[a]
    /\ app \in [App -> {"ready", "waiting", "done", "refused"}]

Init ==
    /\ upload \in [App -> Upload]
    /\ disk \in Disk
    /\ transfers = <<>>
    /\ completed = {}
    /\ file = <<>>
    /\ slept = 0
    /\ sent = [a \in App |-> 0]
    /\ delivered = [a \in App |-> 0]
    /\ app = [a \in App |-> "ready"]

\* A map with one more (or another) entry, and with fewer.
With(map, k, v)  == [x \in DOMAIN map \cup {k} |-> IF x = k THEN v ELSE map[x]]
Without(map, K) == [x \in DOMAIN map \ K |-> map[x]]

------------------------------------------------------------------------------
(* The apps and the broker.                                                *)

\* An app that is told ok sends its next fragment or believes it is done.
Told(a, ok) ==
    IF ~ok THEN "refused"
    ELSE IF sent[a] = upload[a].total THEN "done" ELSE "ready"

\* SendAck: all apps that wait for this fragment number on this topic read it,
\* or it is lost.
SendAck(type, frag, ok) ==
    \/ app' = [a \in App |->
                 IF app[a] = "waiting" /\ upload[a].type = type /\ frag = sent[a] - 1
                 THEN Told(a, ok) ELSE app[a]]
    \/ UNCHANGED app

SendFragment(a) ==
    /\ app[a] = "ready"
    /\ sent' = [sent EXCEPT ![a] = @ + 1]
    /\ app' = [app EXCEPT ![a] = "waiting"]
    /\ UNCHANGED <<upload, disk, transfers, completed, file, slept, delivered>>

StartOver(a) ==
    /\ sent' = [sent EXCEPT ![a] = 0]
    /\ delivered' = [delivered EXCEPT ![a] = 0]
    /\ app' = [app EXCEPT ![a] = "ready"]
    /\ UNCHANGED <<upload, disk, transfers, completed, file, slept>>

Redeliver(a, from) ==
    /\ delivered' = [delivered EXCEPT ![a] = from]
    /\ UNCHANGED <<upload, disk, transfers, completed, file, slept, sent, app>>

------------------------------------------------------------------------------
(* The MQTT loop thread: HandleFragment.                                   *)

\* The broker delivers fragment number frag of app a, and the hub handles it.
Receive(a, frag) ==
    /\ completed = {}
    /\ delivered[a] < sent[a]
    /\ frag = delivered[a]
    /\ delivered' = [delivered EXCEPT ![a] = @ + 1]
    /\ UNCHANGED <<upload, disk, file, slept, sent>>

\* Fragment 0 makes a new state, whatever was there; a single fragment is
\* completed without an answer of its own.
FirstFragment(a) ==
    LET u == upload[a]
        state == [total |-> u.total, author |-> a, sum |-> u.sum, age |-> 0,
                  pieces |-> [f \in {0} |-> a]]
    IN  /\ Receive(a, 0)
        /\ \/ /\ u.total = 1
              /\ completed' = {[path |-> Path(u), state |-> state]}
              /\ UNCHANGED <<transfers, app>>
           \/ /\ u.total # 1
              /\ transfers' = With(transfers, MakeTransferKey(u), state)
              /\ SendAck(u.type, 0, TRUE)
              /\ UNCHANGED completed

\* A later fragment of no transfer, or of one that has been silent too long.
RefuseFragment(a, frag) ==
    LET k == MakeTransferKey(upload[a])
    IN  /\ frag # 0
        /\ Receive(a, frag)
        /\ k \in DOMAIN transfers => transfers[k].age > Timeout
        /\ transfers' = Without(transfers, {k})
        /\ SendAck(upload[a].type, frag, FALSE)
        /\ UNCHANGED completed

\* The state with one more fragment: the declared total is the latest, the
\* checksum the first that was given.
Stored(t, a, frag) ==
    [t EXCEPT !.total  = upload[a].total,
              !.author = IF t.sum = "none" THEN a ELSE @,
              !.sum    = IF @ = "none" THEN upload[a].sum ELSE @,
              !.age    = 0,
              !.pieces = With(@, frag, a)]

IsComplete(t) == Cardinality(DOMAIN t.pieces) = t.total

\* Slip: the state stays in the map when it is completed.
StoreAndKeep(a, frag) ==
    LET u == upload[a]
        k == MakeTransferKey(u)
        t == Stored(transfers[k], a, frag)
    IN  /\ frag # 0
        /\ Receive(a, frag)
        /\ k \in DOMAIN transfers
        /\ transfers[k].age <= Timeout
        /\ SendAck(u.type, frag, TRUE)
        /\ transfers' = With(transfers, k, t)
        /\ completed' = IF IsComplete(t)
                        THEN {[path |-> Path(u), state |-> t]} ELSE {}

StoreFragment(a, frag) ==
    LET u == upload[a]
        k == MakeTransferKey(u)
        t == Stored(transfers[k], a, frag)
    IN  /\ frag # 0
        /\ Receive(a, frag)
        /\ k \in DOMAIN transfers
        /\ transfers[k].age <= Timeout
        /\ SendAck(u.type, frag, TRUE)
        /\ \/ /\ IsComplete(t)
              /\ transfers' = Without(transfers, {k})
              /\ completed' = {[path |-> Path(u), state |-> t]}
           \/ /\ ~IsComplete(t)
              /\ transfers' = With(transfers, k, t)
              /\ UNCHANGED completed

------------------------------------------------------------------------------
(* The MQTT loop thread: TryComplete.                                      *)

\* The fragments 0 to total - 1 are the whole of app a's file.
IsWhole(t, a) ==
    /\ t.total = upload[a].total
    /\ \A f \in 0..(t.total - 1) : f \in DOMAIN t.pieces /\ t.pieces[f] = a

\* Slip: the checksum is looked at only for its presence.
ChecksumUnread(t) == t.sum \in {"none", "right", "wrong"}

ChecksumFits(t) == t.sum = "none" \/ (t.sum = "right" /\ IsWhole(t, t.author))

Reassembles(t) == 0..(t.total - 1) \subseteq DOMAIN t.pieces

\* What is saved: the first n fragments, and the checksum they are saved under.
Content(t, n) == [total |-> t.total, author |-> t.author, sum |-> t.sum,
                  pieces |-> [f \in 0..(n - 1) |-> t.pieces[f]]]

\* What the disk does with the file, and whether the app is told ok.  A file that
\* cannot be opened is left as it was.  One that is opened is emptied and then holds
\* what is written before the disk fails, and it stays under its name; a failure
\* that only close() would find out is answered with ok.
Written(path, t) ==
    \/ /\ disk = "good"
       /\ file' = With(file, path, Content(t, t.total))
       /\ SendAck(path[1], t.total - 1, TRUE)
    \/ /\ disk = "bad"
       /\ UNCHANGED file
       /\ SendAck(path[1], t.total - 1, FALSE)
    \/ /\ disk = "bad"
       /\ \E n \in 0..t.total :
             /\ file' = With(file, path, Content(t, n))
             /\ \/ SendAck(path[1], t.total - 1, TRUE)
                \/ n < t.total /\ SendAck(path[1], t.total - 1, FALSE)

TryComplete(c) ==
    /\ completed' = {}
    /\ \/ /\ Reassembles(c.state) /\ ChecksumFits(c.state)
          /\ Written(c.path, c.state)
       \/ /\ ~(Reassembles(c.state) /\ ChecksumFits(c.state))
          /\ SendAck(c.path[1], c.state.total - 1, FALSE)
          /\ UNCHANGED file
    /\ UNCHANGED <<upload, disk, transfers, slept, sent, delivered>>

------------------------------------------------------------------------------
(* The cleanup thread, time, and Stop().                                   *)

\* Slip: one transfer is aborted per turn.
CleanupOne ==
    /\ slept = Period
    /\ LET old == {k \in DOMAIN transfers : transfers[k].age > Timeout}
       IN  \E K \in SUBSET old : /\ Cardinality(K) <= 1
                                 /\ K = {} => old = {}
                                 /\ transfers' = Without(transfers, K)
    /\ slept' = 0
    /\ UNCHANGED <<upload, disk, completed, file, apps>>

\* CleanupLoop, one turn: abort what has been silent for too long.
Cleanup ==
    /\ slept = Period
    /\ transfers' = Without(transfers,
                            {k \in DOMAIN transfers : transfers[k].age > Timeout})
    /\ slept' = 0
    /\ UNCHANGED <<upload, disk, completed, file, apps>>

\* A unit of time, long against a callback and a turn of the cleanup thread.
Tick ==
    /\ completed = {}
    /\ slept < Period
    /\ slept' = slept + 1
    /\ transfers' = [k \in DOMAIN transfers |->
                       [transfers[k] EXCEPT !.age = IF @ = Longest THEN @ ELSE @ + 1]]
    /\ UNCHANGED <<upload, disk, completed, file, apps>>

\* Stop() clears the map between two callbacks, and the program starts again.
Restart ==
    /\ completed = {}
    /\ transfers' = <<>>
    /\ slept' = 0
    /\ UNCHANGED <<upload, disk, completed, file, apps>>

Next ==
    \/ \E a \in App :
          \/ SendFragment(a) \/ StartOver(a)
          \/ \E from \in 0..(delivered[a] - 1) : Redeliver(a, from)
          \/ FirstFragment(a)
          \/ \E frag \in 1..(upload[a].total - 1) :
                RefuseFragment(a, frag) \/ StoreFragment(a, frag)
    \/ \E c \in completed : TryComplete(c)
    \/ Cleanup \/ Tick \/ Restart

Spec == Init /\ [][Next]_vars

------------------------------------------------------------------------------
(* Properties.                                                             *)

\* A file on disk consists of fragments sent for it, and one that was saved
\* under a checksum is the file of the app that gave the checksum: apps that
\* upload under the same name at once, start over, or whose fragments come twice
\* or too late never leave a mixture.  It is the whole of it on a disk that takes
\* files, and a beginning of it where the disk fails.
SavedIsWhole ==
    \A p \in DOMAIN file :
        LET t == file[p]
        IN  /\ \A f \in DOMAIN t.pieces : Path(upload[t.pieces[f]]) = p
            /\ t.sum # "wrong"
            /\ t.sum = "right" => /\ t.total = upload[t.author].total
                                  /\ \A f \in DOMAIN t.pieces : t.pieces[f] = t.author
            /\ disk = "good" => DOMAIN t.pieces = 0..(t.total - 1)

\* An app that uploads alone on its topic, with the right checksum or none, onto
\* a disk that takes files, may believe the ok for its last fragment: however
\* its fragments were delayed, delivered again or sent again, the file is there.
Alone(a) == \A b \in App \ {a} : upload[b].type # upload[a].type
LastOkIsTrue ==
    \A a \in App :
        /\ app[a] = "done"
        /\ completed = {}
        /\ Alone(a)
        /\ disk = "good"
        /\ upload[a].sum # "wrong"
        => /\ Path(upload[a]) \in DOMAIN file
           /\ IsWhole(file[Path(upload[a])], a)

\* No transfer stays in memory for longer than the timeout and one period of the
\* cleanup thread after its last fragment.
NothingLingers ==
    \A k \in DOMAIN transfers : transfers[k].age <= Timeout + slept

\* What the app developer's guide says: when the last fragment is answered with
\* ok, the upload is complete.
LastOkMeansSaved ==
    \A a \in App :
        app[a] = "done" /\ completed = {}
            => /\ Path(upload[a]) \in DOMAIN file
               /\ IsWhole(file[Path(upload[a])], a)
==============================================================================
