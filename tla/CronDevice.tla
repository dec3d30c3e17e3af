------------------------------- MODULE CronDevice -------------------------------
(***************************************************************************)
(* cron_device.py: the MQTT thread adds and removes jobs, the scheduler    *)
(* thread fires them, both save the list to crontab.txt under one lock.    *)
(* The process may die at any step (its threads are daemons, so shutdown   *)
(* is no better), and reads the file when it starts again.                 *)
(*                                                                         *)
(* Time counts minutes.  An expression is the set of minutes it matches;   *)
(* the parser is CronParser.  Requests that are refused before the lock    *)
(* change nothing and are left out.  A file that cannot be decoded ends    *)
(* the start, so it is a process that stays down.                          *)
(***************************************************************************)
EXTENDS Integers, Sequences, SequencesExt

CONSTANTS
    MaxJobs,     \* bound: jobs that are added; the uuids are numbers
    Counts,      \* values of trigger_count; 0 is for ever, as is any below
    Texts,       \* what jobs may have in their texts, out of TextKind
    MaxMinute,   \* bound: minutes 0..MaxMinute
    MaxFaults    \* bound: how often the process dies or a save fails

Job      == 1..MaxJobs
Minute   == 0..MaxMinute
NoMinute == -1

\* Params may hold a "|", which separates the fields of a line of the file; an
\* expression may be broken by a newline, which ends a line; and params may hold half
\* of a surrogate pair, which no text of the file or of a message can.
TextKind == {"plain", "bar", "newline", "surrogate"}

ASSUME CronAssumption == /\ MaxJobs \in Nat /\ MaxMinute \in Nat /\ MaxFaults \in Nat
                         /\ Counts \subseteq Nat /\ Texts \subseteq TextKind

JobEntry == [id : Job, expr : SUBSET Minute, count : Counts, text : Texts]

VARIABLES
    now,      \* the minute of the clock
    up,       \* the process runs
    entries,  \* _entries
    last,     \* _last_fired_minute
    lock,     \* _lock: "free", or what its holder is saving: "add", "remove", "fire"
    opened,   \* the file is open for writing, and empty
    sched,    \* the scheduler: its next step, the minute and the key it read, its snapshot
    file,     \* crontab.txt, line by line
    crashes, fails,
    asked,    \* (history) the entry of each job that was added, in order
    acked,    \* (history) jobs whose add_cron was answered with 0
    gone,     \* (history) jobs that remove_cron took out
    fired,    \* (history) how often each job fired
    marks,    \* (history) job and minute key of what fired since the start
    twice,    \* (history) jobs that fired twice with one key since a start
    torn,     \* (history) the process died while the file was open
    unread    \* (history) a start could not read the file

history == <<asked, acked, gone, fired, marks, twice, torn, unread>>
cronVars == <<now, up, entries, last, lock, opened, sched, file, crashes, fails, history>>

Asleep == [pc |-> "sleep", wall |-> NoMinute, key |-> NoMinute, todo |-> <<>>]
Dead   == [Asleep EXCEPT !.pc = "dead"]
Fresh  == [j \in Job |-> NoMinute]

CronInit ==
    /\ now = 0 /\ up = TRUE
    /\ entries = <<>> /\ last = Fresh /\ lock = "free" /\ opened = FALSE
    /\ sched = Asleep /\ file = <<>> /\ crashes = 0 /\ fails = 0
    /\ asked = <<>> /\ acked = {} /\ gone = {} /\ fired = [j \in Job |-> 0]
    /\ marks = {} /\ twice = {} /\ torn = FALSE /\ unread = FALSE

Tick ==
    /\ now < MaxMinute
    /\ now' = now + 1
    /\ UNCHANGED <<up, entries, last, lock, opened, sched, file, crashes, fails, history>>

Faults == crashes + fails

Free == up /\ lock = "free"

InList(list, j) == \E i \in DOMAIN list : list[i].id = j

\* The entry with id j is deleted: an id is a uuid, no other entry has it.
Without(list, j) ==
    IF InList(list, j)
    THEN RemoveAt(list, CHOOSE i \in DOMAIN list : list[i].id = j)
    ELSE list

WithCount(list, j, count) ==
    [i \in DOMAIN list |-> IF list[i].id = j THEN [list[i] EXCEPT !.count = count] ELSE list[i]]

------------------------------------------------------------------------------
(* The MQTT thread.                                                        *)

\* add_cron and add_relative_cron, whose expression pins the minute of now plus
\* the offset; the id is new.
AddCron(entry) ==
    /\ Free /\ entry.id = Len(asked) + 1
    /\ entries' = Append(entries, entry)
    /\ asked' = Append(asked, entry)
    /\ lock' = "add"
    /\ UNCHANGED <<now, up, last, opened, sched, file, crashes, fails,
                   acked, gone, fired, marks, twice, torn, unread>>

\* remove_cron: a job that is not there any more is answered with 0 too.
RemoveCron(j) ==
    /\ Free /\ j \in DOMAIN asked
    /\ entries' = Without(entries, j)
    /\ last' = [last EXCEPT ![j] = NoMinute]
    /\ gone' = gone \cup {j}
    /\ lock' = IF entries' # entries THEN "remove" ELSE "free"
    /\ UNCHANGED <<now, up, opened, sched, file, crashes, fails,
                   asked, acked, fired, marks, twice, torn, unread>>

------------------------------------------------------------------------------
(* _save_crontab.                                                          *)

\* The save is over.  add_cron takes a job back that was not saved, the others
\* ignore the result.
Saved(ok) ==
    /\ lock' = "free" /\ opened' = FALSE
    /\ fails' = IF ok THEN fails ELSE fails + 1
    /\ entries' = IF lock = "add" /\ ~ok THEN Front(entries) ELSE entries
    /\ acked' = IF lock = "add" /\ ok THEN acked \cup {Last(entries).id} ELSE acked
    /\ sched' = IF lock = "fire" THEN [sched EXCEPT !.pc = "loop", !.todo = Tail(@)] ELSE sched
    /\ UNCHANGED <<now, up, last, crashes, asked, gone, fired, marks, twice, torn, unread>>

\* A line that cannot be written throws: add_cron and remove_cron end without an
\* answer, and with what they did to the list; the scheduler's thread ends.
SaveThrows ==
    /\ lock' = "free" /\ opened' = FALSE
    /\ sched' = IF lock = "fire" THEN Dead ELSE sched
    /\ UNCHANGED <<now, up, entries, last, crashes, fails, history>>

\* open(..., "w") empties the file, or fails and leaves it.
OpenFile ==
    /\ up /\ lock # "free" /\ ~opened
    /\ \/ /\ file' = <<>> /\ opened' = TRUE
          /\ UNCHANGED <<now, up, entries, last, lock, sched, crashes, fails, history>>
       \/ /\ Faults < MaxFaults
          /\ Saved(FALSE) /\ UNCHANGED file

\* What is left of a count that is cut: its leading digits, or none, which is for ever.
Cut(count) == {0} \cup {c \in 1..count : \E d \in 1..count : c = count \div 10 ^ d}

\* A part of the list: whole lines, and one that is cut in its count, or anywhere
\* behind a bar.  One cut before that is skipped when it is read.
Parts(list) ==
    {SubSeq(list, 1, n) : n \in 0..Len(list)}
      \cup UNION {{Append(SubSeq(list, 1, n - 1), [list[n] EXCEPT !.count = c]) :
                     c \in Cut(list[n].count)} : n \in DOMAIN list}

\* n lines are written: all of them, or those before the first that cannot be.
Writes(list, n) ==
    /\ \A i \in 1..n : list[i].text # "surrogate"
    /\ n < Len(list) => list[n + 1].text = "surrogate"

\* What was written reaches the file, all of it or a part.
CloseFile ==
    /\ up /\ opened
    /\ \E n \in 0..Len(entries) :
         /\ Writes(entries, n)
         /\ \/ /\ file' = SubSeq(entries, 1, n)
               /\ IF n = Len(entries) THEN Saved(TRUE) ELSE SaveThrows
            \/ /\ Faults < MaxFaults
               /\ file' \in Parts(SubSeq(entries, 1, n))
               /\ Saved(FALSE)

------------------------------------------------------------------------------
(* The scheduler.                                                          *)

schedOnly == <<now, up, entries, lock, opened, file, crashes, fails>>

\* Every 30 seconds.  The clock is read for the minute, and once more for the key.
Wake ==
    /\ up /\ sched.pc = "sleep"
    /\ sched' = [sched EXCEPT !.pc = "key", !.wall = now]
    /\ UNCHANGED <<schedOnly, last, history>>

ReadKey ==
    /\ up /\ sched.pc = "key"
    /\ sched' = [sched EXCEPT !.pc = "snapshot", !.key = now]
    /\ UNCHANGED <<schedOnly, last, history>>

Snapshot ==
    /\ Free /\ sched.pc = "snapshot"
    /\ sched' = [sched EXCEPT !.pc = "loop", !.todo = entries]
    /\ UNCHANGED <<schedOnly, last, history>>

LoopEnds ==
    /\ up /\ sched.pc = "loop" /\ sched.todo = <<>>
    /\ sched' = Asleep
    /\ UNCHANGED <<schedOnly, last, history>>

Due == Head(sched.todo)

\* Slip: the same minute is not looked at.
CheckAlways ==
    /\ Free /\ sched.pc = "loop" /\ sched.todo # <<>>
    /\ sched' = IF sched.wall \in Due.expr THEN [sched EXCEPT !.pc = "record"]
                ELSE [sched EXCEPT !.todo = Tail(@)]
    /\ UNCHANGED <<schedOnly, last, history>>

\* The next job of the snapshot: not fired with this key, and the minute matches.
Check ==
    /\ Free /\ sched.pc = "loop" /\ sched.todo # <<>>
    /\ sched' = IF last[Due.id] # sched.key /\ sched.wall \in Due.expr
                THEN [sched EXCEPT !.pc = "record"]
                ELSE [sched EXCEPT !.todo = Tail(@)]
    /\ UNCHANGED <<schedOnly, last, history>>

Record ==
    /\ Free /\ sched.pc = "record"
    /\ last' = [last EXCEPT ![Due.id] = sched.key]
    /\ sched' = [sched EXCEPT !.pc = "publish"]
    /\ UNCHANGED <<schedOnly, history>>

\* The message cannot be encoded: the thread ends.
PublishThrows ==
    /\ up /\ sched.pc = "publish" /\ Due.text = "surrogate"
    /\ sched' = Dead
    /\ UNCHANGED <<schedOnly, last, history>>

Publish ==
    /\ up /\ sched.pc = "publish" /\ Due.text # "surrogate"
    /\ fired' = [fired EXCEPT ![Due.id] = @ + 1]
    /\ marks' = marks \cup {<<Due.id, sched.key>>}
    /\ twice' = IF <<Due.id, sched.key>> \in marks THEN twice \cup {Due.id} ELSE twice
    /\ sched' = IF Due.count > 0 THEN [sched EXCEPT !.pc = "count"]
                ELSE [sched EXCEPT !.pc = "loop", !.todo = Tail(@)]
    /\ UNCHANGED <<schedOnly, last, asked, acked, gone, torn, unread>>

\* The trigger count goes down; a job whose count is used up is removed.
CountDown ==
    /\ Free /\ sched.pc = "count"
    /\ IF Due.count = 1
       THEN /\ entries' = Without(entries, Due.id)
            /\ last' = [last EXCEPT ![Due.id] = NoMinute]
       ELSE entries' = WithCount(entries, Due.id, Due.count - 1) /\ UNCHANGED last
    /\ lock' = "fire"
    /\ UNCHANGED <<now, up, opened, sched, file, crashes, fails, history>>

------------------------------------------------------------------------------
(* The process.                                                            *)

\* The list fits the buffer of the file, which is written when it is closed: who dies
\* before leaves it empty.
Die ==
    /\ up /\ Faults < MaxFaults
    /\ crashes' = crashes + 1 /\ up' = FALSE
    /\ entries' = <<>> /\ last' = Fresh /\ lock' = "free" /\ opened' = FALSE /\ sched' = Asleep
    /\ torn' = (torn \/ opened) /\ marks' = {}
    /\ UNCHANGED <<now, file, fails, asked, acked, gone, fired, twice, unread>>

AnyCount == {0, 1} \cup Counts  \* bound: they stand for any number

\* What a line is read as.  It is split at every "|", and its fourth part is the
\* count: a part of the params if these hold a bar, which may be any number, or none,
\* which is for ever.  The params end at the bar.  A line with a newline in its
\* expression is two of fewer than four parts, which are skipped.
ReadAs(line) ==
    CASE line.text = "bar" -> {[line EXCEPT !.count = c, !.text = "plain"] : c \in AnyCount}
      [] line.text = "newline" -> {}
      [] OTHER -> {line}

\* The lists that the lines may be read as: in their order, what is not skipped.
ReadBack(lines) ==
    LET kept == {i \in DOMAIN lines : ReadAs(lines[i]) # {}}
        read == UNION {ReadAs(lines[i]) : i \in kept}
    IN  UNION {{list \in [1..n -> read] :
                  \E at \in [1..n -> kept] :
                    /\ \A i, k \in 1..n : i < k => at[i] < at[k]
                    /\ \A i \in kept : \E k \in 1..n : at[k] = i
                    /\ \A i \in 1..n : list[i] \in ReadAs(lines[at[i]])} : n \in 0..Len(lines)}

\* Slip: a job that is to fire once is not read back.
LoadRecurring ==
    /\ ~up /\ up' = TRUE
    /\ \E list \in ReadBack(file) : entries' = SelectSeq(list, LAMBDA e : e.count # 1)
    /\ UNCHANGED <<now, last, lock, opened, sched, file, crashes, fails, history>>

\* A file that cannot be read is no job, until the next save writes over it.
LoadCrontab ==
    /\ ~up /\ up' = TRUE
    /\ \/ entries' \in ReadBack(file) /\ UNCHANGED unread
       \/ entries' = <<>> /\ unread' = TRUE
    /\ UNCHANGED <<now, last, lock, opened, sched, file, crashes, fails,
                   asked, acked, gone, fired, marks, twice, torn>>

CronNext ==
    \/ Tick
    \/ \E entry \in JobEntry : entry.expr \in {Minute, {now + 1}} /\ AddCron(entry)
    \/ \E j \in Job : RemoveCron(j)
    \/ OpenFile \/ CloseFile
    \/ Wake \/ ReadKey \/ Snapshot \/ LoopEnds \/ Check \/ Record
    \/ Publish \/ PublishThrows \/ CountDown
    \/ Die \/ LoadCrontab

CronSpec == CronInit /\ [][CronNext]_cronVars

------------------------------------------------------------------------------
\* A job with a trigger count fires that often at most, and once more for each time
\* the process died between firing and saving; and one that is not being removed
\* fires at most once per minute key of a run.  (A "|" in the params and a failed
\* save break the count; scheduler loop, _save_crontab, _load_crontab.)
FiringIsBounded ==
    /\ fails = 0 => \A j \in DOMAIN asked :
         asked[j].count > 0 /\ asked[j].text # "bar" => fired[j] <= asked[j].count + crashes
    /\ twice \subseteq gone

\* A job whose add was answered with 0 is in the list until it is removed or has
\* fired as often as asked, whatever saves fail; it is in the file too, unless a
\* save failed, the process died with the file open or the file could not be read
\* at a start; and with plain texts it outlives the process.  (A bar may change its
\* count and a newline loses its line when the file is read; _handle_add_cron,
\* _handle_remove_cron, _save_crontab, _load_crontab).
JobsSurvive ==
    lock = "free" =>
        \A j \in acked \ gone :
            asked[j].count = 0 \/ fired[j] < asked[j].count =>
                /\ crashes = 0 => InList(entries, j)
                /\ fails = 0 /\ ~torn /\ ~unread /\ (asked[j].text = "plain" \/ crashes = 0)
                     => InList(file, j) /\ (up => InList(entries, j))
==============================================================================
