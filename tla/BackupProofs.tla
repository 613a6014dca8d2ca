---------------------------- MODULE BackupProofs ----------------------------
(***************************************************************************)
(* The safety of a backup, for any number of runs, any page limit, any     *)
(* threshold and any number of crashes.                                    *)
(*                                                                         *)
(* That the file is a prefix of the log is not inductive: a page read      *)
(* while another run was importing would be out of place.  What keeps it   *)
(* in place is the lock (OneRun): the file cannot move under the run that  *)
(* holds it, so the position its page was asked after is still the last    *)
(* one when the page is imported (RunKnows).                               *)
(***************************************************************************)
EXTENDS Backup, SequenceTheorems, TLAPS

FileIsPrefix ==
    /\ Len(file) <= Len(log)
    /\ \A i \in 1..Len(file) : file[i] = log[i]

LogIsDense == \A i \in 1..Len(log) : log[i].sequence = i /\ log[i].write <= i

OneRun == \A r \in Runs : run[r].at # "idle" <=> lock = r

\* What a run has read is where it was when the run took the lock.
Asking(x) == x.after = Len(file)

Read(x) ==
    /\ x.began <= x.snapshot
    /\ Len(file) <= x.snapshot
    /\ x.snapshot <= Len(log)
    /\ NeverSplits(x.snapshot)

\* The page is what follows the file in the log, up to the snapshot unless
\* there is more.
Holds(x) ==
    /\ Len(file) + Len(x.page) <= x.snapshot
    /\ \A i \in 1..Len(x.page) : x.page[i] = log[Len(file) + i]
    /\ IF x.hasMore THEN x.page # <<>> ELSE Len(file) + Len(x.page) = x.snapshot

Began(x) == x.at # "idle" => x.began <= Len(log)

Knows(x) ==
    /\ Began(x)
    /\ x.at \in {"ask", "loading", "sending", "page"} => Asking(x)
    /\ x.at \in {"loading", "sending", "page"} => Read(x)
    /\ x.at \in {"sending", "page"} => Holds(x)
    /\ x.at = "done" => Len(file) >= x.began /\ NeverSplits(Len(file))

RunKnows == \A r \in Runs : Knows(run[r])

\* Each stall was paid for by Threshold bytes, and so will the next one be.
CheckpointPaid ==
    /\ wal <= grown
    /\ stalls * Threshold + Threshold + wal <= nextCheckpoint + grown

IInv ==
    /\ TypeOK /\ LogIsDense /\ FileIsPrefix /\ OneRun /\ RunKnows
    /\ CheckpointPaid /\ StallsArePaid

-----------------------------------------------------------------------------
(* Lemmas about the operators *)

\* The counter resumes after the last event of the file: its positions are
\* those of the log, which has no gap.
LEMMA LastIsLength ==
    ASSUME TypeOK, LogIsDense, FileIsPrefix
    PROVE  LastSequence = Len(file)
<1> DEFINE taken == {file[i].sequence : i \in DOMAIN file} \cup {0}
<1>1. Len(file) \in Nat /\ DOMAIN file = 1..Len(file)
    BY DEF TypeOK
<1>2. \A i \in 1..Len(file) : file[i].sequence = i
    BY <1>1 DEF FileIsPrefix, LogIsDense, TypeOK
<1>3. \A s \in taken : s \in Nat /\ s <= Len(file)
    BY <1>1, <1>2
<1>4. Len(file) \in taken
    BY <1>1, <1>2
<1> HIDE DEF taken
<1>5. ASSUME NEW s \in taken, \A t \in taken : t <= s
      PROVE  s = Len(file)
    BY <1>1, <1>3, <1>4, <1>5
<1>6. \A t \in taken : t <= Len(file)
    BY <1>3
<1> DEFINE last == CHOOSE s \in taken : \A t \in taken : t <= s
<1>7. last \in taken /\ \A t \in taken : t <= last
    BY <1>4, <1>6
<1>8. last = Len(file)
    BY <1>5, <1>7
<1> QED BY <1>8 DEF LastSequence, taken

\* The rows a page is cut from are the events after the last one of the file,
\* up to the snapshot or one past the page.
LEMMA RowsFollow ==
    ASSUME TypeOK, NEW r \in Runs, Asking(run[r]), Read(run[r]),
           NEW rows, rows = Rows(r)
    PROVE  /\ rows \in Seq(Event)
           /\ Len(rows) <= PageLimit + 1
           /\ Len(file) + Len(rows) <= run[r].snapshot
           /\ Len(rows) <= PageLimit => Len(file) + Len(rows) = run[r].snapshot
           /\ \A i \in 1..Len(rows) : rows[i] = log[Len(file) + i]
<1> DEFINE m == run[r].after + 1
           last == run[r].after + PageLimit + 1
           n == IF last < run[r].snapshot THEN last ELSE run[r].snapshot
<1>1. /\ run[r].after = Len(file) /\ Len(file) \in Nat /\ run[r].snapshot \in Nat
      /\ PageLimit \in Nat \ {0} /\ Len(file) <= run[r].snapshot
      /\ run[r].snapshot <= Len(log) /\ log \in Seq(Event)
    BY LimitAssumption DEF TypeOK, RunState, Asking, Read
<1>2. m \in Int /\ n \in Int /\ n <= Len(log) /\ m >= 1 /\ n >= m - 1
    BY <1>1
<1>3. \A i \in m..n : log[i] \in Event
    BY <1>1, <1>2
<1>4. rows = SubSeq(log, m, n)
    BY DEF Rows
<1> HIDE DEF m, n
<1>5. /\ SubSeq(log, m, n) \in Seq(Event)
      /\ Len(SubSeq(log, m, n)) = IF m <= n THEN n - m + 1 ELSE 0
      /\ \A i \in 1 .. n - m + 1 : SubSeq(log, m, n)[i] = log[m + i - 1]
    BY <1>2, <1>3, SubSeqProperties
<1>6. Len(rows) = n - m + 1 /\ \A i \in 1..Len(rows) : rows[i] = log[m + i - 1]
    BY <1>2, <1>4, <1>5
<1>7. m + Len(rows) = n + 1 /\ m = Len(file) + 1
    BY <1>1, <1>2, <1>6 DEF m
<1>8. /\ n \in Nat /\ n <= run[r].snapshot /\ n <= Len(file) + PageLimit + 1
      /\ n < Len(file) + PageLimit + 1 => n = run[r].snapshot
    BY <1>1 DEF n
<1>9. Len(rows) \in Nat /\ Len(file) + Len(rows) = n
    BY <1>1, <1>4, <1>5, <1>7, <1>8
<1>10. ASSUME NEW i \in 1..Len(rows) PROVE rows[i] = log[Len(file) + i]
  <2>1. m + i - 1 = Len(file) + i
      BY <1>1, <1>7, <1>9
  <2> QED BY <1>6, <2>1
<1>11. rows \in Seq(Event)
    BY <1>4, <1>5
<1> QED BY <1>1, <1>8, <1>9, <1>10, <1>11

\* What a page holds in memory is a page.
LEMMA PageCut ==
    ASSUME NEW rows \in Seq(Event), Len(rows) = PageLimit + 1,
           NEW page, page = SubSeq(rows, 1, PageLimit)
    PROVE  /\ page \in Seq(Event)
           /\ Len(page) = PageLimit
           /\ \A i \in 1..PageLimit : page[i] = rows[i]
<1>1. PageLimit \in Nat \ {0}
    BY LimitAssumption
<1>2. \A i \in 1..PageLimit : rows[i] \in Event
    BY <1>1
<1> QED BY <1>1, <1>2, SubSeqProperties

\* The stalls are counted in whole thresholds.
LEMMA OneMore ==
    ASSUME NEW n \in Nat, NEW t \in Nat
    PROVE  /\ n * t \in Nat
           /\ (n + 1) * t = n * t + t
    OBVIOUS

\* A prefix, event by event, is a SubSeq.
LEMMA PrefixIsSubSeq ==
    ASSUME NEW s \in Seq(Event), NEW t \in Seq(Event), Len(s) <= Len(t),
           \A i \in 1..Len(s) : s[i] = t[i]
    PROVE  SubSeq(t, 1, Len(s)) = s
<1> DEFINE u == SubSeq(t, 1, Len(s))
<1>1. Len(s) \in Nat /\ \A i \in 1..Len(s) : t[i] \in Event
    OBVIOUS
<1>2. u \in Seq(Event) /\ Len(u) = Len(s) /\ \A i \in 1..Len(s) : u[i] = t[i]
    BY <1>1, SubSeqProperties
<1> HIDE DEF u
<1>3. u = s
    BY <1>2
<1> QED BY <1>3 DEF u

-----------------------------------------------------------------------------
(* The instance *)

\* Whatever comes of the checkpoint, what it may have made wait is paid for.
LEMMA CheckpointKeeps ==
    ASSUME TypeOK, CheckpointPaid, StallsArePaid, NEW growth \in Nat,
           Checkpoint(wal + growth), grown' = grown + growth
    PROVE  /\ wal' \in Nat /\ nextCheckpoint' \in Nat /\ grown' \in Nat /\ stalls' \in Nat
           /\ CheckpointPaid' /\ StallsArePaid'
<1> DEFINE paid == stalls * Threshold
<1>1. /\ wal \in Nat /\ nextCheckpoint \in Nat /\ grown \in Nat /\ stalls \in Nat
      /\ Threshold \in Nat
    BY WALAssumption DEF TypeOK
<1>2. paid \in Nat /\ (stalls + 1) * Threshold = paid + Threshold
    BY <1>1, OneMore
<1>3. wal <= grown /\ paid + Threshold + wal <= nextCheckpoint + grown /\ paid <= grown
    BY DEF CheckpointPaid, StallsArePaid
<1>4. stalls' = stalls => stalls' * Threshold = paid
    OBVIOUS
<1>5. stalls' = stalls + 1 => stalls' * Threshold = paid + Threshold
    BY <1>2
<1> HIDE DEF paid
<1>6. CASE CheckpointFails(wal + growth) \/ CheckpointWaits(wal + growth)
    BY <1>1, <1>2, <1>3, <1>4, <1>6
       DEF CheckpointFails, CheckpointWaits, CheckpointPaid, StallsArePaid
<1>7. CASE CheckpointDone(wal + growth)
    BY <1>1, <1>2, <1>3, <1>4, <1>7 DEF CheckpointDone, CheckpointPaid, StallsArePaid
<1>8. CASE CheckpointBusy(wal + growth)
    BY <1>1, <1>2, <1>3, <1>5, <1>8 DEF CheckpointBusy, CheckpointPaid, StallsArePaid
<1> QED BY <1>6, <1>7, <1>8 DEF Checkpoint

\* A write adds its events at the end, and leaves what was there.
LEMMA LogGrows ==
    ASSUME TypeOK, LogIsDense, NEW n \in Nat, log' = log \o NewEvents(n)
    PROVE  /\ log' \in Seq(Event)
           /\ Len(log') = Len(log) + n
           /\ \A i \in 1..Len(log) : log'[i] = log[i]
           /\ \A i \in Len(log)+1..Len(log') : log'[i].sequence = i /\ log'[i].write = Len(log) + 1
           /\ LogIsDense'
<1> DEFINE new == NewEvents(n)
<1>1. log \in Seq(Event) /\ Len(log) \in Nat
    BY DEF TypeOK
<1>2. \A i \in 1..n : [sequence |-> Len(log) + i, write |-> Len(log) + 1] \in Event
    BY <1>1 DEF Event
<1>3. new \in Seq(Event) /\ Len(new) = n
    BY <1>2 DEF NewEvents
<1>4. \A i \in 1..n : new[i].sequence = Len(log) + i /\ new[i].write = Len(log) + 1
    BY DEF NewEvents
<1> HIDE DEF new
<1>5. /\ log' \in Seq(Event) /\ Len(log') = Len(log) + n
      /\ \A i \in 1..Len(log) : log'[i] = log[i]
      /\ \A i \in Len(log)+1..Len(log)+n : log'[i] = new[i - Len(log)]
    BY <1>1, <1>3 DEF new
<1>6. \A i \in Len(log)+1..Len(log') : log'[i].sequence = i /\ log'[i].write = Len(log) + 1
  <2> TAKE i \in Len(log)+1..Len(log')
  <2>1. i - Len(log) \in 1..n /\ log'[i] = new[i - Len(log)]
      BY <1>1, <1>5
  <2> QED BY <1>1, <1>4, <2>1
<1>7. LogIsDense'
  <2> SUFFICES ASSUME NEW i \in 1..Len(log') PROVE log'[i].sequence = i /\ log'[i].write <= i
      BY DEF LogIsDense
  <2>1. CASE i <= Len(log)
      BY <1>1, <1>5, <2>1 DEF LogIsDense
  <2>2. CASE i > Len(log)
      BY <1>1, <1>5, <1>6, <2>2
  <2> QED BY <1>1, <1>5, <2>1, <2>2
<1> QED BY <1>5, <1>6, <1>7

\* A write is never split by what comes after it: the place between two writes
\* stays one.
LEMMA SplitsNever ==
    ASSUME TypeOK, LogIsDense, NEW n \in Nat, log' = log \o NewEvents(n),
           NEW k \in Nat, k <= Len(log), NeverSplits(k)
    PROVE  NeverSplits(k)'
<1>0. log \in Seq(Event) /\ Len(log) \in Nat
    BY DEF TypeOK
<1>1. /\ log' \in Seq(Event)
      /\ Len(log') = Len(log) + n
      /\ \A i \in 1..Len(log) : log'[i] = log[i]
      /\ \A i \in Len(log)+1..Len(log') : log'[i].sequence = i /\ log'[i].write = Len(log) + 1
    BY LogGrows
<1>2. CASE k < Len(log)
    BY <1>0, <1>1, <1>2 DEF NeverSplits
<1>3. CASE k = Len(log)
  <2>1. k > 0 => log'[k].write <= k
      BY <1>0, <1>1, <1>3 DEF LogIsDense
  <2>2. k > 0 => log[k] \in Event
      BY <1>0, <1>3
  <2>3. k > 0 => log'[k].write \in Nat
      BY <1>0, <1>1, <1>3, <2>2 DEF Event
  <2>4. k + 1 \in DOMAIN log' => log'[k + 1].write = k + 1
      BY <1>0, <1>1, <1>3
  <2> QED BY <2>1, <2>3, <2>4 DEF NeverSplits
<1> QED BY <1>0, <1>2, <1>3

\* A turn of the write queue.
LEMMA WriteTurnKeeps ==
    ASSUME IInv, NEW n \in 0..MaxCommit, NEW growth \in 0..MaxGrowth, WriteTurn(n, growth)
    PROVE  IInv'
<1>1. n \in Nat /\ growth \in Nat
    BY BoundsAssumption
<1>2. /\ TypeOK /\ LogIsDense /\ FileIsPrefix /\ OneRun /\ RunKnows
      /\ CheckpointPaid /\ StallsArePaid
    BY DEF IInv
<1>3. /\ log' = log \o NewEvents(n) /\ grown' = grown + growth
      /\ Checkpoint(wal + growth)
      /\ crashes' = crashes /\ file' = file /\ lock' = lock /\ run' = run
    BY DEF WriteTurn, backup
<1>4. /\ log' \in Seq(Event)
      /\ Len(log') = Len(log) + n
      /\ \A i \in 1..Len(log) : log'[i] = log[i]
      /\ LogIsDense'
    BY <1>1, <1>2, <1>3, LogGrows
<1>5. /\ wal' \in Nat /\ nextCheckpoint' \in Nat /\ grown' \in Nat /\ stalls' \in Nat
      /\ CheckpointPaid' /\ StallsArePaid'
    BY <1>1, <1>2, <1>3, CheckpointKeeps
<1>6. Len(log) \in Nat /\ Len(file) \in Nat
    BY <1>2 DEF TypeOK
<1>7. TypeOK'
    BY <1>2, <1>3, <1>4, <1>5 DEF TypeOK
<1>8. FileIsPrefix'
    BY <1>1, <1>2, <1>3, <1>4, <1>6 DEF FileIsPrefix
<1>9. OneRun'
    BY <1>2, <1>3 DEF OneRun
<1>10. RunKnows'
  <2> SUFFICES ASSUME NEW r \in Runs
               PROVE  /\ Began(run[r])'
                      /\ run[r].at \in {"ask", "loading", "sending", "page"} => Asking(run[r])'
                      /\ run[r].at \in {"loading", "sending", "page"} => Read(run[r])'
                      /\ run[r].at \in {"sending", "page"} => Holds(run[r])'
                      /\ run[r].at = "done" =>
                            Len(file) >= run[r].began /\ NeverSplits(Len(file))'
      BY <1>3 DEF RunKnows, Knows
  <2>1. /\ run[r].began \in Nat /\ run[r].snapshot \in Nat /\ run[r].page \in Seq(Event)
      BY <1>2 DEF TypeOK, RunState
  <2>2. Began(run[r])'
      BY <1>1, <1>2, <1>3, <1>4, <1>6, <2>1 DEF RunKnows, Knows, Began
  <2>3. run[r].at \in {"ask", "loading", "sending", "page"} => Asking(run[r])'
      BY <1>2, <1>3 DEF RunKnows, Knows, Asking
  <2>4. ASSUME Read(run[r]) PROVE Read(run[r])'
    <3>1. NeverSplits(run[r].snapshot)'
        BY <1>1, <1>2, <1>3, <2>1, <2>4, SplitsNever DEF Read, NeverSplits
    <3> QED BY <1>1, <1>3, <1>4, <1>6, <2>1, <2>4, <3>1 DEF Read
  <2>5. ASSUME Read(run[r]), Holds(run[r]) PROVE Holds(run[r])'
    <3>1. Len(run[r].page) \in Nat /\ Len(file) + Len(run[r].page) <= Len(log)
        BY <1>6, <2>1, <2>5 DEF Read, Holds
    <3>2. \A i \in 1..Len(run[r].page) : log'[Len(file) + i] = log[Len(file) + i]
        BY <1>4, <1>6, <3>1
    <3> QED BY <1>3, <2>5, <3>2 DEF Holds
  <2>6. ASSUME NeverSplits(Len(file)) PROVE NeverSplits(Len(file))'
      BY <1>1, <1>2, <1>3, <1>6, <2>6, SplitsNever DEF FileIsPrefix, NeverSplits
  <2> QED BY <1>2, <2>2, <2>3, <2>4, <2>5, <2>6 DEF RunKnows, Knows
<1> QED BY <1>4, <1>5, <1>7, <1>8, <1>9, <1>10 DEF IInv

-----------------------------------------------------------------------------
(* A run *)

\* A step of the run that holds the lock, or takes it, which leaves the file
\* and the source alone, disturbs no other run.
LEMMA RunSteps ==
    ASSUME IInv, UNCHANGED <<source, file>>,
           NEW r \in Runs, lock \in {r, NoRun},
           NEW x \in RunState, run' = [run EXCEPT ![r] = x], Knows(x),
           lock' = IF x.at = "idle" THEN NoRun ELSE r
    PROVE  IInv'
<1>1. /\ TypeOK /\ LogIsDense /\ FileIsPrefix /\ OneRun /\ RunKnows
      /\ CheckpointPaid /\ StallsArePaid
    BY DEF IInv
<1>2. /\ log' = log /\ wal' = wal /\ nextCheckpoint' = nextCheckpoint
      /\ crashes' = crashes /\ grown' = grown /\ stalls' = stalls /\ file' = file
    BY DEF source
<1>3. run \in [Runs -> RunState] /\ run'[r] = x /\ \A s \in Runs \ {r} : run'[s] = run[s]
    BY <1>1 DEF TypeOK
<1>4. TypeOK'
    BY <1>1, <1>2, <1>3 DEF TypeOK
<1>5. LogIsDense' /\ FileIsPrefix' /\ CheckpointPaid' /\ StallsArePaid'
    BY <1>1, <1>2 DEF LogIsDense, FileIsPrefix, CheckpointPaid, StallsArePaid
<1>6. OneRun'
  <2> SUFFICES ASSUME NEW s \in Runs PROVE run'[s].at # "idle" <=> lock' = s
      BY DEF OneRun
  <2>1. CASE s = r
      BY <1>3, <2>1, RunsAssumption
  <2>2. CASE s # r
      BY <1>1, <1>3, <2>2, RunsAssumption DEF OneRun
  <2> QED BY <2>1, <2>2
<1>7. RunKnows'
  <2> SUFFICES ASSUME NEW s \in Runs PROVE Knows(run[s])'
      BY DEF RunKnows
  <2> DEFINE y == run'[s]
  <2>1. Knows(y)
    <3>1. CASE s = r
        BY <1>3, <3>1
    <3>2. CASE s # r
        BY <1>1, <1>3, <3>2 DEF RunKnows
    <3> QED BY <3>1, <3>2
  <2> QED BY <1>2, <2>1 DEF Knows, Began, Asking, Read, Holds, NeverSplits
<1> QED BY <1>4, <1>5, <1>6, <1>7 DEF IInv

LEMMA IdleIsIdle == Idle \in RunState /\ Idle.at = "idle" /\ Knows(Idle)
<1>1. <<>> \in Seq(Event)
    OBVIOUS
<1>2. Idle \in RunState
    BY <1>1 DEF Idle, RunState, Phases
<1> QED BY <1>2 DEF Idle, Knows, Began

LEMMA EndsKeeps ==
    ASSUME IInv, NEW r \in Runs, run[r].at # "idle", Ends(r)
    PROVE  IInv'
<1>1. lock = r
    BY DEF IInv, OneRun
<1> QED BY <1>1, IdleIsIdle, RunSteps DEF Ends

LEMMA StartKeeps ==
    ASSUME IInv, NEW r \in Runs, Start(r)
    PROVE  IInv'
<1> DEFINE x == [Idle EXCEPT !.at = "ask", !.after = LastSequence, !.began = Len(log)]
<1>1. LastSequence = Len(file) /\ Len(file) \in Nat /\ Len(log) \in Nat
    BY LastIsLength DEF IInv, TypeOK
<1>2. <<>> \in Seq(Event)
    OBVIOUS
<1>3. x \in RunState
    BY <1>1, <1>2 DEF Idle, RunState, Phases
<1>4. Knows(x)
    BY <1>1 DEF Idle, Knows, Began, Asking
<1>5. x.at = "ask" /\ run' = [run EXCEPT ![r] = x] /\ lock = NoRun /\ lock' = r
      /\ UNCHANGED <<source, file>>
    BY DEF Start, Idle
<1> HIDE DEF x
<1> QED BY <1>3, <1>4, <1>5, RunSteps

LEMMA LoadKeeps ==
    ASSUME IInv, NEW r \in Runs, Load(r)
    PROVE  IInv'
<1> DEFINE x == [run[r] EXCEPT !.at = "loading", !.snapshot = Len(log)]
<1>1. run \in [Runs -> RunState] /\ run[r].at = "ask" /\ lock = r
    BY DEF IInv, TypeOK, OneRun, Load
<1>2. Len(log) \in Nat /\ Len(file) \in Nat /\ Len(file) <= Len(log)
    BY DEF IInv, TypeOK, FileIsPrefix
<1>3. x \in RunState /\ x.at = "loading" /\ x.snapshot = Len(log)
      /\ x.began = run[r].began /\ x.after = run[r].after
    BY <1>1, <1>2 DEF RunState, Phases
<1>4. Began(run[r]) /\ Asking(run[r])
    BY <1>1 DEF IInv, RunKnows, Knows
<1>5. NeverSplits(Len(log))
    BY <1>2 DEF NeverSplits, IInv, TypeOK
<1>6. run' = [run EXCEPT ![r] = x] /\ UNCHANGED <<source, file>> /\ lock' = r
    BY <1>1 DEF Load
<1> HIDE DEF x
<1>7. Knows(x)
    BY <1>1, <1>2, <1>3, <1>4, <1>5 DEF Knows, Began, Asking, Read
<1> QED BY <1>1, <1>3, <1>6, <1>7, RunSteps

LEMMA SendKeeps ==
    ASSUME IInv, NEW r \in Runs, Send(r)
    PROVE  IInv'
<1> DEFINE rows == Rows(r)
           page == IF Len(rows) > PageLimit THEN SubSeq(rows, 1, PageLimit) ELSE rows
           more == Len(rows) > PageLimit
           x == [run[r] EXCEPT !.at = "sending", !.hasMore = more, !.page = page]
<1>1. run[r] \in RunState /\ run[r].at = "loading" /\ lock = r
    BY DEF IInv, TypeOK, OneRun, Send
<1>2. Began(run[r]) /\ Asking(run[r]) /\ Read(run[r])
    BY <1>1 DEF IInv, RunKnows, Knows
<1>3. /\ rows \in Seq(Event)
      /\ Len(rows) <= PageLimit + 1
      /\ Len(file) + Len(rows) <= run[r].snapshot
      /\ Len(rows) <= PageLimit => Len(file) + Len(rows) = run[r].snapshot
      /\ \A i \in 1..Len(rows) : rows[i] = log[Len(file) + i]
    BY <1>2, RowsFollow DEF IInv
<1>4. PageLimit \in Nat \ {0} /\ Len(rows) \in Nat /\ Len(file) \in Nat
      /\ run[r].snapshot \in Nat
    BY <1>1, <1>3, LimitAssumption DEF IInv, TypeOK, RunState
<1>5. /\ page \in Seq(Event)
      /\ Len(file) + Len(page) <= run[r].snapshot
      /\ \A i \in 1..Len(page) : page[i] = log[Len(file) + i]
      /\ IF more THEN page # <<>> ELSE Len(file) + Len(page) = run[r].snapshot
  <2> HIDE DEF rows
  <2>1. CASE more
    <3>1. Len(rows) = PageLimit + 1
        BY <1>3, <1>4, <2>1
    <3>2. /\ page \in Seq(Event) /\ Len(page) = PageLimit
          /\ \A i \in 1..PageLimit : page[i] = rows[i]
        BY <1>3, <2>1, <3>1, PageCut
    <3> HIDE DEF page
    <3>3. page # <<>>
        BY <1>4, <3>2
    <3>4. \A i \in 1..Len(page) : page[i] = log[Len(file) + i]
        BY <1>3, <1>4, <3>1, <3>2
    <3> QED BY <1>3, <1>4, <2>1, <3>1, <3>2, <3>3, <3>4
  <2>2. CASE ~more
    <3>1. page = rows /\ Len(rows) <= PageLimit
        BY <1>4, <2>2
    <3> QED BY <1>3, <2>2, <3>1
  <2> QED BY <2>1, <2>2
<1>6. /\ x.at = "sending" /\ x.began = run[r].began /\ x.after = run[r].after
      /\ x.snapshot = run[r].snapshot /\ x.page = page /\ x.hasMore = more
      /\ run' = [run EXCEPT ![r] = x] /\ UNCHANGED <<source, file>> /\ lock' = r
    BY <1>1 DEF Send, RunState
<1> HIDE DEF rows, page
<1>7. more \in BOOLEAN
    OBVIOUS
<1> HIDE DEF more
<1>8. x \in RunState
    BY <1>1, <1>5, <1>7 DEF RunState, Phases
<1> HIDE DEF x
<1>9. Holds(x)
    BY <1>5, <1>6 DEF Holds
<1>10. Began(x) /\ Asking(x) /\ Read(x) /\ x.at # "done"
    BY <1>1, <1>2, <1>6 DEF Began, Asking, Read
<1>11. Knows(x)
    BY <1>9, <1>10 DEF Knows
<1> QED BY <1>1, <1>6, <1>8, <1>11, RunSteps

LEMMA ReceiveKeeps ==
    ASSUME IInv, NEW r \in Runs, Receive(r)
    PROVE  IInv'
<1> DEFINE x == [run[r] EXCEPT !.at = "page"]
<1>1. run[r] \in RunState /\ run[r].at = "sending" /\ lock = r
    BY DEF IInv, TypeOK, OneRun, Receive
<1>2. Began(run[r]) /\ Asking(run[r]) /\ Read(run[r]) /\ Holds(run[r])
    BY <1>1 DEF IInv, RunKnows, Knows
<1>3. /\ x \in RunState /\ x.at = "page" /\ x.began = run[r].began
      /\ x.after = run[r].after /\ x.snapshot = run[r].snapshot
      /\ x.page = run[r].page /\ x.hasMore = run[r].hasMore
    BY <1>1 DEF RunState, Phases
<1>4. run' = [run EXCEPT ![r] = x] /\ UNCHANGED <<source, file>> /\ lock' = r
    BY <1>1 DEF Receive
<1> HIDE DEF x
<1>5. Began(x) /\ Asking(x) /\ Read(x)
    BY <1>1, <1>2, <1>3 DEF Began, Asking, Read
<1>6. Holds(x)
    BY <1>2, <1>3 DEF Holds
<1>7. x.at # "done"
    BY <1>3
<1>8. Knows(x)
    BY <1>5, <1>6, <1>7 DEF Knows, Began, Asking, Read
<1> QED BY <1>1, <1>3, <1>4, <1>8, RunSteps

\* The instance's crash cuts the answers under way; no run gains anything.
LEMMA RestartKeeps ==
    ASSUME IInv, InstanceRestarts
    PROVE  IInv'
<1> DEFINE x == [Idle EXCEPT !.at = "cut"]
<1>1. /\ TypeOK /\ LogIsDense /\ FileIsPrefix /\ OneRun /\ RunKnows
    BY DEF IInv
<1>2. /\ crashes' = crashes + 1 /\ wal' \in {0, wal} /\ grown' = wal' /\ stalls' = 0
      /\ nextCheckpoint' = Threshold /\ log' = log /\ file' = file /\ lock' = lock
    BY DEF InstanceRestarts
<1>3. Threshold \in Nat /\ wal \in Nat /\ crashes \in Nat
    BY <1>1, WALAssumption DEF TypeOK
<1>4. x \in RunState /\ x.at = "cut" /\ x.began = 0
  <2>1. <<>> \in Seq(Event)
      OBVIOUS
  <2> QED BY <2>1 DEF Idle, RunState, Phases
<1> HIDE DEF x
<1>5. run' = [r \in Runs |-> IF run[r].at \in {"loading", "sending"} THEN x ELSE run[r]]
    BY DEF InstanceRestarts, x
<1>6. run \in [Runs -> RunState] /\ run' \in [Runs -> RunState]
    BY <1>1, <1>4, <1>5 DEF TypeOK
<1>7. TypeOK'
    BY <1>1, <1>2, <1>3, <1>6 DEF TypeOK
<1>8. LogIsDense' /\ FileIsPrefix'
    BY <1>1, <1>2 DEF LogIsDense, FileIsPrefix
<1>9. CheckpointPaid' /\ StallsArePaid'
  <2>1. stalls' * Threshold = 0 /\ wal' \in Nat
      BY <1>2, <1>3
  <2> DEFINE paid == stalls' * Threshold
  <2>2. paid = 0 /\ nextCheckpoint' \in Nat /\ nextCheckpoint' = Threshold /\ grown' = wal'
      BY <1>2, <1>3, <2>1
  <2> HIDE DEF paid
  <2>3. wal' <= grown' /\ paid <= grown'
      BY <2>1, <2>2
  <2>4. \A t, w \in Nat : 0 + t + w <= t + w
      OBVIOUS
  <2>5. paid + Threshold + wal' <= nextCheckpoint' + grown'
      BY <1>3, <2>1, <2>2, <2>4
  <2> QED BY <2>3, <2>5 DEF CheckpointPaid, StallsArePaid, paid
<1>10. OneRun'
    BY <1>1, <1>2, <1>4, <1>5 DEF OneRun
<1>11. RunKnows'
  <2> SUFFICES ASSUME NEW r \in Runs PROVE Knows(run[r])'
      BY DEF RunKnows
  <2> DEFINE y == run'[r]
  <2>1. Knows(y)
    <3>1. Len(log) \in Nat
        BY <1>1 DEF TypeOK
    <3>2. CASE run[r].at \in {"loading", "sending"}
        BY <1>4, <1>5, <3>1, <3>2 DEF Knows, Began
    <3>3. CASE run[r].at \notin {"loading", "sending"}
        BY <1>1, <1>5, <3>3 DEF RunKnows
    <3> QED BY <3>2, <3>3
  <2> QED BY <1>2, <2>1 DEF Knows, Began, Asking, Read, Holds, NeverSplits
<1> QED BY <1>7, <1>8, <1>9, <1>10, <1>11 DEF IInv

\* The page goes where it belongs, and the run knows where the next one does.
LEMMA ImportKeeps ==
    ASSUME IInv, NEW r \in Runs, Import(r)
    PROVE  IInv'
<1> DEFINE page == run[r].page
           after == IF page = <<>> THEN run[r].after ELSE page[Len(page)].sequence
           x == [run[r] EXCEPT !.at = IF run[r].hasMore THEN "ask" ELSE "done", !.after = after,
                               !.snapshot = 0, !.page = <<>>, !.hasMore = FALSE]
<1>1. /\ TypeOK /\ LogIsDense /\ FileIsPrefix /\ OneRun /\ RunKnows
      /\ CheckpointPaid /\ StallsArePaid
    BY DEF IInv
<1>2. run \in [Runs -> RunState] /\ run[r] \in RunState /\ run[r].at = "page" /\ lock = r
    BY <1>1 DEF TypeOK, OneRun, Import
<1>3. Began(run[r]) /\ Asking(run[r]) /\ Read(run[r]) /\ Holds(run[r])
    BY <1>1, <1>2 DEF RunKnows, Knows
<1>4. /\ file' = file \o page /\ lock' = lock /\ log' = log /\ wal' = wal
      /\ nextCheckpoint' = nextCheckpoint /\ crashes' = crashes
      /\ grown' = grown /\ stalls' = stalls
    BY DEF Import, source
<1>5. /\ log \in Seq(Event) /\ file \in Seq(Event) /\ page \in Seq(Event)
      /\ Len(log) \in Nat /\ Len(file) \in Nat /\ Len(page) \in Nat
      /\ run[r].snapshot \in Nat /\ run[r].after \in Nat /\ run[r].began \in Nat
    BY <1>1, <1>2 DEF TypeOK, RunState
<1>6. /\ Len(file) + Len(page) <= run[r].snapshot /\ run[r].snapshot <= Len(log)
      /\ \A i \in 1..Len(page) : page[i] = log[Len(file) + i]
      /\ ~run[r].hasMore => Len(file) + Len(page) = run[r].snapshot
    BY <1>3 DEF Read, Holds
<1> HIDE DEF page
<1>7. /\ file' \in Seq(Event) /\ Len(file') = Len(file) + Len(page)
      /\ \A i \in 1..Len(file) : file'[i] = file[i]
      /\ \A i \in 1..Len(page) : file'[Len(file) + i] = page[i]
    BY <1>4, <1>5
<1>8. FileIsPrefix'
  <2> SUFFICES ASSUME NEW i \in 1..Len(file') PROVE file'[i] = log[i]
      BY <1>4, <1>5, <1>6, <1>7 DEF FileIsPrefix
  <2>1. CASE i <= Len(file)
      BY <1>1, <1>5, <1>7, <2>1 DEF FileIsPrefix
  <2>2. CASE i > Len(file)
    <3>1. i - Len(file) \in 1..Len(page) /\ Len(file) + (i - Len(file)) = i
        BY <1>5, <1>7, <2>2
    <3> QED BY <1>6, <1>7, <3>1
  <2> QED BY <1>5, <1>7, <2>1, <2>2
<1>9. after = Len(file')
  <2>1. CASE page = <<>>
      BY <1>3, <1>5, <1>7, <2>1 DEF Asking
  <2>2. CASE page # <<>>
    <3>1. Len(page) \in 1..Len(page) /\ Len(file) + Len(page) \in 1..Len(log)
        BY <1>5, <1>6, <2>2
    <3> QED BY <1>1, <1>6, <1>7, <2>2, <3>1 DEF LogIsDense
  <2> QED BY <2>1, <2>2
<1>10. run' = [run EXCEPT ![r] = x]
    BY <1>2 DEF Import, page, RunState
<1> HIDE DEF after
<1>11. /\ x \in RunState /\ x.at = IF run[r].hasMore THEN "ask" ELSE "done"
       /\ x.after = Len(file') /\ x.began = run[r].began
  <2>1. <<>> \in Seq(Event) /\ Len(file') \in Nat
      BY <1>5, <1>7
  <2>2. /\ x.at = IF run[r].hasMore THEN "ask" ELSE "done"
        /\ x.after = Len(file') /\ x.began = run[r].began
      BY <1>2, <1>9 DEF RunState
  <2>3. x.at \in Phases
      BY <2>2 DEF Phases
  <2>4. x \in RunState
      BY <1>2, <1>9, <2>1, <2>3 DEF RunState
  <2> QED BY <2>2, <2>4
<1> HIDE DEF x
<1>12. run'[r] = x /\ run' \in [Runs -> RunState] /\ \A s \in Runs \ {r} : run'[s] = run[s]
    BY <1>2, <1>10, <1>11
<1>13. TypeOK'
    BY <1>1, <1>4, <1>7, <1>12 DEF TypeOK
<1>14. LogIsDense' /\ CheckpointPaid' /\ StallsArePaid'
    BY <1>1, <1>4 DEF LogIsDense, CheckpointPaid, StallsArePaid
<1>15. OneRun'
    BY <1>1, <1>2, <1>4, <1>11, <1>12 DEF OneRun
<1>16. RunKnows'
  <2> SUFFICES ASSUME NEW s \in Runs PROVE Knows(run[s])'
      BY DEF RunKnows
  <2>1. CASE s = r
    <3>1. x.began <= Len(log)
        BY <1>2, <1>3, <1>11 DEF Began
    <3>2. x.at = "ask" \/ x.at = "done"
        BY <1>11
    <3>3. x.at = "done" => Len(file') = run[r].snapshot
        BY <1>6, <1>7, <1>11
    <3>4. x.at = "done" => Len(file') >= x.began
        BY <1>3, <1>5, <1>11, <3>3 DEF Read
    <3>5. x.at = "done" => NeverSplits(Len(file'))
        BY <1>3, <3>3 DEF Read
    <3> QED BY <1>4, <1>11, <1>12, <2>1, <3>1, <3>2, <3>4, <3>5
            DEF Knows, Began, Asking, NeverSplits
  <2>2. CASE s # r
    <3>1. run'[s].at = "idle"
        BY <1>1, <1>2, <1>12, <2>2 DEF OneRun
    <3> QED BY <3>1 DEF Knows, Began
  <2> QED BY <2>1, <2>2
<1> QED BY <1>8, <1>13, <1>14, <1>15, <1>16 DEF IInv

-----------------------------------------------------------------------------
(* The theorems *)

THEOREM Invariance == Spec => []IInv
<1>1. Init => IInv
  <2> SUFFICES ASSUME Init PROVE IInv
      OBVIOUS
  <2>1. <<>> \in Seq(Event) /\ Threshold \in Nat
      BY WALAssumption
  <2>2. TypeOK
      BY <2>1, IdleIsIdle DEF Init, TypeOK
  <2>3. LogIsDense /\ FileIsPrefix
      BY DEF Init, LogIsDense, FileIsPrefix
  <2>4. OneRun /\ RunKnows
      BY IdleIsIdle, RunsAssumption DEF Init, OneRun, RunKnows
  <2>5. CheckpointPaid /\ StallsArePaid
    <3>1. stalls * Threshold = 0
        BY <2>1 DEF Init
    <3> QED BY <2>1, <3>1 DEF Init, CheckpointPaid, StallsArePaid
  <2> QED BY <2>2, <2>3, <2>4, <2>5 DEF IInv
<1>2. IInv /\ [Next]_vars => IInv'
  <2> SUFFICES ASSUME IInv, [Next]_vars PROVE IInv'
      OBVIOUS
  <2>1. ASSUME NEW n \in 0..MaxCommit, NEW growth \in 0..MaxGrowth, WriteTurn(n, growth)
        PROVE  IInv'
      BY <2>1, WriteTurnKeeps
  <2>2. CASE InstanceRestarts
      BY <2>2, RestartKeeps
  <2>3. ASSUME NEW r \in Runs, Start(r) PROVE IInv'
      BY <2>3, StartKeeps
  <2>4. ASSUME NEW r \in Runs, Load(r) PROVE IInv'
      BY <2>4, LoadKeeps
  <2>5. ASSUME NEW r \in Runs, Send(r) PROVE IInv'
      BY <2>5, SendKeeps
  <2>6. ASSUME NEW r \in Runs, Receive(r) PROVE IInv'
      BY <2>6, ReceiveKeeps
  <2>7. ASSUME NEW r \in Runs, Import(r) PROVE IInv'
      BY <2>7, ImportKeeps
  <2>8. ASSUME NEW r \in Runs, PageFails(r) \/ ImportFails(r) \/ Succeed(r) \/ Kill(r)
        PROVE  IInv'
    <3>1. run[r].at # "idle" /\ Ends(r)
        BY <2>8 DEF PageFails, ImportFails, Succeed, Kill
    <3> QED BY <3>1, EndsKeeps
  <2>9. CASE UNCHANGED vars
    <3>1. /\ log' = log /\ wal' = wal /\ nextCheckpoint' = nextCheckpoint
          /\ crashes' = crashes /\ grown' = grown /\ stalls' = stalls
          /\ file' = file /\ lock' = lock /\ run' = run
        BY <2>9 DEF vars, source, backup
    <3> QED BY <3>1 DEF IInv, TypeOK, LogIsDense, FileIsPrefix, OneRun, RunKnows, Knows,
                Began, Asking, Read, Holds, NeverSplits, CheckpointPaid, StallsArePaid
  <2> QED BY <2>1, <2>2, <2>3, <2>4, <2>5, <2>6, <2>7, <2>8, <2>9 DEF Next
<1> QED BY <1>1, <1>2, PTL DEF Spec

\* The variables keep their types.
THEOREM TypeCorrect == Spec => []TypeOK
<1>1. IInv => TypeOK
    BY DEF IInv
<1> QED BY <1>1, Invariance, PTL

\* A page that is about to be imported continues the file, whichever runs were
\* killed or refused before (run.go:96-107).
THEOREM PagesFit == Spec => []PageContinuesFile
<1>1. IInv => PageContinuesFile
  <2> SUFFICES ASSUME IInv, NEW r \in Runs, run[r].at = "page"
               PROVE  /\ Len(file) + Len(run[r].page) <= Len(log)
                      /\ run[r].page = SubSeq(log, Len(file) + 1, Len(file) + Len(run[r].page))
                      /\ run[r].hasMore => run[r].page # <<>>
      BY DEF PageContinuesFile, At
  <2> DEFINE page == run[r].page
             m == Len(file) + 1
             n == Len(file) + Len(page)
             next == SubSeq(log, m, n)
  <2>1. Read(run[r]) /\ Holds(run[r])
      BY DEF IInv, RunKnows, Knows
  <2>2. /\ page \in Seq(Event) /\ log \in Seq(Event) /\ Len(file) \in Nat
        /\ Len(page) \in Nat /\ Len(log) \in Nat /\ run[r].snapshot \in Nat
      BY DEF IInv, TypeOK, RunState
  <2>3. n <= Len(log)
      BY <2>1, <2>2 DEF Read, Holds
  <2>4. \A i \in m..n : log[i] \in Event
      BY <2>2, <2>3
  <2>5. m \in Int /\ n \in Int /\ n - m + 1 = Len(page) /\ (m <= n \/ Len(page) = 0)
      BY <2>2
  <2> HIDE DEF m, n
  <2>6. next \in Seq(Event) /\ Len(next) = Len(page)
        /\ \A i \in 1..Len(page) : next[i] = log[m + i - 1]
      BY <2>2, <2>4, <2>5, SubSeqProperties
  <2>7. \A i \in 1..Len(page) : m + i - 1 = Len(file) + i
      BY <2>2 DEF m
  <2>8. \A i \in 1..Len(page) : next[i] = page[i]
      BY <2>1, <2>6, <2>7 DEF Holds
  <2> HIDE DEF next, page
  <2>9. next = page
      BY <2>2, <2>6, <2>8
  <2> QED BY <2>1, <2>3, <2>9 DEF next, page, m, n, Holds
<1> QED BY <1>1, Invariance, PTL

\* A run that succeeds has every event committed before it began, and every
\* write of the source whole or not at all (run.go:98-113).
THEOREM SuccessIsComplete == Spec => []CompleteOnSuccess
<1>1. IInv => CompleteOnSuccess
    BY DEF IInv, RunKnows, Knows, CompleteOnSuccess, At
<1> QED BY <1>1, Invariance, PTL

\* The writes wait for the busy timeout at most once per Threshold bytes of
\* WAL (writer.go:132-137).
THEOREM StallsPaid == Spec => []StallsArePaid
<1>1. IInv => StallsArePaid
    BY DEF IInv
<1> QED BY <1>1, Invariance, PTL

\* Whatever is killed, cut, refused or restarted, the file is the source's log
\* up to some event and only moves forward on it: the backup implements Copy.
THEOREM Refinement == Spec => IsACopy
<1>1. Init => Abstract!Init
    BY DEF Init, Abstract!Init
<1>2. IInv /\ IInv' /\ [Next]_vars => [Abstract!Next]_(Abstract!vars)
  <2> SUFFICES ASSUME IInv, IInv', [Next]_vars
               PROVE  Abstract!Next \/ UNCHANGED <<log, file>>
      BY DEF Abstract!vars
  <2>1. /\ log \in Seq(Event) /\ file \in Seq(Event) /\ log' \in Seq(Event)
        /\ file' \in Seq(Event)
      BY DEF IInv, TypeOK
  <2>2. ASSUME NEW n \in 0..MaxCommit, NEW growth \in 0..MaxGrowth, WriteTurn(n, growth)
        PROVE  Abstract!Next \/ UNCHANGED <<log, file>>
    <3>1. n \in Nat /\ log' = log \o NewEvents(n) /\ file' = file
        BY <2>2, BoundsAssumption DEF WriteTurn, backup
    <3>2. Len(log') = Len(log) + n /\ \A i \in 1..Len(log) : log'[i] = log[i]
        BY <3>1, LogGrows DEF IInv
    <3>3. CASE n = 0
      <4>1. log' = log
          BY <2>1, <3>2, <3>3
      <4> QED BY <3>1, <4>1
    <3>4. CASE n > 0
      <4>1. SubSeq(log', 1, Len(log)) = log
          BY <2>1, <3>1, <3>2, PrefixIsSubSeq
      <4>2. Len(log') > Len(log)
          BY <2>1, <3>2, <3>4
      <4> QED BY <3>1, <4>1, <4>2 DEF Abstract!Next, Abstract!Grow
    <3> QED BY <3>1, <3>3, <3>4
  <2>3. ASSUME NEW r \in Runs, Import(r)
        PROVE  Abstract!Next \/ UNCHANGED <<log, file>>
    <3> DEFINE page == run[r].page
    <3>1. file' = file \o page /\ log' = log /\ page \in Seq(Event)
        BY <2>3 DEF Import, source, IInv, TypeOK, RunState
    <3> HIDE DEF page
    <3>2. CASE page = <<>>
        BY <2>1, <3>1, <3>2
    <3>3. CASE page # <<>>
      <4>1. Len(file') > Len(file)
          BY <2>1, <3>1, <3>3
      <4>2. Len(file') <= Len(log) /\ \A i \in 1..Len(file') : file'[i] = log[i]
          BY <3>1 DEF IInv, FileIsPrefix
      <4>3. file' = SubSeq(log, 1, Len(file'))
          BY <2>1, <4>2, PrefixIsSubSeq
      <4>4. Len(file') \in Len(file)+1 .. Len(log)
          BY <2>1, <4>1, <4>2
      <4> QED BY <3>1, <4>3, <4>4 DEF Abstract!Next, Abstract!CatchUp
    <3> QED BY <3>2, <3>3
  <2>4. CASE InstanceRestarts
      BY <2>4 DEF InstanceRestarts
  <2>5. ASSUME NEW r \in Runs,
               \/ Start(r) \/ Load(r) \/ Send(r) \/ Receive(r) \/ PageFails(r)
               \/ ImportFails(r) \/ Succeed(r) \/ Kill(r)
        PROVE  UNCHANGED <<log, file>>
      BY <2>5 DEF Start, Load, Send, Receive, PageFails, ImportFails, Succeed, Kill, Ends, source
  <2>6. CASE UNCHANGED vars
      BY <2>6 DEF vars, source, backup
  <2> QED BY <2>2, <2>3, <2>4, <2>5, <2>6 DEF Next
<1> QED BY <1>1, <1>2, Invariance, PTL DEF Spec, IsACopy, Abstract!Spec
=============================================================================
