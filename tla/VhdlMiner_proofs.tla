-------------------------- MODULE VhdlMiner_proofs --------------------------
(***************************************************************************)
(* The host and the serial link of VHDL_Xilinx_Port.  First the host, for  *)
(* every number of servers and shares, every size of the queue and every   *)
(* pool: what its counters, changed by threads without a lock, say of jobs *)
(* and shares, and how many jobs of a block gone by are mined after the    *)
(* new block's.  Then the link, for every size of a job and every number   *)
(* of jobs, nonces and injections: the nonces a host has still to read are *)
(* of the jobs it takes them for, a working FPGA is not refused, and no    *)
(* job is put together from two.  At the end, the interval of a job.       *)
(***************************************************************************)
EXTENDS VhdlHost, VhdlFpga, VhdlJobInterval, SequenceTheorems, FiniteSetTheorems, TLAPS

(* The counters a thread adds to.                                          *)
Adds(t) ==
    IF t \in Share THEN {"accepted", "rejected", "uploadretries"}
    ELSE IF t = "getwork" THEN {"requests", "failedreqs", "longpollkilled"}
    ELSE IF t = "longpoll" THEN {"requests", "longpollkilled", "jobsaccepted"}
    ELSE {"jobsaccepted"}

GetterType == [pc : {"next", "wait", "got", "put", "clear"}, s : 1 .. Servers + 1, job : Nat]
PollerType == [pc : {"none", "poll", "hit", "test", "take", "decide", "put", "inject"},
               job : Nat, asked : Nat, drained : BOOLEAN]
WorkerType == [pc : {"idle", "have", "ack", "mine"}, job : Nat]
UploadType == [pc : {"none", "ask", "accepted", "rejected"}, s : Nat, failed : Nat]
AddType    == [to : Counter \cup {"none"}, n : Nat]

ThreadsType ==
    /\ block \in Nat
    /\ getter \in GetterType /\ (getter.pc = "wait" => getter.s <= Servers)
    /\ poller \in PollerType /\ worker \in WorkerType
    /\ longpollhit \in BOOLEAN
    /\ queue \in Seq(Nat) /\ Len(queue) <= Buffer
    /\ injected \in Nat /\ drained \in BOOLEAN /\ stale \in Nat

SharesType ==
    /\ conlock \in BOOLEAN
    /\ uploads \in [Share -> UploadType]
    /\ screen \in [failed : Nat, stale : Nat, retried : Nat]
    /\ taken \subseteq Share /\ lost \subseteq taken

(* Each thread adds to its own counters; the only one that adds to one not *)
(* raced on has read its value.                                            *)
TallyInv ==
    /\ count \in [Counter -> Nat] /\ raced \subseteq Counter
    /\ adding \in [Thread -> AddType]
    /\ \A t \in Thread : adding[t] = NoAdd \/ adding[t].to \in Adds(t)
    /\ \A c \in Counter \ raced : \A t, u \in Adders(c) : t = u /\ adding[t].n = count[c]

-----------------------------------------------------------------------------
(* Counters.                                                               *)

LEMMA Names ==
  /\ \A t \in Thread : Adds(t) \subseteq Counter
  /\ "getwork" \in Thread /\ "longpoll" \in Thread /\ "worker" \in Thread
  /\ Share \subseteq Thread /\ "getwork" \notin Share /\ "longpoll" \notin Share /\ "worker" \notin Share
  /\ "none" \notin Counter /\ NoAdd \in AddType /\ NoAdd.to = "none"
<1>1. \A t \in Thread : Adds(t) \subseteq Counter
  BY DEF Adds, Counter
<1>2. "getwork" \notin Share /\ "longpoll" \notin Share /\ "worker" \notin Share
  BY PoolAssumption DEF Threads
<1> QED
  BY <1>1, <1>2 DEF Thread, Threads, Counter, NoAdd, AddType

(* A step of one thread, seen from the counters.                           *)
Adds1(t, c)  == adding[t] = NoAdd /\ c \in Adds(t) /\ Add(t, c)
Written(t)   == /\ adding[t] # NoAdd
                /\ count' = [count EXCEPT ![adding[t].to] = adding[t].n + 1]
                /\ adding' = [adding EXCEPT ![t] = NoAdd]
                /\ raced' = raced

LEMMA TallyEffect ==
  ASSUME HostNext
  PROVE  \/ \E t \in Thread : \E c \in Adds(t) : Adds1(t, c)
         \/ \E t \in Thread : Written(t)
         \/ UNCHANGED tally
<1> USE DEF Getting, Polling, WorkerIs, Adds1
<1>1. CASE \E t \in Thread : Added(t)
  BY <1>1 DEF Added, Written
<1>2. CASE Request
  <2>1. Adds1("getwork", "requests") /\ "requests" \in Adds("getwork")
    BY <1>2, Names DEF Request, Adds
  <2> QED
    BY <2>1, Names
<1>3. CASE RequestFails
  <2>1. Adds1("getwork", "failedreqs") /\ "failedreqs" \in Adds("getwork")
    BY <1>3, Names DEF RequestFails, Adds
  <2> QED
    BY <2>1, Names
<1>4. CASE KillJob
  <2>1. Adds1("getwork", "longpollkilled") /\ "longpollkilled" \in Adds("getwork")
    BY <1>4, Names DEF KillJob, Adds
  <2> QED
    BY <2>1, Names
<1>5. CASE DropQueued
  <2>1. Adds1("longpoll", "longpollkilled") /\ "longpollkilled" \in Adds("longpoll")
    BY <1>5, Names DEF DropQueued, Adds
  <2> QED
    BY <2>1, Names
<1>6. CASE EndDrain
  <2>1. Adds1("longpoll", "requests") /\ "requests" \in Adds("longpoll")
    BY <1>6, Names DEF EndDrain, Adds
  <2> QED
    BY <2>1, Names
<1>7. CASE PollInject
  <2>1. Adds1("longpoll", "jobsaccepted") /\ "jobsaccepted" \in Adds("longpoll")
    BY <1>7, Names DEF PollInject, Adds
  <2> QED
    BY <2>1, Names
<1>8. CASE TakeJob
  <2>1. Adds1("worker", "jobsaccepted") /\ "jobsaccepted" \in Adds("worker")
    BY <1>8, Names DEF TakeJob, Adds
  <2> QED
    BY <2>1, Names
<1>9. CASE SkipServer \/ NoJob \/ KeepJob \/ PutJob \/ ClearHit \/ Reply \/ PollReply \/ PollFails
           \/ SetHit \/ DropNext \/ PollPut \/ PollPutDone \/ PollerInjects \/ GroupEnds
           \/ WorkerWrites \/ Acknowledged \/ JobEnds \/ NewBlock
  BY <1>9 DEF SkipServer, NoJob, KeepJob, PutJob, ClearHit, Reply, PollReply, PollFails, SetHit, DropNext,
              PollPut, PollPutDone, PollerInjects, GroupEnds, WorkerWrites, Acknowledged, JobEnds, NewBlock
<1>10. CASE SendResult
  BY <1>10 DEF SendResult, poolVars
<1>11. ASSUME NEW i \in Share, UploadAccepted(i) \/ UploadRejected(i) \/ UploadFails(i)
       PROVE  \E t \in Thread : \E c \in Adds(t) : Adds1(t, c)
  <2>1. \E c \in Adds(i) : Adds1(i, c)
    BY <1>11 DEF UploadAccepted, UploadRejected, UploadFails, Uploading, Adds
  <2> QED
    BY <2>1, Names
<1>12. ASSUME NEW i \in Share, UploadRefused(i) PROVE UNCHANGED tally
  BY <1>12 DEF UploadRefused, poolVars
<1>13. CASE ShowStats
  BY <1>13 DEF ShowStats, ShowParts, ShowPercents
<1> QED
  BY <1>1, <1>2, <1>3, <1>4, <1>5, <1>6, <1>7, <1>8, <1>9, <1>10, <1>11, <1>12, <1>13
     DEF HostNext, PoolNext, Getwork, Longpoll, Worker, Uploads

(* Reading a counter, to add to it.                                        *)
LEMMA AddEffect ==
  ASSUME TallyInv, NEW t \in Thread, NEW c \in Adds(t), Adds1(t, c)
  PROVE  /\ TallyInv' /\ count' = count /\ raced \subseteq raced'
         /\ \A d \in Counter : d # c => (d \in raced' <=> d \in raced) /\ Adding(d)' = Adding(d)
         /\ c \notin raced' => c \notin raced /\ Adding(c)' = Adding(c) + 1
         /\ adding'[t].to = c /\ adding'[t].n = count[c]
         /\ \A u \in Thread : u # t => adding'[u] = adding[u]
<1>1. /\ adding' = [adding EXCEPT ![t] = [to |-> c, n |-> count[c]]]
      /\ raced' = IF Adders(c) = {} THEN raced ELSE raced \cup {c}
      /\ count' = count /\ adding[t] = NoAdd
  BY DEF Adds1, Add
<1>2. c \in Counter /\ c # "none" /\ count[c] \in Nat
  BY Names DEF TallyInv
<1>3. adding'[t] = [to |-> c, n |-> count[c]] /\ \A u \in Thread : u # t => adding'[u] = adding[u]
  BY <1>1 DEF TallyInv
<1>4. adding' \in [Thread -> AddType] /\ raced' \subseteq Counter
  BY <1>1, <1>2 DEF TallyInv, AddType
<1>5. Adders(c)' = Adders(c) \cup {t}
  BY <1>1, <1>3 DEF Adders
<1>6. ASSUME NEW d \in Counter, d # c PROVE Adders(d)' = Adders(d)
  BY <1>1, <1>3, <1>6, Names DEF Adders
<1>7. \A u \in Thread : adding'[u] = NoAdd \/ adding'[u].to \in Adds(u)
  BY <1>3 DEF TallyInv
<1>8. ASSUME NEW d \in Counter \ raced', NEW u \in Adders(d)', NEW v \in Adders(d)'
      PROVE  u = v /\ adding'[u].n = count'[d]
  <2>1. CASE d = c
    <3>1. Adders(c) = {}
      BY <1>1, <1>8, <2>1
    <3>2. u = t /\ v = t
      BY <1>5, <1>8, <2>1, <3>1
    <3> QED
      BY <1>1, <1>3, <2>1, <3>2
  <2>2. CASE d # c
    <3>1. u \in Adders(d) /\ v \in Adders(d) /\ d \notin raced
      BY <1>1, <1>6, <1>8, <2>2
    <3>2. u # t /\ u \in Thread
      BY <1>1, <3>1, Names DEF Adders
    <3> QED
      BY <1>1, <1>3, <3>1, <3>2 DEF TallyInv
  <2> QED
    BY <2>1, <2>2
<1>9. TallyInv'
  BY <1>1, <1>4, <1>7, <1>8 DEF TallyInv
<1>10. \A d \in Counter : d # c => (d \in raced' <=> d \in raced) /\ Adding(d)' = Adding(d)
  BY <1>1, <1>6 DEF Adding
<1>11. c \notin raced' => c \notin raced /\ Adding(c)' = Adding(c) + 1
  BY <1>1, <1>5 DEF Adding
<1> QED
  BY <1>1, <1>3, <1>9, <1>10, <1>11

(* Writing it back: of a counter not raced on, one more.                   *)
LEMMA WrittenEffect ==
  ASSUME TallyInv, NEW t \in Thread, Written(t)
  PROVE  /\ TallyInv' /\ raced' = raced
         /\ \A d \in Counter \ raced : Adding(d)' = Adding(d) /\ count'[d] >= count[d]
         /\ \A d \in Counter : d # adding[t].to => Adders(d)' = Adders(d) /\ count'[d] = count[d]
         /\ adding[t].to \in Adds(t) /\ count'[adding[t].to] = adding[t].n + 1
         /\ adding'[t] = NoAdd
         /\ \A u \in Thread : u # t => adding'[u] = adding[u]
<1>0. PICK c : c = adding[t].to
  OBVIOUS
<1>1. /\ count' = [count EXCEPT ![c] = adding[t].n + 1] /\ adding' = [adding EXCEPT ![t] = NoAdd]
      /\ raced' = raced /\ adding[t] # NoAdd
  BY <1>0 DEF Written
<1>2. c \in Adds(t) /\ c \in Counter /\ adding[t].n \in Nat
  BY <1>0, <1>1, Names DEF TallyInv, AddType
<1>3. adding'[t] = NoAdd /\ \A u \in Thread : u # t => adding'[u] = adding[u]
  BY <1>1 DEF TallyInv
<1>4. count'[c] = adding[t].n + 1 /\ \A d \in Counter : d # c => count'[d] = count[d]
  BY <1>1, <1>2 DEF TallyInv
<1>5. Adders(c)' = Adders(c) \ {t} /\ t \in Adders(c)
  <2>1. t \in Adders(c)
    BY <1>0 DEF Adders
  <2>2. t \notin Adders(c)'
    BY <1>2, <1>3, Names DEF Adders
  <2>3. \A u \in Thread : u # t => (u \in Adders(c)' <=> u \in Adders(c))
    BY <1>3 DEF Adders
  <2> QED
    BY <2>1, <2>2, <2>3 DEF Adders
<1>6. ASSUME NEW d \in Counter, d # c PROVE Adders(d)' = Adders(d)
  BY <1>0, <1>3, <1>6, Names DEF Adders
<1>7. adding' \in [Thread -> AddType] /\ count' \in [Counter -> Nat]
  BY <1>1, <1>2, Names DEF TallyInv
<1>8. \A u \in Thread : adding'[u] = NoAdd \/ adding'[u].to \in Adds(u)
  BY <1>3 DEF TallyInv
<1>9. c \notin raced => Adders(c)' = {} /\ Adders(c) # {} /\ adding[t].n = count[c]
  BY <1>2, <1>5 DEF TallyInv
<1>10. ASSUME NEW d \in Counter \ raced', NEW u \in Adders(d)', NEW v \in Adders(d)'
       PROVE  u = v /\ adding'[u].n = count'[d]
  <2>1. d # c
    <3>1. SUFFICES ASSUME d = c PROVE FALSE
      OBVIOUS
    <3>2. Adders(c)' = {}
      BY <1>1, <1>9, <1>10, <3>1
    <3> QED
      BY <1>10, <3>1, <3>2
  <2>2. u \in Adders(d) /\ v \in Adders(d) /\ d \notin raced
    BY <1>1, <1>6, <1>10, <2>1
  <2>3. u # t /\ u \in Thread
    BY <1>0, <2>1, <2>2 DEF Adders
  <2> QED
    BY <1>3, <1>4, <2>1, <2>2, <2>3 DEF TallyInv
<1>11. TallyInv'
  BY <1>1, <1>7, <1>8, <1>10 DEF TallyInv
<1>12. ASSUME NEW d \in Counter \ raced PROVE Adding(d)' = Adding(d) /\ count'[d] >= count[d]
  <2>1. count[d] \in Nat
    BY DEF TallyInv
  <2>2. CASE d = c
    <3>1. Adders(c)' = {} /\ Adders(c) # {} /\ adding[t].n = count[c]
      BY <1>9, <1>12, <2>2
    <3>2. Adding(c)' = count'[c] /\ Adding(c) = count[c] + 1
      BY <3>1 DEF Adding
    <3> QED
      BY <1>4, <2>1, <2>2, <3>1, <3>2
  <2>3. CASE d # c
    BY <1>4, <1>6, <2>1, <2>3 DEF Adding
  <2> QED
    BY <2>2, <2>3
<1> QED
  BY <1>0, <1>1, <1>2, <1>3, <1>4, <1>6, <1>11, <1>12

LEMMA TallyInit == HostInit => TallyInv
  BY Names DEF HostInit, PoolInit, TallyInv, Adders

LEMMA TallyStep == ASSUME TallyInv, [HostNext]_hostVars PROVE TallyInv'
<1>1. CASE UNCHANGED tally
  BY <1>1 DEF tally, TallyInv, Adders
<1> QED
  BY <1>1, TallyEffect, AddEffect, WrittenEffect DEF hostVars, poolVars

-----------------------------------------------------------------------------
(* Types.                                                                  *)

LEMMA ThreadsInit == HostInit => ThreadsType /\ SharesType
<1>1. ASSUME HostInit PROVE ThreadsType
  <2>1. getter \in GetterType /\ poller \in PollerType /\ worker \in WorkerType
    BY <1>1, PoolAssumption DEF HostInit, PoolInit, GetterType, PollerType, WorkerType
  <2>2. queue \in Seq(Nat) /\ Len(queue) <= Buffer
    BY <1>1, PoolAssumption DEF HostInit, PoolInit
  <2> QED
    BY <1>1, <2>1, <2>2 DEF HostInit, PoolInit, ThreadsType
<1>2. ASSUME HostInit PROVE SharesType
  BY <1>2 DEF HostInit, PoolInit, SharesType, UploadType
<1> QED
  BY <1>1, <1>2

LEMMA GetterStep ==
  ASSUME ThreadsType, Getwork \/ Reply \/ RequestFails PROVE ThreadsType'
<1> USE PoolAssumption DEF ThreadsType, Getting
<1>1. CASE SkipServer
  <2>1. getter' \in GetterType /\ getter'.pc # "wait"
    <3>1. getter.pc = "next" /\ getter.s + 1 \in 1 .. Servers + 1 /\ getter' = [getter EXCEPT !.s = getter.s + 1]
      BY <1>1 DEF SkipServer, GetterType
    <3> QED
      BY <3>1 DEF GetterType
  <2>2. UNCHANGED <<block, poller, worker, longpollhit, queue, injected, drained, stale>>
    BY <1>1 DEF SkipServer, flags, output
  <2> QED
    BY <2>1, <2>2
<1>2. CASE Request
  <2>1. getter' \in GetterType /\ getter'.s <= Servers
    BY <1>2 DEF Request, GetterType
  <2>2. UNCHANGED <<block, poller, worker, longpollhit, queue, injected, drained, stale>>
    BY <1>2 DEF Request, world, flags, output
  <2> QED
    BY <2>1, <2>2
<1>3. CASE NoJob \/ KeepJob \/ KillJob
  <2>1. getter' \in GetterType /\ getter'.pc # "wait"
    <3>1. CASE NoJob
      BY <3>1 DEF NoJob, GetterType
    <3>2. CASE KeepJob
      BY <3>2 DEF KeepJob, GetterType
    <3>3. CASE KillJob
      BY <3>3 DEF KillJob, GetterType
    <3> QED
      BY <1>3, <3>1, <3>2, <3>3
  <2>2. UNCHANGED <<block, poller, worker, longpollhit, queue, injected, drained, stale>>
    BY <1>3 DEF NoJob, KeepJob, KillJob, world, flags, output
  <2> QED
    BY <2>1, <2>2
<1>4. CASE PutJob
  <2>1. getter' \in GetterType /\ getter'.pc # "wait" /\ getter.job \in Nat
    BY <1>4 DEF PutJob, GetterType
  <2>2. queue' \in Seq(Nat) /\ Len(queue') <= Buffer
    BY <1>4, <2>1 DEF PutJob
  <2>3. UNCHANGED <<block, poller, worker, longpollhit, injected, drained, stale>>
    BY <1>4 DEF PutJob, world, flags, output
  <2> QED
    BY <2>1, <2>2, <2>3
<1>5. CASE ClearHit
  <2>1. getter' \in GetterType /\ getter'.pc # "wait"
    BY <1>5 DEF ClearHit, GetterType
  <2>2. longpollhit' \in BOOLEAN
    BY <1>5 DEF ClearHit
  <2> QED
    BY <1>5, <2>1, <2>2 DEF ClearHit, world, output
<1>6. ASSUME StartPolling PROVE poller' \in PollerType
  BY <1>6 DEF StartPolling, PollerType
<1>7. CASE Reply
  <2>1. getter' \in GetterType /\ getter'.pc # "wait"
    BY <1>7 DEF Reply, GetterType
  <2> QED
    BY <1>6, <1>7, <2>1 DEF Reply, flags, output
<1>8. CASE RequestFails
  <2>1. getter' \in GetterType /\ getter'.pc # "wait"
    <3>1. getter.s \in 1 .. Servers /\ getter.s + 1 \in 1 .. Servers + 1
      BY <1>8 DEF RequestFails, GetterType
    <3> QED
      BY <1>8, <3>1 DEF RequestFails, GetterType
  <2>2. poller' \in PollerType
    BY <1>6, <1>8 DEF RequestFails
  <2> QED
    BY <1>8, <2>1, <2>2 DEF RequestFails, flags, output
<1> QED
  BY <1>1, <1>2, <1>3, <1>4, <1>5, <1>7, <1>8 DEF Getwork

LEMMA PollerStep ==
  ASSUME ThreadsType, PollReply \/ PollFails \/ Longpoll \/ PollerInjects \/ GroupEnds PROVE ThreadsType'
<1> USE PoolAssumption DEF ThreadsType, Polling
<1>1. CASE PollReply
  BY <1>1 DEF PollReply, PollerType, world, flags, output
<1>2. CASE PollFails
  BY <1>2 DEF PollFails, PollerType, world, flags, output
<1>3. CASE SetHit
  BY <1>3 DEF SetHit, PollerType, world, output
<1>4. CASE DropNext
  BY <1>4 DEF DropNext, PollerType, world, flags, output
<1>5. CASE DropQueued
  <2>1. poller' \in PollerType
    BY <1>5 DEF DropQueued, PollerType
  <2>2. queue' \in Seq(Nat) /\ Len(queue') <= Buffer
    BY <1>5 DEF DropQueued
  <2> QED
    BY <1>5, <2>1, <2>2 DEF DropQueued, world, flags, output
<1>6. CASE EndDrain
  BY <1>6 DEF EndDrain, PollerType, world, flags, output
<1>7. CASE PollPut
  BY <1>7 DEF PollPut, PollerType, world, flags, output
<1>8. CASE PollPutDone
  <2>1. poller' \in PollerType /\ poller.job \in Nat
    BY <1>8 DEF PollPutDone, PollerType
  <2>2. queue' \in Seq(Nat) /\ Len(queue') <= Buffer
    BY <1>8, <2>1 DEF PollPutDone
  <2> QED
    BY <1>8, <2>1, <2>2 DEF PollPutDone, world, flags, output
<1>9. CASE PollInject
  BY <1>9 DEF PollInject, PollerType, world, flags, output
<1>10. CASE PollerInjects
  BY <1>10 DEF PollerInjects, PollerType, world
<1>11. CASE GroupEnds
  BY <1>11 DEF GroupEnds, world, threads, output
<1> QED
  BY <1>1, <1>2, <1>3, <1>4, <1>5, <1>6, <1>7, <1>8, <1>9, <1>10, <1>11 DEF Longpoll

LEMMA WorkerStep == ASSUME ThreadsType, Worker \/ NewBlock PROVE ThreadsType'
<1> USE DEF ThreadsType, WorkerIs
<1>1. CASE TakeJob
  <2>1. Head(queue) \in Nat /\ queue' \in Seq(Nat) /\ Len(queue') <= Buffer
    BY <1>1, PoolAssumption DEF TakeJob
  <2>2. worker' \in WorkerType
    BY <1>1, <2>1 DEF TakeJob, WorkerType
  <2> QED
    BY <1>1, <2>1, <2>2 DEF TakeJob, world, flags, output
<1>2. CASE WorkerWrites
  BY <1>2 DEF WorkerWrites, WorkerType, world, flags
<1>3. CASE Acknowledged
  BY <1>3 DEF Acknowledged, WorkerType, world, flags, output
<1>4. CASE JobEnds
  BY <1>4 DEF JobEnds, WorkerType, world, flags, output
<1>5. CASE NewBlock
  BY <1>5 DEF NewBlock, threads, flags, output
<1> QED
  BY <1>1, <1>2, <1>3, <1>4, <1>5 DEF Worker

(* The steps of shares and of the screen leave the way of a job alone.     *)
LEMMA SharesStep ==
  ASSUME SharesType, TallyInv, Uploads \/ ShowStats
  PROVE  SharesType' /\ UNCHANGED <<block, given, disabled, threads, flags, queue>>
         /\ UNCHANGED <<mined, injected, drained, stale>>
<1> USE DEF SharesType
<1>1. CASE SendResult
  <2>1. uploads' \in [Share -> UploadType]
    BY <1>1 DEF SendResult, UploadType
  <2> QED
    BY <1>1, <2>1 DEF SendResult, poolVars, world, output
<1>2. ASSUME NEW i \in Share, UploadAccepted(i) PROVE SharesType'
  <2>1. uploads' \in [Share -> UploadType]
    BY <1>2 DEF UploadAccepted, UploadType
  <2> QED
    BY <1>2, <2>1 DEF UploadAccepted, output
<1>3. ASSUME NEW i \in Share PROVE NextServer(uploads[i]) \in UploadType
  <2>1. uploads[i] \in UploadType
    OBVIOUS
  <2> QED
    BY <2>1, PoolAssumption DEF NextServer, UploadType
<1>4. ASSUME NEW i \in Share, UploadRefused(i) PROVE SharesType'
  <2> DEFINE u == [NextServer(uploads[i]) EXCEPT !.failed = uploads[i].failed + 1]
  <2>1. u \in UploadType
    BY <1>3 DEF UploadType
  <2>2. uploads' = [uploads EXCEPT ![i] = u]
    BY <1>4 DEF UploadRefused
  <2> HIDE DEF u
  <2> QED
    BY <1>4, <2>1, <2>2 DEF UploadRefused, poolVars, output
<1>5. ASSUME NEW i \in Share, UploadRejected(i) PROVE SharesType'
  <2>1. uploads' \in [Share -> UploadType]
    BY <1>5 DEF UploadRejected, UploadType
  <2> QED
    BY <1>5, <2>1 DEF UploadRejected, output
<1>6. ASSUME NEW i \in Share, UploadFails(i) PROVE SharesType'
  <2>1. uploads' = [uploads EXCEPT ![i] = NextServer(uploads[i])]
    BY <1>6 DEF UploadFails
  <2>2. taken' \subseteq Share /\ lost' \subseteq taken'
    BY <1>6 DEF UploadFails
  <2> QED
    BY <1>3, <1>6, <2>1, <2>2 DEF UploadFails, output
<1>7. count \in [Counter -> Nat]
  BY DEF TallyInv
<1>8. ASSUME ShowParts PROVE SharesType'
  BY <1>7, <1>8 DEF ShowParts, Counter
<1>9. ASSUME ShowPercents PROVE SharesType'
  <2>1. ASSUME NEW p \in Nat, NEW w \in Nat PROVE Percent(p, w) \in Nat
    BY <2>1 DEF Percent
  <2>2. count["requests"] \in Nat /\ count["accepted"] + count["rejected"] \in Nat
    BY <1>7 DEF Counter
  <2>3. screen' \in [failed : Nat, stale : Nat, retried : Nat]
    BY <1>9, <2>1, <2>2 DEF ShowPercents
  <2> QED
    BY <1>9, <2>3 DEF ShowPercents
<1>10. UNCHANGED <<block, given, disabled, threads, flags, queue, mined, injected, drained, stale>>
  BY DEF Uploads, SendResult, UploadAccepted, UploadRefused, UploadRejected, UploadFails,
         ShowStats, ShowParts, ShowPercents, world, poolVars, output
<1> QED
  BY <1>1, <1>2, <1>4, <1>5, <1>6, <1>8, <1>9, <1>10 DEF Uploads, ShowStats

LEMMA HostTypeStep ==
  ASSUME ThreadsType, SharesType, TallyInv, [HostNext]_hostVars PROVE ThreadsType' /\ SharesType'
<1>1. ASSUME \E t \in Thread : Added(t) PROVE ThreadsType'
  BY <1>1 DEF Added, ThreadsType, world, threads, flags, output
<1>2. CASE Uploads \/ ShowStats
  BY <1>2, SharesStep DEF ThreadsType, threads, flags
<1>3. CASE UNCHANGED hostVars
  BY <1>3 DEF hostVars, poolVars, shareVars, world, threads, flags, output, ThreadsType, SharesType
<1>4. CASE PoolNext /\ UNCHANGED shareVars
  <2>1. conlock' = conlock
    BY <1>4 DEF PoolNext, Added, Getwork, SkipServer, Request, NoJob, KeepJob, KillJob, PutJob, ClearHit,
                Reply, RequestFails, PollReply, PollFails, Longpoll, SetHit, DropNext, DropQueued, EndDrain,
                PollPut, PollPutDone, PollInject, PollerInjects, GroupEnds, Worker, TakeJob, WorkerWrites,
                Acknowledged, JobEnds, NewBlock, output
  <2>2. SharesType'
    BY <1>4, <2>1 DEF SharesType, shareVars
  <2> QED
    BY <1>1, <1>4, <2>2, GetterStep, PollerStep, WorkerStep DEF PoolNext
<1> QED
  BY <1>2, <1>3, <1>4 DEF HostNext

-----------------------------------------------------------------------------
(* The accounts of jobs.  A thread that counts a request is still waiting  *)
(* for its job, or decides what becomes of it; getwork alone counts those  *)
(* that failed.                                                            *)

Held == Len(queue) + One(getter.pc \in {"wait", "got", "put"}) + One(poller.pc \in {"decide", "put"})

Balanced ==
    raced \cap {"requests", "longpollkilled", "jobsaccepted"} = {} =>
        Adding("requests") - Adding("failedreqs")
            = Adding("longpollkilled") + Adding("jobsaccepted") + Held

JobsInv ==
    /\ Balanced
    /\ adding["getwork"].to = "requests" => getter.pc = "wait"
    /\ adding["longpoll"].to = "requests" => poller.pc = "decide"
    /\ "failedreqs" \notin raced

(* The jobs a count says came from the pool, or went.                      *)
Owed(c) ==
    IF c = "requests" THEN 1
    ELSE IF c \in {"failedreqs", "longpollkilled", "jobsaccepted"} THEN -1 ELSE 0

LEMMA HeldNat ==
  ASSUME ThreadsType
  PROVE  /\ Held \in Nat /\ Len(queue) \in Nat
         /\ One(getter.pc \in {"wait", "got", "put"}) \in {0, 1}
         /\ One(poller.pc \in {"decide", "put"}) \in {0, 1}
<1>1. Len(queue) \in Nat
  BY DEF ThreadsType
<1>2. One(getter.pc \in {"wait", "got", "put"}) \in {0, 1} /\ One(poller.pc \in {"decide", "put"}) \in {0, 1}
  BY DEF One
<1> QED
  BY <1>1, <1>2 DEF Held

LEMMA AddingNat == TallyInv => \A c \in Counter : Adding(c) \in Nat
  BY DEF TallyInv, Adding

LEMMA BalancedAccounts == ASSUME ThreadsType, TallyInv, Balanced PROVE JobsAccounted
<1>1. SUFFICES ASSUME raced \cap {"requests", "longpollkilled", "jobsaccepted"} = {}
               PROVE  Adding("requests") - Adding("failedreqs")
                        = Adding("longpollkilled") + Adding("jobsaccepted") + Len(queue)
                          + One(getter.pc \in {"wait", "got", "put"}) + One(poller.pc \in {"decide", "put"})
  BY DEF JobsAccounted
<1>2. Adding("longpollkilled") \in Nat /\ Adding("jobsaccepted") \in Nat
  BY AddingNat DEF Counter
<1> QED
  BY <1>1, <1>2, HeldNat DEF Balanced, Held

(* A step that counts moves as many jobs as it counts.                     *)
LEMMA AddMovesJob ==
  ASSUME ThreadsType, ThreadsType', TallyInv, JobsInv,
         NEW t \in Thread, NEW c \in Adds(t), Adds1(t, c), Held' = Held + Owed(c),
         t = "getwork" => /\ c = "requests" => getter'.pc = "wait"
                          /\ poller.pc = "decide" => poller'.pc = "decide",
         t = "longpoll" => (c = "requests" => poller'.pc = "decide") /\ getter'.pc = getter.pc,
         t \notin {"getwork", "longpoll"} => getter'.pc = getter.pc /\ poller'.pc = poller.pc
  PROVE  JobsInv'
<1> USE Names
<1>1. /\ \A d \in Counter : d # c => (d \in raced' <=> d \in raced) /\ Adding(d)' = Adding(d)
      /\ c \notin raced' => c \notin raced /\ Adding(c)' = Adding(c) + 1
      /\ adding'[t].to = c /\ raced \subseteq raced'
      /\ \A u \in Thread : u # t => adding'[u] = adding[u]
  BY AddEffect
<1>2. c \in Counter /\ Held \in Nat /\ \A d \in Counter : Adding(d) \in Nat
  BY HeldNat, AddingNat
<1>3. "failedreqs" \notin raced'
  <2>1. CASE c = "failedreqs"
    <3>1. t = "getwork"
      BY <2>1 DEF Adds
    <3>2. Adders(c) = {}
      BY <2>1, <3>1 DEF Adders, TallyInv, Adds, Adds1
    <3> QED
      BY <3>2 DEF Adds1, Add, JobsInv
  <2>2. CASE c # "failedreqs"
    BY <1>1, <2>2 DEF JobsInv, Counter
  <2> QED
    BY <2>1, <2>2
<1>4. Balanced'
  <2>1. SUFFICES ASSUME raced' \cap {"requests", "longpollkilled", "jobsaccepted"} = {}
                 PROVE  Adding("requests")' - Adding("failedreqs")'
                            = Adding("longpollkilled")' + Adding("jobsaccepted")' + Held'
    BY DEF Balanced
  <2>2. Adding("requests") - Adding("failedreqs")
            = Adding("longpollkilled") + Adding("jobsaccepted") + Held
    BY <1>1, <2>1 DEF JobsInv, Balanced
  <2> QED
    BY <1>1, <1>2, <1>3, <2>1, <2>2 DEF Owed, Counter
<1>5. adding'["getwork"].to = "requests" => getter'.pc = "wait"
  BY <1>1 DEF JobsInv
<1>6. adding'["longpoll"].to = "requests" => poller'.pc = "decide"
  BY <1>1 DEF JobsInv
<1> QED
  BY <1>3, <1>4, <1>5, <1>6 DEF JobsInv

(* A step that counts nothing moves none in or out.                        *)
LEMMA SilentMovesNone ==
  ASSUME JobsInv, UNCHANGED tally, Held' = Held,
         adding["getwork"] # NoAdd => getter'.pc = getter.pc,
         adding["longpoll"] # NoAdd => (poller.pc = "decide" => poller'.pc = "decide")
  PROVE  JobsInv'
<1>1. \A c : Adding(c)' = Adding(c)
  BY DEF tally, Adding, Adders
<1>2. Balanced'
  BY <1>1 DEF JobsInv, Balanced, tally
<1> QED
  BY <1>2, Names DEF JobsInv, tally

LEMMA WriteMovesNone ==
  ASSUME TallyInv, JobsInv, NEW t \in Thread, Written(t), Held' = Held,
         getter'.pc = getter.pc, poller'.pc = poller.pc
  PROVE  JobsInv'
<1> USE Names
<1>1. /\ raced' = raced /\ \A d \in Counter \ raced : Adding(d)' = Adding(d)
      /\ adding'[t] = NoAdd /\ \A u \in Thread : u # t => adding'[u] = adding[u]
  BY WrittenEffect
<1>2. Balanced'
  <2>1. SUFFICES ASSUME raced \cap {"requests", "longpollkilled", "jobsaccepted"} = {}
                 PROVE  Adding("requests")' - Adding("failedreqs")'
                            = Adding("longpollkilled")' + Adding("jobsaccepted")' + Held'
    BY <1>1 DEF Balanced
  <2>2. \A d \in {"requests", "failedreqs", "longpollkilled", "jobsaccepted"} : Adding(d)' = Adding(d)
    BY <1>1, <2>1 DEF JobsInv, Counter
  <2> QED
    BY <2>1, <2>2 DEF JobsInv, Balanced
<1>3. adding'["getwork"].to = "requests" => getter'.pc = "wait"
  BY <1>1 DEF JobsInv
<1>4. adding'["longpoll"].to = "requests" => poller'.pc = "decide"
  BY <1>1 DEF JobsInv
<1> QED
  BY <1>1, <1>2, <1>3, <1>4 DEF JobsInv

LEMMA GetterMoves ==
  ASSUME ThreadsType, ThreadsType', TallyInv, JobsInv, Getwork \/ Reply \/ RequestFails
  PROVE  JobsInv'
<1> USE DEF Getting, ThreadsType, GetterType
<1>1. CASE SkipServer \/ NoJob \/ KeepJob \/ ClearHit
  <2>1. /\ getter.pc \in {"wait", "got", "put"} <=> getter'.pc \in {"wait", "got", "put"}
        /\ UNCHANGED <<queue, poller, tally>> /\ adding["getwork"] = NoAdd
    BY <1>1 DEF SkipServer, NoJob, KeepJob, ClearHit, threads
  <2>2. Held' = Held
    BY <2>1 DEF Held, One
  <2> QED
    BY <2>1, <2>2, SilentMovesNone
<1>2. CASE PutJob
  <2>1. /\ getter.pc = "put" /\ getter'.pc = "clear" /\ UNCHANGED <<poller, tally>>
        /\ adding["getwork"] = NoAdd /\ queue' = Append(queue, getter.job) /\ getter.job \in Nat
    BY <1>2 DEF PutJob
  <2>2. Len(queue') = Len(queue) + 1
    BY <2>1
  <2>3. Held' = Held
    BY <2>1, <2>2, HeldNat DEF Held, One
  <2> QED
    BY <2>1, <2>3, SilentMovesNone
<1>3. ASSUME StartPolling
      PROVE  poller.pc \in {"decide", "put"} <=> poller'.pc \in {"decide", "put"}
  BY <1>3 DEF StartPolling, PollerType
<1>4. CASE Reply
  <2>1. /\ getter.pc = "wait" /\ getter'.pc = "got" /\ UNCHANGED <<queue, tally>>
        /\ adding["getwork"] = NoAdd /\ StartPolling
    BY <1>4 DEF Reply
  <2>2. Held' = Held
    BY <1>3, <2>1 DEF Held, One
  <2>3. poller.pc = "decide" => poller'.pc = "decide"
    BY <2>1 DEF StartPolling
  <2> QED
    BY <2>1, <2>2, <2>3, SilentMovesNone
<1>5. CASE Request
  <2>1. /\ getter.pc = "next" /\ getter'.pc = "wait" /\ UNCHANGED <<queue, poller>>
        /\ Adds1("getwork", "requests") /\ "requests" \in Adds("getwork") /\ "getwork" \in Thread
    BY <1>5, Names DEF Request, Adds1, Adds
  <2>2. Held' = Held + Owed("requests")
    BY <2>1, HeldNat DEF Held, One, Owed
  <2> QED
    BY <2>1, <2>2, AddMovesJob
<1>6. CASE KillJob
  <2>1. /\ getter.pc = "got" /\ getter'.pc = "clear" /\ UNCHANGED <<queue, poller>>
        /\ Adds1("getwork", "longpollkilled") /\ "longpollkilled" \in Adds("getwork") /\ "getwork" \in Thread
    BY <1>6, Names DEF KillJob, Adds1, Adds
  <2>2. Held' = Held + Owed("longpollkilled")
    BY <2>1, HeldNat DEF Held, One, Owed
  <2> QED
    BY <2>1, <2>2, AddMovesJob
<1>7. CASE RequestFails
  <2>1. /\ getter.pc = "wait" /\ getter'.pc = "next" /\ UNCHANGED queue
        /\ Adds1("getwork", "failedreqs") /\ "failedreqs" \in Adds("getwork") /\ "getwork" \in Thread
        /\ UNCHANGED poller \/ StartPolling
    BY <1>7, Names DEF RequestFails, Adds1, Adds
  <2>2. poller.pc \in {"decide", "put"} <=> poller'.pc \in {"decide", "put"}
    BY <1>3, <2>1
  <2>3. Held' = Held + Owed("failedreqs")
    BY <2>1, <2>2, HeldNat DEF Held, One, Owed
  <2>4. poller.pc = "decide" => poller'.pc = "decide"
    BY <2>1 DEF StartPolling
  <2> QED
    BY <2>1, <2>3, <2>4, AddMovesJob
<1> QED
  BY <1>1, <1>2, <1>4, <1>5, <1>6, <1>7 DEF Getwork

LEMMA PollerMoves ==
  ASSUME ThreadsType, ThreadsType', TallyInv, JobsInv, PollReply \/ PollFails \/ Longpoll \/ PollerInjects \/ GroupEnds
  PROVE  JobsInv'
<1> USE DEF Polling, ThreadsType, PollerType
<1>1. CASE PollReply \/ PollFails \/ SetHit \/ DropNext \/ PollPut \/ PollerInjects \/ GroupEnds
  <2>1. /\ poller.pc \in {"decide", "put"} <=> poller'.pc \in {"decide", "put"}
        /\ UNCHANGED <<queue, getter, tally>> /\ (adding["longpoll"] = NoAdd \/ poller' = poller)
    BY <1>1 DEF PollReply, PollFails, SetHit, DropNext, PollPut, PollerInjects, GroupEnds, threads
  <2>2. Held' = Held
    BY <2>1 DEF Held, One
  <2> QED
    BY <2>1, <2>2, SilentMovesNone
<1>2. CASE PollPutDone
  <2>1. /\ poller.pc = "put" /\ poller'.pc = "poll" /\ UNCHANGED <<getter, tally>>
        /\ adding["longpoll"] = NoAdd /\ queue' = Append(queue, poller.job) /\ poller.job \in Nat
    BY <1>2 DEF PollPutDone
  <2>2. Len(queue') = Len(queue) + 1
    BY <2>1
  <2>3. Held' = Held
    BY <2>1, <2>2, HeldNat DEF Held, One
  <2> QED
    BY <2>1, <2>3, SilentMovesNone
<1>3. CASE DropQueued
  <2>1. /\ poller.pc = "take" /\ poller'.pc = "test" /\ UNCHANGED getter
        /\ queue # <<>> /\ queue' = Tail(queue)
        /\ Adds1("longpoll", "longpollkilled") /\ "longpollkilled" \in Adds("longpoll") /\ "longpoll" \in Thread
    BY <1>3, Names DEF DropQueued, Adds1, Adds
  <2>2. Len(queue') = Len(queue) - 1
    BY <2>1
  <2>3. Held' = Held + Owed("longpollkilled")
    BY <2>1, <2>2, HeldNat DEF Held, One, Owed
  <2> QED
    BY <2>1, <2>3, AddMovesJob
<1>4. CASE EndDrain
  <2>1. /\ poller.pc \in {"test", "take"} /\ poller'.pc = "decide" /\ UNCHANGED <<queue, getter>>
        /\ Adds1("longpoll", "requests") /\ "requests" \in Adds("longpoll") /\ "longpoll" \in Thread
    BY <1>4, Names DEF EndDrain, Adds1, Adds
  <2>2. One(poller.pc \in {"decide", "put"}) = 0 /\ One(poller'.pc \in {"decide", "put"}) = 1
    BY <2>1 DEF One
  <2>3. Held' = Held + Owed("requests")
    BY <2>1, <2>2, HeldNat DEF Held, Owed
  <2> QED
    BY <2>1, <2>3, AddMovesJob
<1>5. CASE PollInject
  <2>1. /\ poller.pc = "decide" /\ poller'.pc = "inject" /\ UNCHANGED <<queue, getter>>
        /\ Adds1("longpoll", "jobsaccepted") /\ "jobsaccepted" \in Adds("longpoll") /\ "longpoll" \in Thread
    BY <1>5, Names DEF PollInject, Adds1, Adds
  <2>2. Held' = Held + Owed("jobsaccepted")
    BY <2>1, HeldNat DEF Held, One, Owed
  <2> QED
    BY <2>1, <2>2, AddMovesJob
<1> QED
  BY <1>1, <1>2, <1>3, <1>4, <1>5 DEF Longpoll

LEMMA WorkerMoves ==
  ASSUME ThreadsType, ThreadsType', TallyInv, JobsInv, Worker \/ NewBlock PROVE JobsInv'
<1> USE DEF WorkerIs
<1>1. CASE WorkerWrites \/ Acknowledged \/ JobEnds \/ NewBlock
  <2>1. UNCHANGED <<queue, getter, poller, tally>>
    BY <1>1 DEF WorkerWrites, Acknowledged, JobEnds, NewBlock, threads
  <2>2. Held' = Held
    BY <2>1 DEF Held
  <2> QED
    BY <2>1, <2>2, SilentMovesNone
<1>2. CASE TakeJob
  <2>1. /\ UNCHANGED <<getter, poller>> /\ queue # <<>> /\ queue' = Tail(queue)
        /\ Adds1("worker", "jobsaccepted") /\ "jobsaccepted" \in Adds("worker") /\ "worker" \in Thread
    BY <1>2, Names DEF TakeJob, Adds1, Adds
  <2>2. Len(queue') = Len(queue) - 1
    BY <2>1 DEF ThreadsType
  <2>3. Held' = Held + Owed("jobsaccepted")
    BY <2>1, <2>2, HeldNat DEF Held, Owed
  <2> QED
    BY <2>1, <2>3, AddMovesJob
<1> QED
  BY <1>1, <1>2 DEF Worker

LEMMA JobsStep ==
  ASSUME ThreadsType, ThreadsType', SharesType, TallyInv, JobsInv, [HostNext]_hostVars PROVE JobsInv'
<1>1. ASSUME NEW t \in Thread, Added(t) PROVE JobsInv'
  <2>1. Written(t) /\ UNCHANGED <<queue, getter, poller>>
    BY <1>1 DEF Added, Written, threads
  <2>2. Held' = Held
    BY <2>1 DEF Held
  <2> QED
    BY <2>1, <2>2, WriteMovesNone
<1>2. ASSUME UNCHANGED <<queue, getter, poller, tally>> PROVE JobsInv'
  <2>1. Held' = Held
    BY <1>2 DEF Held
  <2> QED
    BY <1>2, <2>1, SilentMovesNone
<1>3. CASE Uploads \/ ShowStats
  <2>1. UNCHANGED <<queue, getter, poller>>
    BY <1>3, SharesStep DEF threads
  <2>2. CASE SendResult \/ ShowStats \/ \E i \in Share : UploadRefused(i)
    <3>1. UNCHANGED tally
      BY <2>2 DEF SendResult, ShowStats, ShowParts, ShowPercents, UploadRefused, poolVars
    <3> QED
      BY <1>2, <2>1, <3>1
  <2>3. ASSUME NEW i \in Share, UploadAccepted(i) \/ UploadRejected(i) \/ UploadFails(i) PROVE JobsInv'
    <3>1. PICK c \in {"accepted", "rejected", "uploadretries"} : Adds1(i, c)
      BY <2>3 DEF UploadAccepted, UploadRejected, UploadFails, Uploading, Adds1, Adds
    <3>2. c \in Adds(i) /\ i \in Thread /\ i \notin {"getwork", "longpoll"}
      BY <3>1, Names DEF Adds
    <3>3. Held' = Held + Owed(c)
      BY <2>1, <3>1, HeldNat DEF Held, Owed
    <3> QED
      BY <2>1, <3>1, <3>2, <3>3, AddMovesJob
  <2> QED
    BY <1>3, <2>2, <2>3 DEF Uploads
<1>4. CASE UNCHANGED hostVars
  BY <1>2, <1>4 DEF hostVars, poolVars, threads
<1> QED
  BY <1>1, <1>3, <1>4, GetterMoves, PollerMoves, WorkerMoves DEF HostNext, PoolNext

LEMMA JobsInit == HostInit => JobsInv
<1> SUFFICES ASSUME HostInit PROVE JobsInv
  OBVIOUS
<1>1. \A c \in Counter : Adding(c) = 0
  BY DEF HostInit, PoolInit, Adding, Adders, NoAdd, Counter
<1>2. Held = 0
  BY DEF HostInit, PoolInit, Held, One
<1>3. Balanced
  BY <1>1, <1>2 DEF Balanced, Counter
<1> QED
  BY <1>3, Names DEF HostInit, PoolInit, JobsInv

-----------------------------------------------------------------------------
(* The accounts of shares.  A counter of n shares holds at most n, as does *)
(* what a thread will write to it, and n once all have, if none raced.     *)

Answered == taken \ lost

Counted(c, n) ==
    /\ count[c] <= n
    /\ \A t \in Adders(c) : adding[t].n < n
    /\ c \notin raced => Adding(c) = n

SharesInv ==
    /\ \A i \in Share : i \in Answered <=> uploads[i].pc = "accepted"
    /\ Counted("accepted", Cardinality(Answered))
    /\ Counted("rejected", Cardinality(Rejected))

LEMMA CountAdd ==
  ASSUME TallyInv, NEW t \in Thread, NEW c \in Adds(t), Adds1(t, c), NEW n \in Nat, Counted(c, n)
  PROVE  Counted(c, n + 1)'
<1>1. /\ count' = count /\ (c \notin raced' => c \notin raced /\ Adding(c)' = Adding(c) + 1)
      /\ adding'[t].n = count[c] /\ \A u \in Thread : u # t => adding'[u] = adding[u]
  BY AddEffect
<1>2. count[c] \in Nat /\ \A u \in Thread : adding[u].n \in Nat
  BY Names DEF TallyInv, AddType
<1>3. ASSUME NEW u \in Adders(c)' PROVE adding'[u].n < n + 1
  <2>1. CASE u = t
    BY <1>1, <1>2, <2>1 DEF Counted
  <2>2. CASE u # t
    <3>1. u \in Thread /\ adding'[u] = adding[u] /\ u \in Adders(c)
      BY <1>1, <2>2 DEF Adders
    <3> QED
      BY <1>2, <3>1 DEF Counted
  <2> QED
    BY <2>1, <2>2
<1>4. count'[c] <= n + 1
  BY <1>1, <1>2 DEF Counted
<1>5. c \notin raced' => Adding(c)' = n + 1
  BY <1>1 DEF Counted
<1> QED
  BY <1>3, <1>4, <1>5 DEF Counted

LEMMA CountOther ==
  ASSUME TallyInv, NEW t \in Thread, NEW c \in Adds(t), Adds1(t, c), NEW d \in Counter, d # c,
         NEW n \in Nat, Counted(d, n)
  PROVE  Counted(d, n)'
<1>1. /\ count' = count /\ (d \in raced' <=> d \in raced) /\ Adding(d)' = Adding(d)
      /\ adding'[t].to = c /\ \A u \in Thread : u # t => adding'[u] = adding[u]
  BY AddEffect
<1>2. ASSUME NEW u \in Adders(d)' PROVE adding'[u].n < n
  <2>1. u \in Thread /\ u # t
    BY <1>1, <1>2 DEF Adders
  <2>2. adding'[u] = adding[u] /\ u \in Adders(d)
    BY <1>1, <2>1 DEF Adders
  <2> QED
    BY <2>2 DEF Counted
<1> QED
  BY <1>1, <1>2 DEF Counted

LEMMA CountWritten ==
  ASSUME TallyInv, NEW t \in Thread, Written(t), NEW d \in Counter, NEW n \in Nat, Counted(d, n)
  PROVE  Counted(d, n)'
<1> USE Names
<1>1. /\ raced' = raced /\ \A e \in Counter \ raced : Adding(e)' = Adding(e)
      /\ \A e \in Counter : e # adding[t].to => count'[e] = count[e]
      /\ count'[adding[t].to] = adding[t].n + 1
      /\ adding'[t] = NoAdd /\ \A u \in Thread : u # t => adding'[u] = adding[u]
  BY WrittenEffect
<1>2. ASSUME NEW u \in Adders(d)' PROVE adding'[u].n < n
  <2>1. u \in Thread /\ u # t
    BY <1>1, <1>2 DEF Adders
  <2>2. adding'[u] = adding[u] /\ u \in Adders(d)
    BY <1>1, <2>1 DEF Adders
  <2> QED
    BY <2>2 DEF Counted
<1>3. count'[d] <= n
  <2>1. CASE d = adding[t].to
    <3>1. adding[t].n < n /\ adding[t].n \in Nat
      BY <2>1 DEF Adders, Counted, TallyInv, AddType
    <3> QED
      BY <1>1, <2>1, <3>1
  <2>2. CASE d # adding[t].to
    BY <1>1, <2>2 DEF Counted
  <2> QED
    BY <2>1, <2>2
<1> QED
  BY <1>1, <1>2, <1>3 DEF Counted

LEMMA CountSame ==
  ASSUME UNCHANGED tally, NEW c, NEW n, Counted(c, n) PROVE Counted(c, n)'
  BY DEF tally, Counted, Adding, Adders

LEMMA Finite ==
  ASSUME SharesType PROVE Cardinality(Answered) \in Nat /\ Cardinality(Rejected) \in Nat
<1>1. Answered \subseteq Share /\ Rejected \subseteq Share
  BY DEF SharesType, Answered, Rejected
<1>2. IsFiniteSet(Answered) /\ IsFiniteSet(Rejected)
  BY <1>1, PoolAssumption, FS_Subset
<1> QED
  BY <1>2, FS_CardinalityType

LEMMA OneMore ==
  ASSUME NEW S \in SUBSET Share, NEW i \in Share, i \notin S
  PROVE  Cardinality(S \cup {i}) = Cardinality(S) + 1
<1>1. IsFiniteSet(S)
  BY PoolAssumption, FS_Subset
<1> QED
  BY <1>1, FS_AddElement

LEMMA SharesInit == HostInit => SharesInv
<1> SUFFICES ASSUME HostInit PROVE SharesInv
  OBVIOUS
<1>1. Answered = {} /\ Rejected = {} /\ \A i \in Share : uploads[i].pc = "none"
  BY DEF HostInit, Answered, Rejected
<1>2. Cardinality(Answered) = 0 /\ Cardinality(Rejected) = 0
  BY <1>1, FS_EmptySet
<1>3. \A c \in Counter : count[c] = 0 /\ Adders(c) = {}
  BY DEF HostInit, PoolInit, Adders, NoAdd, Counter
<1>4. Counted("accepted", 0) /\ Counted("rejected", 0)
  BY <1>3 DEF Counted, Adding, Counter
<1> QED
  BY <1>1, <1>2, <1>4 DEF SharesInv

(* A step that leaves the shares where they are, whatever it counts.       *)
LEMMA SameShares ==
  ASSUME SharesType, TallyInv, SharesInv, UNCHANGED <<taken, lost>>,
         \A i \in Share : /\ uploads'[i].pc = "accepted" <=> uploads[i].pc = "accepted"
                          /\ uploads'[i].pc = "rejected" <=> uploads[i].pc = "rejected",
         \/ UNCHANGED tally
         \/ \E t \in Thread : Written(t)
         \/ \E t \in Thread : \E c \in Adds(t) : Adds1(t, c) /\ c \notin {"accepted", "rejected"}
  PROVE  SharesInv'
<1>1. PICK n \in Nat, m \in Nat : n = Cardinality(Answered) /\ m = Cardinality(Rejected)
  BY Finite
<1>2. Answered' = Answered /\ Rejected' = Rejected
  BY DEF Answered, Rejected
<1>3. Counted("accepted", n) /\ Counted("rejected", m) /\ "accepted" \in Counter /\ "rejected" \in Counter
  BY <1>1 DEF SharesInv, Counter
<1>4. CASE UNCHANGED tally
  <2>1. Counted("accepted", n)' /\ Counted("rejected", m)'
    BY <1>3, <1>4, CountSame
  <2> QED
    BY <1>1, <1>2, <2>1 DEF SharesInv
<1>5. ASSUME NEW t \in Thread, Written(t) PROVE SharesInv'
  <2>1. Counted("accepted", n)' /\ Counted("rejected", m)'
    BY <1>3, <1>5, CountWritten
  <2> QED
    BY <1>1, <1>2, <2>1 DEF SharesInv
<1>6. ASSUME NEW t \in Thread, NEW c \in Adds(t), Adds1(t, c), c \notin {"accepted", "rejected"}
      PROVE  SharesInv'
  <2>1. Counted("accepted", n)' /\ Counted("rejected", m)'
    BY <1>3, <1>6, CountOther
  <2> QED
    BY <1>1, <1>2, <2>1 DEF SharesInv
<1> QED
  BY <1>4, <1>5, <1>6

LEMMA AcceptedStep ==
  ASSUME SharesType, SharesType', TallyInv, SharesInv, NEW i \in Share, UploadAccepted(i)
  PROVE  SharesInv'
<1> USE Names
<1>1. PICK n \in Nat, m \in Nat : n = Cardinality(Answered) /\ m = Cardinality(Rejected)
  BY Finite
<1>2. /\ uploads[i].pc = "ask" /\ i \notin taken /\ taken' = taken \cup {i} /\ lost' = lost
      /\ uploads' = [uploads EXCEPT ![i].pc = "accepted"]
      /\ Adds1(i, "accepted") /\ "accepted" \in Adds(i) /\ i \in Thread
  BY DEF UploadAccepted, Uploading, Adds1, Adds
<1>3. \A j \in Share : uploads'[j].pc = IF j = i THEN "accepted" ELSE uploads[j].pc
  BY <1>2 DEF SharesType, UploadType
<1>4. Answered' = Answered \cup {i} /\ i \notin Answered /\ Answered \in SUBSET Share
  BY <1>2 DEF Answered, SharesType
<1>5. Rejected' = Rejected
  BY <1>2, <1>3 DEF Rejected
<1>6. Cardinality(Answered') = n + 1 /\ Cardinality(Rejected') = m
  BY <1>1, <1>4, <1>5, OneMore
<1>7. Counted("accepted", n + 1)'
  BY <1>1, <1>2, CountAdd DEF SharesInv
<1>8. Counted("rejected", m)'
  BY <1>1, <1>2, CountOther DEF SharesInv, Counter
<1> QED
  BY <1>3, <1>4, <1>6, <1>7, <1>8 DEF SharesInv

LEMMA RejectedStep ==
  ASSUME SharesType, SharesType', TallyInv, SharesInv, NEW i \in Share, UploadRejected(i)
  PROVE  SharesInv'
<1> USE Names
<1>1. PICK n \in Nat, m \in Nat : n = Cardinality(Answered) /\ m = Cardinality(Rejected)
  BY Finite
<1>2. /\ uploads[i].pc = "ask" /\ UNCHANGED <<taken, lost>>
      /\ uploads' = [uploads EXCEPT ![i].pc = "rejected", ![i].failed = @ + 1]
      /\ Adds1(i, "rejected") /\ "rejected" \in Adds(i) /\ i \in Thread
  BY DEF UploadRejected, Uploading, Adds1, Adds
<1>3. \A j \in Share : uploads'[j].pc = IF j = i THEN "rejected" ELSE uploads[j].pc
  BY <1>2 DEF SharesType, UploadType
<1>4. Rejected' = Rejected \cup {i} /\ i \notin Rejected /\ Rejected \in SUBSET Share
  BY <1>2, <1>3 DEF Rejected
<1>5. Answered' = Answered
  BY <1>2 DEF Answered
<1>6. Cardinality(Rejected') = m + 1 /\ Cardinality(Answered') = n
  BY <1>1, <1>4, <1>5, OneMore
<1>7. Counted("rejected", m + 1)'
  BY <1>1, <1>2, CountAdd DEF SharesInv
<1>8. Counted("accepted", n)'
  BY <1>1, <1>2, CountOther DEF SharesInv, Counter
<1>9. \A j \in Share : j \in Answered' <=> uploads'[j].pc = "accepted"
  <2>1. \A j \in Share : j \in Answered <=> uploads[j].pc = "accepted"
    BY DEF SharesInv
  <2> SUFFICES ASSUME NEW j \in Share PROVE j \in Answered' <=> uploads'[j].pc = "accepted"
    OBVIOUS
  <2>2. CASE j = i
    <3>1. i \notin Answered /\ uploads'[i].pc = "rejected"
      BY <1>2, <1>3, <2>1
    <3> QED
      BY <1>5, <2>2, <3>1
  <2>3. CASE j # i
    BY <1>3, <1>5, <2>1, <2>3
  <2> QED
    BY <2>2, <2>3
<1> QED
  BY <1>6, <1>7, <1>8, <1>9 DEF SharesInv

(* A call that fails counts as neither, though the pool may have the share. *)
LEMMA FailedStep ==
  ASSUME SharesType, TallyInv, SharesInv, NEW i \in Share, UploadFails(i)
  PROVE  SharesInv'
<1> USE Names
<1>1. PICK n \in Nat, m \in Nat : n = Cardinality(Answered) /\ m = Cardinality(Rejected)
  BY Finite
<1>2. /\ uploads' = [uploads EXCEPT ![i] = NextServer(uploads[i])]
      /\ Adds1(i, "uploadretries") /\ "uploadretries" \in Adds(i) /\ i \in Thread
      /\ \/ UNCHANGED <<taken, lost>>
         \/ i \notin taken /\ taken' = taken \cup {i} /\ lost' = lost \cup {i}
  BY DEF UploadFails, Uploading, Adds1, Adds
<1>3. NextServer(uploads[i]).pc = uploads[i].pc
  BY DEF SharesType, UploadType, NextServer
<1>4. \A j \in Share : uploads'[j].pc = uploads[j].pc
  BY <1>2, <1>3 DEF SharesType
<1>5. Answered' = Answered /\ Rejected' = Rejected
  BY <1>2, <1>4 DEF Answered, Rejected, SharesType
<1>6. Counted("accepted", n)' /\ Counted("rejected", m)'
  BY <1>1, <1>2, CountOther DEF SharesInv, Counter
<1> QED
  BY <1>1, <1>4, <1>5, <1>6 DEF SharesInv

LEMMA SharesInvStep ==
  ASSUME SharesType, SharesType', TallyInv, SharesInv, [HostNext]_hostVars PROVE SharesInv'
<1>1. CASE PoolNext /\ UNCHANGED shareVars
  <2>1. \/ UNCHANGED tally
        \/ \E t \in Thread : Written(t)
        \/ \E t \in Thread : \E c \in Adds(t) : Adds1(t, c) /\ c \notin {"accepted", "rejected"}
    <3> USE DEF Getting, Polling, WorkerIs, Adds1, Adds
    <3>1. CASE \E t \in Thread : Added(t)
      BY <3>1 DEF Added, Written
    <3>2. CASE Getwork \/ Reply \/ RequestFails
      <4>1. \/ UNCHANGED tally
            \/ \E c \in Adds("getwork") : Adds1("getwork", c) /\ c \notin {"accepted", "rejected"}
        BY <3>2, Names DEF Getwork, SkipServer, Request, NoJob, KeepJob, KillJob, PutJob, ClearHit, Reply,
                           RequestFails
      <4> QED
        BY <4>1, Names
    <3>3. CASE PollReply \/ PollFails \/ Longpoll \/ PollerInjects \/ GroupEnds
      <4>1. \/ UNCHANGED tally
            \/ \E c \in Adds("longpoll") : Adds1("longpoll", c) /\ c \notin {"accepted", "rejected"}
        BY <3>3, Names DEF PollReply, PollFails, Longpoll, SetHit, DropNext, DropQueued, EndDrain, PollPut,
                           PollPutDone, PollInject, PollerInjects, GroupEnds
      <4> QED
        BY <4>1, Names
    <3>4. CASE Worker \/ NewBlock
      <4>1. \/ UNCHANGED tally
            \/ \E c \in Adds("worker") : Adds1("worker", c) /\ c \notin {"accepted", "rejected"}
        BY <3>4, Names DEF Worker, TakeJob, WorkerWrites, Acknowledged, JobEnds, NewBlock
      <4> QED
        BY <4>1, Names
    <3> QED
      BY <1>1, <3>1, <3>2, <3>3, <3>4 DEF PoolNext
  <2> QED
    BY <1>1, <2>1, SameShares DEF shareVars
<1>2. CASE UNCHANGED hostVars
  <2>1. UNCHANGED <<taken, lost, uploads, tally>>
    BY <1>2 DEF hostVars, shareVars, poolVars
  <2> QED
    BY <2>1, SameShares
<1>3. CASE ShowStats
  <2>1. UNCHANGED <<taken, lost, uploads, tally>>
    BY <1>3 DEF ShowStats, ShowParts, ShowPercents
  <2> QED
    BY <2>1, SameShares
<1>4. CASE SendResult
  <2>1. PICK j : j \in Share \ Found /\ uploads' = [uploads EXCEPT ![j].pc = "ask"]
    <3>1. \E j \in Share : j \notin Found
      BY <1>4 DEF SendResult, Found
    <3> QED
      BY <1>4, <3>1 DEF SendResult
  <2>2. \A i \in Share : /\ uploads'[i].pc = "accepted" <=> uploads[i].pc = "accepted"
                         /\ uploads'[i].pc = "rejected" <=> uploads[i].pc = "rejected"
    BY <2>1 DEF SharesType, UploadType, Found
  <2> QED
    BY <1>4, <2>2, SameShares DEF SendResult, poolVars
<1>5. ASSUME NEW i \in Share, UploadRefused(i) PROVE SharesInv'
  <2>1. /\ uploads' = [uploads EXCEPT ![i] = [NextServer(uploads[i]) EXCEPT !.failed = uploads[i].failed + 1]]
        /\ UNCHANGED <<taken, lost, tally>>
    BY <1>5 DEF UploadRefused, poolVars
  <2>2. [NextServer(uploads[i]) EXCEPT !.failed = uploads[i].failed + 1].pc = uploads[i].pc
    BY DEF SharesType, UploadType, NextServer
  <2>3. \A j \in Share : uploads'[j].pc = uploads[j].pc
    BY <2>1, <2>2 DEF SharesType
  <2> QED
    BY <2>1, <2>3, SameShares
<1> QED
  BY <1>1, <1>2, <1>3, <1>4, <1>5, AcceptedStep, RejectedStep, FailedStep DEF HostNext, Uploads

LEMMA SharesInvAccounts == ASSUME SharesType, SharesInv PROVE SharesAccounted
<1>1. Rejected \cap Answered = {}
  BY DEF SharesInv, Rejected
<1> QED
  BY <1>1 DEF SharesInv, SharesAccounted, Counted, Answered

-----------------------------------------------------------------------------
(* The screen.  Nobody draws a counter that went down, if none raced.      *)

ScreenInv ==
    raced = {} =>
        IF conlock THEN screen.failed <= count["failedreqs"] /\ screen.stale <= count["rejected"]
        ELSE screen.failed <= 100 /\ screen.stale <= 100

LEMMA PercentBound ==
  ASSUME NEW p \in Nat, NEW w \in Nat, p <= w PROVE Percent(p, w) <= 100
<1>1. CASE w = 0
  BY <1>1 DEF Percent
<1>2. CASE w # 0
  <2>1. 100 * p <= 100 * w
    OBVIOUS
  <2>2. (100 * p) \div w <= 100
    <3> DEFINE a == 100 * p
               q == a \div w
    <3>1. a \in Nat /\ a <= 100 * w
      BY <2>1
    <3> HIDE DEF a
    <3>2. q \in Int /\ w * q <= a
      BY <1>2, <3>1
    <3> HIDE DEF q
    <3>3. SUFFICES ASSUME q >= 101 PROVE FALSE
      BY <3>2 DEF q, a
    <3>4. w * q >= w * 101
      BY <3>2, <3>3
    <3> QED
      BY <1>2, <3>1, <3>2, <3>4
  <2> QED
    BY <1>2, <2>2 DEF Percent
<1> QED
  BY <1>1, <1>2

(* A request is counted before it can fail.                                *)
LEMMA FailedAfterRequested ==
  ASSUME ThreadsType, TallyInv, JobsInv, raced = {} PROVE count["failedreqs"] <= count["requests"]
<1>1. /\ count["requests"] \in Nat /\ count["failedreqs"] \in Nat
      /\ Adding("longpollkilled") \in Nat /\ Adding("jobsaccepted") \in Nat
  BY AddingNat DEF TallyInv, Counter
<1>2. Adding("requests") - Adding("failedreqs")
          = Adding("longpollkilled") + Adding("jobsaccepted") + Held
  BY DEF JobsInv, Balanced
<1>3. count["failedreqs"] <= Adding("failedreqs") /\ Adding("failedreqs") \in Nat
  BY <1>1 DEF Adding
<1>4. CASE Adders("requests") = {}
  <2>1. Adding("requests") = count["requests"]
    BY <1>4 DEF Adding
  <2> QED
    BY <1>1, <1>2, <1>3, <2>1, HeldNat
<1>5. CASE Adders("requests") # {}
  <2>1. PICK t \in Thread : adding[t].to = "requests"
    BY <1>5 DEF Adders
  <2>2. t = "getwork" \/ t = "longpoll"
    BY <2>1, Names DEF TallyInv, Adds, NoAdd, Thread, Threads
  <2>3. getter.pc = "wait" \/ poller.pc = "decide"
    BY <2>1, <2>2 DEF JobsInv
  <2>4. One(getter.pc \in {"wait", "got", "put"}) = 1 \/ One(poller.pc \in {"decide", "put"}) = 1
    BY <2>3 DEF One
  <2>5. Held >= 1
    BY <2>4, HeldNat DEF Held
  <2>6. Adding("requests") = count["requests"] + 1
    BY <1>5 DEF Adding
  <2> QED
    BY <1>1, <1>2, <1>3, <2>5, <2>6, HeldNat
<1> QED
  BY <1>4, <1>5

LEMMA ScreenStep ==
  ASSUME ThreadsType, SharesType, SharesType', TallyInv, JobsInv, ScreenInv, [HostNext]_hostVars PROVE ScreenInv'
<1> SUFFICES ASSUME raced' = {} PROVE ScreenInv'
  BY DEF ScreenInv
<1>1. raced = {} /\ count'["failedreqs"] >= count["failedreqs"] /\ count'["rejected"] >= count["rejected"]
  <2>1. count["failedreqs"] \in Nat /\ count["rejected"] \in Nat
    BY DEF TallyInv, Counter
  <2>2. CASE UNCHANGED tally \/ UNCHANGED hostVars
    BY <2>1, <2>2 DEF tally, hostVars, poolVars
  <2>3. ASSUME NEW t \in Thread, Written(t)
        PROVE  raced = {} /\ \A d \in {"failedreqs", "rejected"} : count'[d] >= count[d]
    BY <2>3, WrittenEffect DEF Counter
  <2>4. ASSUME NEW t \in Thread, NEW c \in Adds(t), Adds1(t, c) PROVE count' = count /\ raced = {}
    BY <2>4, AddEffect
  <2> QED
    BY <2>1, <2>2, <2>3, <2>4, TallyEffect
<1>2. /\ count["failedreqs"] \in Nat /\ count["rejected"] \in Nat /\ count["accepted"] \in Nat
      /\ count["requests"] \in Nat /\ screen.failed \in Nat /\ screen.stale \in Nat
  BY DEF TallyInv, Counter, SharesType
<1>3. CASE UNCHANGED <<conlock, screen>>
  <2>1. count'["failedreqs"] \in Nat /\ count'["rejected"] \in Nat
    BY <1>1, <1>2, TallyStep DEF TallyInv, Counter
  <2> QED
    BY <1>1, <1>2, <1>3, <2>1 DEF ScreenInv
<1>4. CASE ShowParts
  BY <1>1, <1>2, <1>4 DEF ShowParts, ScreenInv, tally
<1>5. CASE ShowPercents
  <2>1. screen.failed <= count["requests"]
    BY <1>1, <1>2, <1>5, FailedAfterRequested DEF ScreenInv, ShowPercents
  <2>2. screen.stale <= count["accepted"] + count["rejected"]
    BY <1>1, <1>2, <1>5 DEF ScreenInv, ShowPercents
  <2>3. screen'.failed <= 100 /\ screen'.stale <= 100
    <3>1. /\ screen'.failed = Percent(screen.failed, count["requests"])
          /\ screen'.stale = Percent(screen.stale, count["accepted"] + count["rejected"])
      BY <1>5 DEF ShowPercents
    <3> QED
      BY <1>2, <2>1, <2>2, <3>1, PercentBound
  <2> QED
    BY <1>5, <2>3 DEF ScreenInv, ShowPercents
<1>6. ASSUME PoolNext \/ Uploads PROVE UNCHANGED conlock
  BY <1>6 DEF PoolNext, Added, Getwork, SkipServer, Request, NoJob, KeepJob, KillJob, PutJob, ClearHit,
              Reply, RequestFails, PollReply, PollFails, Longpoll, SetHit, DropNext, DropQueued, EndDrain,
              PollPut, PollPutDone, PollInject, PollerInjects, GroupEnds, Worker, TakeJob, WorkerWrites,
              Acknowledged, JobEnds, NewBlock, output, poolVars,
              Uploads, SendResult, UploadAccepted, UploadRefused, UploadRejected, UploadFails
<1>7. CASE PoolNext /\ UNCHANGED shareVars
  BY <1>3, <1>6, <1>7 DEF shareVars
<1>8. CASE Uploads
  <2>1. UNCHANGED screen
    BY <1>8 DEF Uploads, SendResult, UploadAccepted, UploadRefused, UploadRejected, UploadFails
  <2> QED
    BY <1>3, <1>6, <1>8, <2>1
<1>9. CASE UNCHANGED hostVars
  BY <1>3, <1>9 DEF hostVars, poolVars, shareVars, output
<1> QED
  BY <1>4, <1>5, <1>7, <1>8, <1>9 DEF HostNext, ShowStats

-----------------------------------------------------------------------------
(* Jobs of blocks gone by.  Once the queue was empty, one job older than b *)
(* can be in the worker's hands and one in getwork's, and no more come:    *)
(* n have been written or taken, g is one if getwork has one, and q may    *)
(* hold the one that it has put.  With a drain that was cut short, getwork *)
(* has none left, and the queue's old jobs are all that can come.          *)

Few(q, n, g, b, drd) ==
    IF drd
    THEN /\ n <= 2
         /\ g = 1 => n <= 1 /\ \A i \in 1 .. Len(q) : q[i] >= b
         /\ \A i, j \in 1 .. Len(q) : q[i] < b /\ q[j] < b => n <= 1 /\ i = j
    ELSE /\ n <= Buffer + 1 /\ g = 0
         /\ \A i \in 1 .. Len(q) : q[i] < b => n + i <= Buffer + 1

LEMMA FewLess ==
  ASSUME NEW q \in Seq(Nat), NEW b \in Nat, NEW drd \in BOOLEAN, NEW n \in Nat, NEW g \in {0, 1},
         NEW m \in Nat, NEW h \in {0, 1}, Few(q, n, g, b, drd), m <= n, h <= g
  PROVE  Few(q, m, h, b, drd)
<1>1. CASE drd
  BY <1>1 DEF Few
<1>2. CASE ~drd
  BY <1>2, PoolAssumption DEF Few
<1> QED
  BY <1>1, <1>2

LEMMA FewAppend ==
  ASSUME NEW q \in Seq(Nat), NEW b \in Nat, NEW drd \in BOOLEAN, NEW n \in Nat, NEW g \in {0, 1},
         NEW x \in Nat, Few(q, n, g, b, drd)
  PROVE  /\ x >= b => Few(Append(q, x), n, g, b, drd)
         /\ g = 1 => Few(Append(q, x), n, 0, b, drd)
<1> DEFINE r == Append(q, x)
<1>1. /\ Len(r) = Len(q) + 1 /\ r[Len(q) + 1] = x /\ \A i \in 1 .. Len(q) : r[i] = q[i]
      /\ Len(q) \in Nat /\ r \in Seq(Nat)
  OBVIOUS
<1> HIDE DEF r
<1>2. \A i \in 1 .. Len(r) : i \in 1 .. Len(q) \/ i = Len(q) + 1
  BY <1>1
<1>3. ASSUME x >= b PROVE Few(r, n, g, b, drd)
  <2>1. ASSUME NEW i \in 1 .. Len(r), r[i] < b PROVE i \in 1 .. Len(q) /\ q[i] < b
    <3>1. CASE i = Len(q) + 1
      BY <1>1, <1>3, <2>1, <3>1
    <3>2. CASE i \in 1 .. Len(q)
      BY <1>1, <2>1, <3>2
    <3> QED
      BY <1>2, <3>1, <3>2
  <2>2. CASE drd
    <3>1. g = 1 => n <= 1 /\ \A i \in 1 .. Len(r) : r[i] >= b
      BY <1>1, <1>2, <1>3, <2>2 DEF Few
    <3>2. \A i, j \in 1 .. Len(r) : r[i] < b /\ r[j] < b => n <= 1 /\ i = j
      BY <2>1, <2>2 DEF Few
    <3> QED
      BY <2>2, <3>1, <3>2 DEF Few
  <2>3. CASE ~drd
    BY <2>1, <2>3 DEF Few
  <2> QED
    BY <2>2, <2>3
<1>4. ASSUME g = 1 PROVE Few(r, n, 0, b, drd)
  <2>1. drd /\ n <= 1 /\ \A i \in 1 .. Len(q) : q[i] >= b
    BY <1>4 DEF Few
  <2>2. ASSUME NEW i \in 1 .. Len(r), r[i] < b PROVE i = Len(q) + 1
    <3>1. SUFFICES ASSUME i \in 1 .. Len(q) PROVE FALSE
      BY <1>2
    <3>2. r[i] = q[i]
      BY <1>1, <3>1
    <3>3. q[i] \in Nat /\ q[i] >= b
      BY <2>1, <3>1
    <3> QED
      BY <2>2, <3>2, <3>3
  <2> QED
    BY <2>1, <2>2 DEF Few
<1> QED
  BY <1>3, <1>4 DEF r

LEMMA FewTail ==
  ASSUME NEW q \in Seq(Nat), NEW b \in Nat, NEW drd \in BOOLEAN, NEW n \in Nat, NEW g \in {0, 1},
         q # <<>>, Few(q, n, g, b, drd)
  PROVE  /\ Few(Tail(q), n, g, b, drd)
         /\ Head(q) < b => Few(Tail(q), n + 1, g, b, drd)
<1> DEFINE r == Tail(q)
<1>1. /\ Len(r) = Len(q) - 1 /\ \A i \in 1 .. Len(r) : r[i] = q[i + 1] /\ i + 1 \in 1 .. Len(q)
      /\ Len(q) \in Nat /\ 1 \in 1 .. Len(q) /\ Head(q) = q[1] /\ r \in Seq(Nat)
  OBVIOUS
<1> HIDE DEF r
<1>2. Few(r, n, g, b, drd)
  <2>1. CASE drd
    <3>1. g = 1 => n <= 1 /\ \A i \in 1 .. Len(r) : r[i] >= b
      BY <1>1, <2>1 DEF Few
    <3>2. ASSUME NEW i \in 1 .. Len(r), NEW j \in 1 .. Len(r), r[i] < b, r[j] < b PROVE n <= 1 /\ i = j
      <4>1. n <= 1 /\ i + 1 = j + 1
        BY <1>1, <2>1, <3>2 DEF Few
      <4> QED
        BY <4>1
    <3> QED
      BY <2>1, <3>1, <3>2 DEF Few
  <2>2. CASE ~drd
    <3>1. ASSUME NEW i \in 1 .. Len(r), r[i] < b PROVE n + i <= Buffer + 1
      <4>1. n + (i + 1) <= Buffer + 1
        BY <1>1, <2>2, <3>1 DEF Few
      <4> QED
        BY <4>1, PoolAssumption
    <3> QED
      BY <2>2, <3>1 DEF Few
  <2> QED
    BY <2>1, <2>2
<1>3. ASSUME Head(q) < b PROVE Few(r, n + 1, g, b, drd)
  <2>1. CASE drd
    <3>1. n <= 1 /\ g = 0 /\ \A j \in 1 .. Len(q) : q[j] < b => j = 1
      BY <1>1, <1>3, <2>1 DEF Few
    <3>2. \A i \in 1 .. Len(r) : ~(r[i] < b)
      <4>1. SUFFICES ASSUME NEW i \in 1 .. Len(r), r[i] < b PROVE FALSE
        OBVIOUS
      <4>2. i + 1 = 1
        BY <1>1, <3>1, <4>1
      <4> QED
        BY <4>2
    <3> QED
      BY <2>1, <3>1, <3>2 DEF Few
  <2>2. CASE ~drd
    <3>1. n + 1 <= Buffer + 1
      BY <1>1, <1>3, <2>2 DEF Few
    <3>2. ASSUME NEW i \in 1 .. Len(r), r[i] < b PROVE n + 1 + i <= Buffer + 1
      <4>1. n + (i + 1) <= Buffer + 1
        BY <1>1, <2>2, <3>2 DEF Few
      <4> QED
        BY <4>1, PoolAssumption
    <3> QED
      BY <2>2, <3>1, <3>2 DEF Few
  <2> QED
    BY <2>1, <2>2
<1> QED
  BY <1>2, <1>3 DEF r

(* What a drain leaves.                                                    *)
LEMMA FewStart ==
  ASSUME NEW q \in Seq(Nat), NEW b \in Nat, NEW n \in {0, 1}
  PROVE  /\ Len(q) <= Buffer => Few(q, n, 0, b, FALSE)
         /\ \A g \in {0, 1} : q = <<>> => Few(q, n, g, b, TRUE)
<1>1. ASSUME Len(q) <= Buffer PROVE Few(q, n, 0, b, FALSE)
  BY <1>1, PoolAssumption DEF Few
<1>2. ASSUME NEW g \in {0, 1}, q = <<>> PROVE Few(q, n, g, b, TRUE)
  BY <1>2 DEF Few
<1> QED
  BY <1>1, <1>2

GetterOld(b) == One(getter.pc \in {"got", "put"} /\ getter.job < b)
WorkerOld(b) == One(worker.pc = "have" /\ worker.job < b)
OldOf(b, drd, st) == Few(queue, st + WorkerOld(b), GetterOld(b), b, drd)

StaleInv ==
    /\ injected <= poller.job /\ poller.job <= block
    /\ poller.pc \in {"test", "take"} /\ ~longpollhit => GetterOld(poller.job) = 0
    /\ poller.pc \in {"decide", "inject"} => OldOf(poller.job, poller.drained, 0)
    /\ OldOf(injected, drained, stale)

LEMMA OldBits == \A b : GetterOld(b) \in {0, 1} /\ WorkerOld(b) \in {0, 1}
  BY DEF GetterOld, WorkerOld, One

(* The getwork thread takes a job of the block there is, so it has no new  *)
(* old one.                                                                *)
LEMMA GetterAges ==
  ASSUME ThreadsType, Getwork \/ Reply \/ RequestFails, NEW b \in Nat, b <= block
  PROVE  GetterOld(b)' <= GetterOld(b) /\ UNCHANGED <<worker, block, injected, drained, stale>>
<1> USE DEF Getting
<1>1. UNCHANGED <<worker, block, injected, drained, stale>>
  BY DEF Getwork, SkipServer, Request, NoJob, KeepJob, KillJob, PutJob, ClearHit, Reply, RequestFails,
         world, threads, output
<1>2. CASE KeepJob
  <2>1. getter.pc = "got" /\ getter'.pc = "put" /\ getter'.job = getter.job
    BY <1>2 DEF KeepJob, ThreadsType, GetterType
  <2> QED
    BY <1>1, <2>1, OldBits DEF GetterOld
<1>3. CASE Reply
  <2>1. getter'.job = block /\ block \in Nat
    BY <1>3 DEF Reply, ThreadsType, GetterType
  <2>2. GetterOld(b)' = 0
    BY <2>1 DEF GetterOld, One
  <2> QED
    BY <1>1, <2>2, OldBits
<1>4. CASE SkipServer \/ Request \/ NoJob \/ KillJob \/ PutJob \/ ClearHit \/ RequestFails
  <2>1. getter'.pc \notin {"got", "put"}
    <3>1. CASE SkipServer \/ NoJob
      BY <3>1 DEF SkipServer, NoJob, ThreadsType, GetterType
    <3>2. CASE Request \/ KillJob \/ PutJob
      BY <3>2 DEF Request, KillJob, PutJob, ThreadsType, GetterType
    <3>3. CASE ClearHit
      BY <3>3 DEF ClearHit
    <3>4. CASE RequestFails
      BY <3>4 DEF RequestFails, ThreadsType, GetterType
    <3> QED
      BY <1>4, <3>1, <3>2, <3>3, <3>4
  <2>2. GetterOld(b)' = 0
    BY <2>1 DEF GetterOld, One
  <2> QED
    BY <1>1, <2>2, OldBits
<1> QED
  BY <1>2, <1>3, <1>4 DEF Getwork

LEMMA GetterKeeps ==
  ASSUME ThreadsType, Getwork \/ Reply \/ RequestFails, NEW b \in Nat, b <= block,
         NEW drd \in BOOLEAN, NEW st \in Nat, OldOf(b, drd, st)
  PROVE  OldOf(b, drd, st)'
<1>1. queue \in Seq(Nat) /\ st + WorkerOld(b) \in Nat /\ GetterOld(b) \in {0, 1} /\ GetterOld(b)' \in {0, 1}
  BY OldBits DEF ThreadsType, GetterOld, One
<1>2. WorkerOld(b)' = WorkerOld(b) /\ GetterOld(b)' <= GetterOld(b)
  BY GetterAges DEF WorkerOld
<1>3. CASE PutJob
  <2>1. /\ getter.pc = "put" /\ getter'.pc = "clear" /\ queue' = Append(queue, getter.job) /\ getter.job \in Nat
    BY <1>3 DEF PutJob, Getting, ThreadsType, GetterType
  <2>2. GetterOld(b)' = 0
    BY <2>1 DEF GetterOld, One
  <2>3. CASE getter.job >= b
    <3>1. Few(queue', st + WorkerOld(b), GetterOld(b), b, drd)
      BY <1>1, <2>1, <2>3, FewAppend DEF OldOf
    <3>2. GetterOld(b) = 0
      BY <2>1, <2>3 DEF GetterOld, One
    <3> QED
      BY <1>2, <2>2, <3>1, <3>2 DEF OldOf
  <2>4. CASE getter.job < b
    <3>1. GetterOld(b) = 1
      BY <2>1, <2>4 DEF GetterOld, One
    <3>2. Few(queue', st + WorkerOld(b), 0, b, drd)
      BY <1>1, <2>1, <3>1, FewAppend DEF OldOf
    <3> QED
      BY <1>2, <2>2, <3>2 DEF OldOf
  <2> QED
    BY <2>1, <2>3, <2>4
<1>4. CASE ~PutJob
  <2>1. queue' = queue
    BY <1>4 DEF Getwork, SkipServer, Request, NoJob, KeepJob, KillJob, ClearHit, Reply, RequestFails
  <2> QED
    BY <1>1, <1>2, <2>1, FewLess DEF OldOf
<1> QED
  BY <1>3, <1>4

LEMMA WorkerKeeps ==
  ASSUME ThreadsType, TakeJob \/ Acknowledged \/ JobEnds, NEW b \in Nat,
         NEW drd \in BOOLEAN, NEW st \in Nat, OldOf(b, drd, st)
  PROVE  OldOf(b, drd, st)'
<1>1. queue \in Seq(Nat) /\ st + WorkerOld(b) \in Nat /\ GetterOld(b) \in {0, 1} /\ st + 0 = st
  BY OldBits DEF ThreadsType
<1>2. GetterOld(b)' = GetterOld(b)
  BY DEF TakeJob, Acknowledged, JobEnds, GetterOld
<1>3. CASE TakeJob
  <2>1. /\ worker.pc = "idle" /\ worker' = [pc |-> "have", job |-> Head(queue)] /\ queue # <<>>
        /\ queue' = Tail(queue)
    BY <1>3 DEF TakeJob, WorkerIs
  <2>2. WorkerOld(b) = 0
    BY <2>1 DEF WorkerOld, One
  <2>3. Few(queue', st, GetterOld(b), b, drd) /\ (Head(queue) < b => Few(queue', st + 1, GetterOld(b), b, drd))
    BY <1>1, <2>1, <2>2, FewTail DEF OldOf
  <2>4. WorkerOld(b)' = One(Head(queue) < b)
    BY <2>1 DEF WorkerOld, One
  <2> QED
    BY <1>1, <1>2, <2>3, <2>4 DEF OldOf, One
<1>4. CASE Acknowledged \/ JobEnds
  <2>1. WorkerOld(b)' = 0 /\ WorkerOld(b) = 0 /\ queue' = queue
    BY <1>4 DEF Acknowledged, JobEnds, WorkerIs, WorkerOld, One, ThreadsType, WorkerType
  <2> QED
    BY <1>2, <2>1 DEF OldOf
<1> QED
  BY <1>3, <1>4

(* A job that is written is one of those that were counted.                *)
LEMMA WriteKeeps ==
  ASSUME ThreadsType, WorkerWrites, NEW b \in Nat,
         NEW drd \in BOOLEAN, NEW st \in Nat, OldOf(b, drd, st)
  PROVE  /\ OldOf(b, drd, st)'
         /\ \A k \in Nat : k = (IF worker.job < b THEN st + 1 ELSE st) => OldOf(b, drd, k)'
<1>1. queue \in Seq(Nat) /\ st + WorkerOld(b) \in Nat /\ GetterOld(b) \in {0, 1} /\ st + 0 = st
  BY OldBits DEF ThreadsType
<1>2. GetterOld(b)' = GetterOld(b) /\ queue' = queue
  BY DEF WorkerWrites, GetterOld
<1>3. WorkerOld(b) = (IF worker.job < b THEN 1 ELSE 0) /\ WorkerOld(b)' = 0
  BY DEF WorkerWrites, WorkerIs, WorkerOld, One, ThreadsType, WorkerType
<1>4. Few(queue, st + 0, GetterOld(b), b, drd)
  BY <1>1, <1>3, FewLess DEF OldOf
<1>5. OldOf(b, drd, st)'
  BY <1>2, <1>3, <1>4 DEF OldOf
<1>6. ASSUME NEW k \in Nat, k = IF worker.job < b THEN st + 1 ELSE st PROVE OldOf(b, drd, k)'
  <2>1. CASE worker.job < b
    <3>1. k + 0 = st + WorkerOld(b)
      BY <1>3, <1>6, <2>1
    <3> QED
      BY <1>2, <1>3, <3>1 DEF OldOf
  <2>2. CASE ~(worker.job < b)
    BY <1>5, <1>6, <2>2
  <2> QED
    BY <2>1, <2>2
<1> QED
  BY <1>5, <1>6

LEMMA StaleInit == HostInit => StaleInv
<1> SUFFICES ASSUME HostInit PROVE StaleInv
  OBVIOUS
<1>1. GetterOld(0) = 0 /\ WorkerOld(0) = 0 /\ queue = <<>> /\ 0 + 0 = 0
  BY DEF HostInit, PoolInit, GetterOld, WorkerOld, One
<1>2. Few(<<>>, 0, 0, 0, FALSE)
  BY PoolAssumption DEF Few
<1>3. /\ injected = 0 /\ drained = FALSE /\ stale = 0
      /\ poller.job = 0 /\ block = 0 /\ poller.pc = "none"
  BY DEF HostInit, PoolInit
<1>4. OldOf(0, FALSE, 0)
  BY <1>1, <1>2 DEF OldOf
<1>5. OldOf(injected, drained, stale)
  BY <1>3, <1>4
<1> QED
  BY <1>3, <1>5 DEF StaleInv

LEMMA StaleGetter ==
  ASSUME ThreadsType, StaleInv, Getwork \/ Reply \/ RequestFails PROVE StaleInv'
<1>1. PICK b \in Nat, d \in BOOLEAN, k \in Nat : b = injected /\ d = drained /\ k = stale /\ b <= block
  BY DEF ThreadsType, PollerType, StaleInv
<1>2. PICK c \in Nat, e \in BOOLEAN : c = poller.job /\ e = poller.drained /\ c <= block
  BY DEF ThreadsType, PollerType, StaleInv
<1>3. UNCHANGED <<worker, block, injected, drained, stale>> /\ GetterOld(c)' <= GetterOld(c)
  BY <1>2, GetterAges
<1>4. poller'.job = c /\ poller'.drained = e /\ poller'.pc \in {poller.pc, "poll"}
  BY <1>2 DEF Getwork, SkipServer, Request, NoJob, KeepJob, KillJob, PutJob, ClearHit, Reply, RequestFails,
              StartPolling, ThreadsType, PollerType
<1>5. OldOf(b, d, k)'
  BY <1>1, GetterKeeps DEF StaleInv
<1>6. poller'.pc \in {"decide", "inject"} => OldOf(c, e, 0)'
  BY <1>2, <1>4, GetterKeeps DEF StaleInv
<1>7. ASSUME poller'.pc \in {"test", "take"}, ~longpollhit' PROVE GetterOld(c)' = 0
  <2>1. CASE ClearHit
    BY <2>1 DEF ClearHit, GetterOld, One
  <2>2. CASE ~ClearHit
    <3>1. longpollhit' = longpollhit
      BY <2>2 DEF Getwork, SkipServer, Request, NoJob, KeepJob, KillJob, PutJob, Reply, RequestFails, flags
    <3>2. GetterOld(c) = 0
      BY <1>2, <1>4, <1>7, <3>1 DEF StaleInv
    <3>3. GetterOld(c)' \in {0, 1}
      BY DEF GetterOld, One
    <3> QED
      BY <1>3, <3>2, <3>3
  <2> QED
    BY <2>1, <2>2
<1>8. injected' <= poller'.job /\ poller'.job <= block'
  BY <1>2, <1>3, <1>4 DEF StaleInv
<1> QED
  BY <1>1, <1>3, <1>4, <1>5, <1>6, <1>7, <1>8 DEF StaleInv

LEMMA StaleWorker ==
  ASSUME ThreadsType, StaleInv, Worker PROVE StaleInv'
<1>1. PICK b \in Nat, d \in BOOLEAN, k \in Nat : b = injected /\ d = drained /\ k = stale
  BY DEF ThreadsType
<1>2. PICK c \in Nat, e \in BOOLEAN : c = poller.job /\ e = poller.drained
  BY DEF ThreadsType, PollerType
<1>3. UNCHANGED <<getter, poller, block, injected, drained, longpollhit>>
  BY DEF Worker, TakeJob, WorkerWrites, Acknowledged, JobEnds, world, flags, output
<1>4. GetterOld(c)' = GetterOld(c)
  BY <1>3 DEF GetterOld
<1>5. poller.pc \in {"decide", "inject"} => OldOf(c, e, 0)'
  BY <1>2, WorkerKeeps, WriteKeeps DEF StaleInv, Worker
<1>6. OldOf(b, d, stale)'
  <2>1. CASE WorkerWrites
    <3>1. PICK j \in Nat : j = stale' /\ j = IF worker.job < b THEN k + 1 ELSE k
      BY <1>1, <2>1 DEF WorkerWrites
    <3>2. OldOf(b, d, j)'
      BY <1>1, <2>1, <3>1, WriteKeeps DEF StaleInv
    <3> QED
      BY <3>1, <3>2
  <2>2. CASE ~WorkerWrites
    <3>1. stale' = k
      BY <1>1, <2>2 DEF Worker, TakeJob, Acknowledged, JobEnds, output
    <3>2. OldOf(b, d, k)'
      BY <1>1, <2>2, WorkerKeeps DEF StaleInv, Worker
    <3> QED
      BY <3>1, <3>2
  <2> QED
    BY <2>1, <2>2
<1> QED
  BY <1>1, <1>2, <1>3, <1>4, <1>5, <1>6 DEF StaleInv

LEMMA StalePoller ==
  ASSUME ThreadsType, StaleInv, PollReply \/ PollFails \/ Longpoll PROVE StaleInv'
<1> USE DEF Polling
<1>1. PICK b \in Nat, d \in BOOLEAN, k \in Nat : b = injected /\ d = drained /\ k = stale
  BY DEF ThreadsType
<1>2. PICK c \in Nat, e \in BOOLEAN : c = poller.job /\ e = poller.drained /\ b <= c
  BY <1>1 DEF ThreadsType, PollerType, StaleInv
<1>3. UNCHANGED <<getter, worker, block, injected, drained, stale>> /\ block \in Nat
  BY DEF PollReply, PollFails, Longpoll, SetHit, DropNext, DropQueued, EndDrain, PollPut, PollPutDone,
         PollInject, world, output, ThreadsType
<1>4. \A x \in Nat : GetterOld(x)' = GetterOld(x) /\ WorkerOld(x)' = WorkerOld(x)
  BY <1>3 DEF GetterOld, WorkerOld
<1>5. OldOf(b, d, k)
  BY <1>1 DEF StaleInv
<1>6. queue \in Seq(Nat) /\ k + WorkerOld(b) \in Nat /\ GetterOld(b) \in {0, 1}
  BY OldBits DEF ThreadsType
<1>7. ASSUME UNCHANGED queue PROVE OldOf(b, d, k)' /\ (OldOf(c, e, 0) => OldOf(c, e, 0)')
  BY <1>4, <1>5, <1>7 DEF OldOf
<1>8. CASE PollReply
  <2>1. poller'.pc = "hit" /\ poller'.job = block /\ UNCHANGED queue
    BY <1>8 DEF PollReply, ThreadsType, PollerType
  <2> QED
    BY <1>1, <1>2, <1>3, <1>7, <2>1 DEF StaleInv
<1>9. CASE PollFails
  <2>1. poller'.pc = "poll" /\ poller'.job = c /\ UNCHANGED queue
    BY <1>2, <1>9 DEF PollFails, ThreadsType, PollerType
  <2> QED
    BY <1>1, <1>2, <1>3, <1>7, <2>1 DEF StaleInv
<1>10. CASE SetHit
  <2>1. poller'.pc = "test" /\ poller'.job = c /\ longpollhit' = TRUE /\ UNCHANGED queue
    BY <1>2, <1>10 DEF SetHit, ThreadsType, PollerType
  <2> QED
    BY <1>1, <1>2, <1>3, <1>7, <2>1 DEF StaleInv
<1>11. CASE DropNext
  <2>1. poller'.pc = "take" /\ poller'.job = c /\ longpollhit' /\ UNCHANGED queue
    BY <1>2, <1>11 DEF DropNext, flags, ThreadsType, PollerType
  <2> QED
    BY <1>1, <1>2, <1>3, <1>7, <2>1 DEF StaleInv
<1>12. CASE DropQueued
  <2>1. /\ poller.pc = "take" /\ poller'.pc = "test" /\ poller'.job = c /\ longpollhit' = longpollhit
        /\ queue # <<>> /\ queue' = Tail(queue)
    BY <1>2, <1>12 DEF DropQueued, flags, ThreadsType, PollerType
  <2>2. Few(queue', k + WorkerOld(b), GetterOld(b), b, d)
    BY <1>5, <1>6, <2>1, FewTail DEF OldOf
  <2>3. OldOf(b, d, k)'
    BY <1>4, <2>2 DEF OldOf
  <2>4. ~longpollhit' => GetterOld(c)' = 0
    BY <1>2, <1>4, <2>1 DEF StaleInv
  <2> QED
    BY <1>1, <1>2, <1>3, <2>1, <2>3, <2>4 DEF StaleInv
<1>13. CASE EndDrain
  <2>1. PICK f \in BOOLEAN : f = poller'.drained
    BY <1>13 DEF EndDrain, ThreadsType, PollerType
  <2>2. /\ poller'.pc = "decide" /\ poller'.job = c /\ UNCHANGED queue
        /\ f <=> poller.pc = "take"
        /\ (poller.pc = "test" /\ ~longpollhit) \/ (poller.pc = "take" /\ queue = <<>>)
    BY <1>2, <1>13, <2>1 DEF EndDrain, ThreadsType, PollerType
  <2>3. Len(queue) <= Buffer /\ 0 + WorkerOld(c) = WorkerOld(c)
        /\ WorkerOld(c) \in {0, 1} /\ GetterOld(c) \in {0, 1}
    BY OldBits DEF ThreadsType
  <2>4. CASE f
    <3>1. Few(queue, WorkerOld(c), GetterOld(c), c, TRUE)
      BY <1>6, <2>2, <2>3, <2>4, FewStart
    <3>2. OldOf(c, TRUE, 0)'
      BY <1>4, <2>2, <2>3, <3>1 DEF OldOf
    <3> QED
      BY <1>1, <1>2, <1>3, <1>7, <2>1, <2>2, <2>4, <3>2 DEF StaleInv
  <2>5. CASE ~f
    <3>1. GetterOld(c) = 0
      BY <1>2, <2>2, <2>5 DEF StaleInv
    <3>2. Few(queue, WorkerOld(c), GetterOld(c), c, FALSE)
      BY <1>6, <2>3, <3>1, FewStart
    <3>3. OldOf(c, FALSE, 0)'
      BY <1>4, <2>2, <2>3, <3>2 DEF OldOf
    <3> QED
      BY <1>1, <1>2, <1>3, <1>7, <2>1, <2>2, <2>5, <3>3 DEF StaleInv
  <2> QED
    BY <2>4, <2>5
<1>14. CASE PollPut
  <2>1. poller'.pc = "put" /\ poller'.job = c /\ UNCHANGED queue
    BY <1>2, <1>14 DEF PollPut, ThreadsType, PollerType
  <2> QED
    BY <1>1, <1>2, <1>3, <1>7, <2>1 DEF StaleInv
<1>15. CASE PollPutDone
  <2>1. poller'.pc = "poll" /\ poller'.job = c /\ queue' = Append(queue, c)
    BY <1>2, <1>15 DEF PollPutDone, ThreadsType, PollerType
  <2>2. Few(queue', k + WorkerOld(b), GetterOld(b), b, d)
    BY <1>2, <1>5, <1>6, <2>1, FewAppend DEF OldOf
  <2>3. OldOf(b, d, k)'
    BY <1>4, <2>2 DEF OldOf
  <2> QED
    BY <1>1, <1>2, <1>3, <2>1, <2>3 DEF StaleInv
<1>16. CASE PollInject
  <2>1. poller.pc = "decide" /\ poller'.pc = "inject" /\ poller'.job = c /\ poller'.drained = e /\ UNCHANGED queue
    BY <1>2, <1>16 DEF PollInject, ThreadsType, PollerType
  <2>2. OldOf(c, e, 0)'
    BY <1>2, <1>7, <2>1 DEF StaleInv
  <2> QED
    BY <1>1, <1>2, <1>3, <1>7, <2>1, <2>2 DEF StaleInv
<1> QED
  BY <1>8, <1>9, <1>10, <1>11, <1>12, <1>13, <1>14, <1>15, <1>16 DEF Longpoll

(* An injection begins to count, from what the drain left.                 *)
LEMMA StaleInject == ASSUME ThreadsType, StaleInv, PollerInjects PROVE StaleInv'
<1>1. PICK c \in Nat, e \in BOOLEAN : c = poller.job /\ e = poller.drained
  BY DEF ThreadsType, PollerType
<1>2. /\ poller.pc = "inject" /\ poller'.pc = "poll" /\ poller'.job = c
      /\ injected' = c /\ drained' = e /\ stale' = 0 /\ UNCHANGED <<getter, worker, queue, block>>
  BY <1>1 DEF PollerInjects, Polling, world, ThreadsType, PollerType
<1>3. OldOf(c, e, 0)
  BY <1>1, <1>2 DEF StaleInv
<1>4. OldOf(c, e, 0)'
  BY <1>2, <1>3 DEF OldOf, GetterOld, WorkerOld
<1> QED
  BY <1>1, <1>2, <1>4 DEF StaleInv

LEMMA StaleOther ==
  ASSUME ThreadsType, StaleInv, UNCHANGED <<getter, poller, worker, longpollhit, queue>>,
         UNCHANGED <<injected, drained, stale>>, block' = block \/ block' = block + 1
  PROVE  StaleInv'
<1>1. PICK c \in Nat : c = poller.job
  BY DEF ThreadsType, PollerType
<1>2. block \in Nat
  BY DEF ThreadsType
<1> QED
  BY <1>1, <1>2 DEF StaleInv, OldOf, GetterOld, WorkerOld

LEMMA StaleStep ==
  ASSUME ThreadsType, SharesType, TallyInv, StaleInv, [HostNext]_hostVars PROVE StaleInv'
<1>1. ASSUME NEW t \in Thread, Added(t) PROVE StaleInv'
  BY <1>1, StaleOther DEF Added, world, threads, flags, output
<1>2. CASE GroupEnds \/ NewBlock
  BY <1>2, StaleOther DEF GroupEnds, NewBlock, world, threads, flags, output
<1>3. CASE Uploads \/ ShowStats
  BY <1>3, SharesStep, StaleOther DEF threads, flags
<1>4. CASE UNCHANGED hostVars
  BY <1>4, StaleOther DEF hostVars, poolVars, world, threads, flags, output
<1> QED
  BY <1>1, <1>2, <1>3, <1>4, StaleGetter, StaleWorker, StalePoller, StaleInject DEF HostNext, PoolNext

LEMMA StaleInvBounds == ASSUME ThreadsType, StaleInv PROVE StaleBounded
<1>1. PICK b \in Nat, d \in BOOLEAN, k \in Nat : b = injected /\ d = drained /\ k = stale
  BY DEF ThreadsType
<1>2. Few(queue, k + WorkerOld(b), GetterOld(b), b, d) /\ WorkerOld(b) \in {0, 1}
  BY <1>1, OldBits DEF StaleInv, OldOf
<1> QED
  BY <1>1, <1>2, PoolAssumption DEF Few, StaleBounded

-----------------------------------------------------------------------------

HostInv == ThreadsType /\ SharesType /\ TallyInv /\ JobsInv /\ SharesInv /\ ScreenInv /\ StaleInv

(* What the host relies on, of its threads, counters, shares and screen,   *)
(* holds together in every state (miner.py as a whole).                    *)
THEOREM Safety == HostSpec => []HostInv
<1>1. HostInit => HostInv
  <2>1. ASSUME HostInit PROVE ScreenInv
    BY <2>1 DEF HostInit, PoolInit, ScreenInv
  <2> QED
    BY <2>1, ThreadsInit, TallyInit, JobsInit, SharesInit, StaleInit DEF HostInv
<1>2. HostInv /\ [HostNext]_hostVars => HostInv'
  BY HostTypeStep, TallyStep, JobsStep, SharesInvStep, ScreenStep, StaleStep DEF HostInv
<1> QED
  BY <1>1, <1>2, PTL DEF HostSpec

(* Every variable of the host keeps to its values, the queue is never      *)
(* longer than getworkbuffer, and a thread adds to a counter there is.     *)
THEOREM HostTypeCorrect == HostSpec => []HostTypeOK
<1>1. HostInv => HostTypeOK
  <2> SUFFICES ASSUME HostInv PROVE HostTypeOK
    OBVIOUS
  <2>1. ThreadsType /\ SharesType /\ TallyInv
    BY DEF HostInv
  <2>2. /\ getter.pc \in {"next", "wait", "got", "put", "clear"} /\ getter.s \in 1 .. Servers + 1
        /\ poller.pc \in {"none", "poll", "hit", "test", "take", "decide", "put", "inject"}
        /\ worker.pc \in {"idle", "have", "ack", "mine"}
        /\ queue \in Seq(Nat) /\ Len(queue) <= Buffer
    BY <2>1 DEF ThreadsType, GetterType, PollerType, WorkerType
  <2>3. \A t \in Thread : adding[t] = NoAdd \/ adding[t].to \in Counter
    BY <2>1, Names DEF TallyInv
  <2> QED
    BY <2>1, <2>2, <2>3 DEF HostTypeOK, TallyInv, SharesType
<1> QED
  BY <1>1, Safety, PTL

(* No job is lost or counted twice between getwork, the drain of the queue *)
(* and the worker, whatever the threads' order, unless two of them added   *)
(* to one counter at once (miner.py:66, 104, 125, 127, 131 and 417).       *)
THEOREM HostAccountsForJobs == HostSpec => []JobsAccounted
<1>1. HostInv => JobsAccounted
  BY BalancedAccounts DEF HostInv, JobsInv
<1> QED
  BY <1>1, Safety, PTL

(* The counts of accepted and rejected shares never exceed the truth, are  *)
(* the truth if no two uploads counted at once, and a share with a reply   *)
(* is on one side only (Pool.uploadresult, miner.py:33-56).                *)
THEOREM HostAccountsForShares == HostSpec => []SharesAccounted
<1>1. HostInv => SharesAccounted
  BY SharesInvAccounts DEF HostInv
<1> QED
  BY <1>1, Safety, PTL

(* A percentage drawn is at most 100, though its parts are read before the *)
(* whole and change meanwhile, if no update was lost (Miner.showstats).    *)
THEOREM ScreenSane == HostSpec => []PercentSane
<1>1. HostInv => PercentSane
  BY DEF HostInv, ScreenInv, PercentSane
<1> QED
  BY <1>1, Safety, PTL

(* After a new block's job was injected, at most two jobs of older blocks  *)
(* are still mined, or a queue of them and one if the drain was cut short, *)
(* for every size of the queue (Pool.getwork and Pool.longpollingworker).  *)
THEOREM FewStaleJobs == HostSpec => []StaleBounded
<1>1. HostInv => StaleBounded
  BY StaleInvBounds DEF HostInv
<1> QED
  BY <1>1, Safety, PTL

-----------------------------------------------------------------------------
(***************************************************************************)
(* The serial link (VhdlFpga).                                             *)
(***************************************************************************)

(* What is still to be read, the message on the wire included.             *)
Line == IF tx = Nothing THEN up ELSE Append(up, tx)

Working == main \in {"test", "run"}
Sure    == injections = 0 /\ ~ackLost

(* The job self.job names, or is about to: an injection has written one.   *)
Current == IF injecting THEN written ELSE job

Job       == 0 .. MaxJobs
Label     == Job \cup {Mixed}
DownByte  == [cmd : 0 .. 2, job : Label]
UpMessage == [is : {"zero", "ack", "nonce", "exhausted"}, job : Label]

TypeInv ==
    /\ main \in {"ping", "read", "test", "run", "exited"}
    /\ miner \in [pc : {"idle", "ack", "poll", "dead"}, job : Job]
    /\ injecting \in BOOLEAN /\ fpgalock \in BOOLEAN /\ port \in BOOLEAN
    /\ rc \in 0 .. 6 /\ job \in Job /\ written \in Job /\ injections \in 0 .. MaxInjections
    /\ down \in Seq(DownByte) /\ up \in Seq(UpMessage) /\ tx \in UpMessage \cup {Nothing}
    /\ alive \in BOOLEAN /\ loading \in 0 .. JobBytes /\ load \in Label /\ mining \in Label
    /\ hits \in 0 .. MaxHits /\ ackLost \in BOOLEAN
    /\ credit \in [of : Label, to : Job, amid : BOOLEAN]

(* What the host has done when its threads are where they are.             *)
ThreadInv ==
    /\ main = "exited" => miner.pc = "dead"
    /\ rc # 0 => miner.pc = "dead"
    /\ miner.pc \in {"ack", "poll"} => Working
    /\ main \in {"ping", "read"} =>
           miner.pc = "idle" /\ job = 0 /\ written = 0 /\ injections = 0
    /\ miner.pc = "ack" => fpgalock /\ miner.job = written /\ written >= 1
    /\ job <= written
    /\ miner.pc \in {"idle", "poll"} => Current = written
    /\ miner.pc = "poll" \/ (main = "run" /\ miner.pc # "dead") => job >= 1
    /\ main = "run" /\ miner.pc = "ack" => written >= 2 \/ MaxJobs = 1
    /\ main = "run" /\ miner.pc = "poll" => job >= 2 \/ MaxJobs = 1
    /\ injecting => /\ fpgalock /\ injections > 0
                    /\ main \in {"run", "exited"} /\ miner.pc # "ack"
                    /\ miner.pc # "dead" => written <= job + 1
    /\ ~alive => tx = Nothing

(* The zeros of the start are more than the bytes the FPGA lacks, so that  *)
(* one is left to be answered.                                             *)
PingInv ==
    /\ main = "ping" => down = <<>>
    /\ main \in {"ping", "read"} => mining \in {0, Mixed}
    /\ main = "read" /\ alive =>
           /\ \A i \in 1 .. Len(down) : down[i] = Byte(0, Mixed)
           /\ loading = 0 \/ loading < Len(down)
           /\ down # <<>> \/ up # <<>> \/ tx # Nothing

(* Bytes that begin with the last n of a job and go on with whole jobs, up *)
(* to job w.                                                               *)
SameJob(s, from, to) == \A i, j \in from .. to : s[i].job = s[j].job
Framed(s, n, w) ==
    /\ n <= Len(s)
    /\ \A i \in 1 .. n : s[i].cmd = 2
    /\ SameJob(s, 1, n)
    /\ n < Len(s) => s[n + 1].cmd = 1
    /\ \A i \in 1 .. Len(s) : s[i].cmd = 1 =>
           /\ i + JobBytes <= Len(s)
           /\ \A k \in i + 1 .. i + JobBytes : s[k].cmd = 2
           /\ SameJob(s, i + 1, i + JobBytes)
           /\ i + JobBytes < Len(s) => s[i + JobBytes + 1].cmd = 1
    /\ \A i \in 1 .. Len(s) : s[i].cmd = 2 => s[i].job \in 1 .. w

FrameInv ==
    Working /\ alive =>
        /\ Framed(down, loading, written)
        /\ loading = JobBytes => load = 0
        /\ loading > 0 /\ loading < JobBytes => load = down[1].job

HasAck(s)       == \E i \in 1 .. Len(s) : s[i].is = "ack"
AckBefore(s, i) == \E k \in 1 .. i - 1 : s[k].is = "ack"
OneAck(s)       == \A i, j \in 1 .. Len(s) : s[i].is = "ack" /\ s[j].is = "ack" => i = j
Good(m)         == m.is # "zero" /\ m # Message("ack", Mixed)
Clean(s)        == \A i \in 1 .. Len(s) : Good(s[i])

(* The jobs of a nonce with no acknowledgement before it, and of one that  *)
(* has one.                                                                *)
Before ==
    {j \in Label : /\ j <= written
                   /\ ~ackLost => j <= Current
                   /\ job >= 1 => j >= 1
                   /\ Sure /\ job >= 1 => j = job}
After == {j \in Label : /\ 1 <= j /\ j <= written
                        /\ Sure => j = written}

NoncesFit(s, B, A) ==
    \A i \in 1 .. Len(s) :
        s[i].is = "nonce" => IF AckBefore(s, i) THEN s[i].job \in A ELSE s[i].job \in B

LineInv ==
    /\ Working => Clean(Line)
    /\ Working /\ miner.pc # "dead" =>
           /\ NoncesFit(Line, Before, After)
           /\ alive /\ HasAck(Line) => mining \in After
           /\ alive /\ ~HasAck(Line) => mining \in Before

(* With no injection and no acknowledgement dropped, what is on the line   *)
(* is of one job at a time.                                                *)
SureInv ==
    Working /\ Sure =>
        /\ miner.pc \in {"idle", "poll"} => ~HasAck(Line) /\ (alive => down = <<>>)
        /\ miner.pc = "ack" =>
              /\ OneAck(Line)
              /\ alive =>
                   /\ HasAck(Line) => down = <<>>
                   /\ loading > 0 => Len(down) = loading
                   /\ loading = 0 => Len(down) \in {0, JobBytes + 1}
                   /\ \A i \in 1 .. Len(down) : down[i].cmd = 2 => down[i].job = written

(* Who waits for an acknowledgement has it coming.                         *)
AckComes == miner.pc = "ack" /\ alive /\ ~ackLost => down # <<>> \/ HasAck(Line)

-----------------------------------------------------------------------------
(* Sequences.                                                              *)

LEMMA TailFacts ==
  ASSUME NEW S, NEW s \in Seq(S), s # <<>>
  PROVE  /\ Tail(s) \in Seq(S) /\ Head(s) \in S /\ Head(s) = s[1]
         /\ Len(s) \in Nat /\ Len(s) > 0 /\ Len(Tail(s)) = Len(s) - 1
         /\ \A i \in 1 .. Len(s) - 1 : Tail(s)[i] = s[i + 1]
  BY HeadTailProperties, EmptySeq, LenProperties

LEMMA AppendFacts ==
  ASSUME NEW S, NEW s \in Seq(S), NEW m \in S
  PROVE  /\ Append(s, m) \in Seq(S)
         /\ Len(s) \in Nat /\ Len(Append(s, m)) = Len(s) + 1
         /\ \A i \in 1 .. Len(s) : Append(s, m)[i] = s[i]
         /\ Append(s, m)[Len(s) + 1] = m
  BY AppendProperties, LenProperties

LEMMA AckTail ==
  ASSUME NEW s \in Seq(UpMessage), s # <<>>
  PROVE  HasAck(s) <=> Head(s).is = "ack" \/ HasAck(Tail(s))
<1>1. ASSUME HasAck(Tail(s)) PROVE HasAck(s)
  <2>1. PICK i \in 1 .. Len(Tail(s)) : Tail(s)[i].is = "ack"
    BY <1>1 DEF HasAck
  <2>2. i + 1 \in 1 .. Len(s) /\ s[i + 1].is = "ack"
    BY <2>1, TailFacts
  <2> QED
    BY <2>2 DEF HasAck
<1>2. ASSUME HasAck(s), Head(s).is # "ack" PROVE HasAck(Tail(s))
  <2>1. PICK i \in 1 .. Len(s) : s[i].is = "ack"
    BY <1>2 DEF HasAck
  <2>2. i - 1 \in 1 .. Len(Tail(s)) /\ Tail(s)[i - 1] = s[i]
    BY <1>2, <2>1, TailFacts
  <2> QED
    BY <2>1, <2>2 DEF HasAck
<1>3. Head(s).is = "ack" => HasAck(s)
  BY TailFacts DEF HasAck
<1> QED
  BY <1>1, <1>2, <1>3

LEMMA AckAppend ==
  ASSUME NEW s \in Seq(UpMessage), NEW m \in UpMessage
  PROVE  HasAck(Append(s, m)) <=> HasAck(s) \/ m.is = "ack"
<1>1. HasAck(s) => HasAck(Append(s, m))
  BY AppendFacts DEF HasAck
<1>2. m.is = "ack" => HasAck(Append(s, m))
  BY AppendFacts DEF HasAck
<1>3. HasAck(Append(s, m)) => HasAck(s) \/ m.is = "ack"
  BY AppendFacts DEF HasAck
<1> QED
  BY <1>1, <1>2, <1>3

LEMMA CleanTail ==
  ASSUME NEW s \in Seq(UpMessage), s # <<>>, Clean(s)
  PROVE  Clean(Tail(s)) /\ Good(Head(s))
  BY TailFacts DEF Clean

LEMMA CleanAppend ==
  ASSUME NEW s \in Seq(UpMessage), NEW m \in UpMessage
  PROVE  Clean(Append(s, m)) <=> Clean(s) /\ Good(m)
<1>1. Clean(Append(s, m)) => Clean(s) /\ Good(m)
  BY AppendFacts DEF Clean
<1>2. Clean(s) /\ Good(m) => Clean(Append(s, m))
  BY AppendFacts DEF Clean
<1> QED
  BY <1>1, <1>2

LEMMA OneAckTail ==
  ASSUME NEW s \in Seq(UpMessage), s # <<>>, OneAck(s)
  PROVE  OneAck(Tail(s)) /\ (Head(s).is = "ack" => ~HasAck(Tail(s)))
<1>1. OneAck(Tail(s))
  <2> SUFFICES ASSUME NEW i \in 1 .. Len(Tail(s)), NEW j \in 1 .. Len(Tail(s)),
                      Tail(s)[i].is = "ack", Tail(s)[j].is = "ack"
               PROVE  i = j
    BY DEF OneAck
  <2>1. i + 1 \in 1 .. Len(s) /\ j + 1 \in 1 .. Len(s) /\ s[i + 1].is = "ack" /\ s[j + 1].is = "ack"
    BY TailFacts
  <2> QED
    BY <2>1 DEF OneAck
<1>2. ASSUME Head(s).is = "ack", NEW i \in 1 .. Len(Tail(s)), Tail(s)[i].is = "ack" PROVE FALSE
  <2>1. i + 1 \in 1 .. Len(s) /\ s[i + 1].is = "ack" /\ 1 \in 1 .. Len(s) /\ s[1].is = "ack"
    BY <1>2, TailFacts
  <2> QED
    BY <2>1 DEF OneAck
<1> QED
  BY <1>1, <1>2 DEF HasAck

LEMMA OneAckAppend ==
  ASSUME NEW s \in Seq(UpMessage), NEW m \in UpMessage
  PROVE  /\ OneAck(Append(s, m)) => OneAck(s)
         /\ OneAck(s) /\ m.is # "ack" => OneAck(Append(s, m))
         /\ ~HasAck(s) => OneAck(Append(s, m))
<1>1. OneAck(Append(s, m)) => OneAck(s)
  BY AppendFacts DEF OneAck
<1>2. OneAck(s) /\ m.is # "ack" => OneAck(Append(s, m))
  BY AppendFacts DEF OneAck
<1>3. ~HasAck(s) => OneAck(Append(s, m))
  BY AppendFacts DEF OneAck, HasAck
<1> QED
  BY <1>1, <1>2, <1>3

LEMMA FitMore ==
  ASSUME NEW s, NEW B, NEW A, NEW B2, NEW A2, B \subseteq B2, A \subseteq A2, NoncesFit(s, B, A)
  PROVE  NoncesFit(s, B2, A2)
  BY DEF NoncesFit

(* What is read first has no acknowledgement before it.  With it the rest  *)
(* loses one only if it was one.                                           *)
LEMMA FitTail ==
  ASSUME NEW s \in Seq(UpMessage), s # <<>>, NEW B, NEW A, NoncesFit(s, B, A)
  PROVE  /\ Head(s).is = "nonce" => Head(s).job \in B
         /\ Head(s).is # "ack" => NoncesFit(Tail(s), B, A)
         /\ Head(s).is = "ack" => NoncesFit(Tail(s), A, A)
<1>1. Head(s).is = "nonce" => Head(s).job \in B
  <2>1. ~AckBefore(s, 1)
    BY DEF AckBefore
  <2> QED
    BY <2>1, TailFacts DEF NoncesFit
<1>2. ASSUME NEW i \in 1 .. Len(Tail(s))
      PROVE  /\ i + 1 \in 1 .. Len(s) /\ s[i + 1] = Tail(s)[i]
             /\ Head(s).is # "ack" => (AckBefore(s, i + 1) <=> AckBefore(Tail(s), i))
             /\ Head(s).is = "ack" => AckBefore(s, i + 1)
  <2>1. i + 1 \in 1 .. Len(s) /\ s[i + 1] = Tail(s)[i]
    BY TailFacts
  <2>2. Head(s).is = "ack" => AckBefore(s, i + 1)
    BY TailFacts DEF AckBefore
  <2>3. ASSUME Head(s).is # "ack", AckBefore(s, i + 1) PROVE AckBefore(Tail(s), i)
    <3>1. PICK k \in 1 .. i : s[k].is = "ack"
      BY <2>3 DEF AckBefore
    <3>2. k - 1 \in 1 .. i - 1 /\ Tail(s)[k - 1] = s[k]
      BY <2>3, <3>1, TailFacts
    <3> QED
      BY <3>1, <3>2 DEF AckBefore
  <2>4. ASSUME AckBefore(Tail(s), i) PROVE AckBefore(s, i + 1)
    <3>1. PICK k \in 1 .. i - 1 : Tail(s)[k].is = "ack"
      BY <2>4 DEF AckBefore
    <3>2. k + 1 \in 1 .. i + 1 - 1 /\ s[k + 1] = Tail(s)[k]
      BY <3>1, TailFacts
    <3> QED
      BY <3>1, <3>2 DEF AckBefore
  <2> QED
    BY <2>1, <2>2, <2>3, <2>4
<1>3. Head(s).is # "ack" => NoncesFit(Tail(s), B, A)
  BY <1>2 DEF NoncesFit
<1>4. Head(s).is = "ack" => NoncesFit(Tail(s), A, A)
  BY <1>2 DEF NoncesFit
<1> QED
  BY <1>1, <1>3, <1>4

LEMMA FitAppend ==
  ASSUME NEW s \in Seq(UpMessage), NEW m \in UpMessage, NEW B, NEW A
  PROVE  /\ NoncesFit(Append(s, m), B, A) => NoncesFit(s, B, A)
         /\ NoncesFit(s, B, A) /\ (m.is = "nonce" => m.job \in IF HasAck(s) THEN A ELSE B)
               => NoncesFit(Append(s, m), B, A)
<1> DEFINE a == Append(s, m)
<1>1. Len(s) \in Nat /\ Len(a) = Len(s) + 1 /\ a[Len(s) + 1] = m
  BY AppendFacts
<1>2. ASSUME NEW i \in 1 .. Len(s) PROVE a[i] = s[i] /\ (AckBefore(a, i) <=> AckBefore(s, i))
  <2>1. \A k \in 1 .. i : a[k] = s[k]
    BY <1>1, AppendFacts
  <2> HIDE DEF a
  <2> QED
    BY <1>1, <2>1 DEF AckBefore
<1>3. AckBefore(a, Len(s) + 1) <=> HasAck(s)
  <2>1. \A k \in 1 .. Len(s) : a[k] = s[k]
    BY AppendFacts
  <2> HIDE DEF a
  <2> QED
    BY <1>1, <2>1 DEF AckBefore, HasAck
<1> HIDE DEF a
<1>4. NoncesFit(a, B, A) => NoncesFit(s, B, A)
  BY <1>1, <1>2 DEF NoncesFit
<1>5. ASSUME NoncesFit(s, B, A), m.is = "nonce" => m.job \in IF HasAck(s) THEN A ELSE B
      PROVE  NoncesFit(a, B, A)
  <2> SUFFICES ASSUME NEW i \in 1 .. Len(a), a[i].is = "nonce"
               PROVE  IF AckBefore(a, i) THEN a[i].job \in A ELSE a[i].job \in B
    BY DEF NoncesFit
  <2>1. CASE i \in 1 .. Len(s)
    BY <1>2, <1>5, <2>1 DEF NoncesFit
  <2>2. CASE i = Len(s) + 1
    BY <1>1, <1>3, <1>5, <2>2
  <2> QED
    BY <1>1, <2>1, <2>2
<1> QED
  BY <1>4, <1>5 DEF a

-----------------------------------------------------------------------------
(* Bytes.                                                                  *)

LEMMA JobMessageFacts ==
  ASSUME NEW j \in Job
  PROVE  /\ JobMessage(j) \in Seq(DownByte) /\ Len(JobMessage(j)) = JobBytes + 1
         /\ JobMessage(j)[1] = Byte(1, Mixed)
         /\ \A i \in 2 .. JobBytes + 1 : JobMessage(j)[i] = Byte(2, j)
<1> DEFINE body == [i \in 1 .. JobBytes |-> Byte(2, j)]
           head == <<Byte(1, Mixed)>>
<1>1. Byte(1, Mixed) \in DownByte /\ Byte(2, j) \in DownByte
  BY DEF Byte, DownByte, Label
<1>2. body \in Seq(DownByte) /\ Len(body) = JobBytes /\ \A i \in 1 .. JobBytes : body[i] = Byte(2, j)
  BY <1>1, FpgaAssumption
<1>3. head \in Seq(DownByte) /\ Len(head) = 1 /\ head[1] = Byte(1, Mixed)
  BY <1>1
<1>4. JobMessage(j) = head \o body
  BY DEF JobMessage
<1> HIDE DEF head, body
<1>5. /\ head \o body \in Seq(DownByte) /\ Len(head \o body) = 1 + JobBytes
      /\ \A i \in 1 .. 1 + JobBytes : (head \o body)[i] = IF i <= 1 THEN head[i] ELSE body[i - 1]
  <2>1. /\ head \o body \in Seq(DownByte) /\ Len(head \o body) = Len(head) + Len(body)
        /\ \A i \in 1 .. Len(head) + Len(body) :
              (head \o body)[i] = IF i <= Len(head) THEN head[i] ELSE body[i - Len(head)]
    BY <1>2, <1>3, ConcatProperties
  <2> QED
    BY <1>2, <1>3, <2>1
<1> QED
  BY <1>2, <1>3, <1>4, <1>5, FpgaAssumption

LEMMA PingBytesFacts ==
  /\ PingBytes \in Seq(DownByte) /\ Len(PingBytes) = JobBytes + 1
  /\ \A i \in 1 .. JobBytes + 1 : PingBytes[i] = Byte(0, Mixed)
<1>1. Byte(0, Mixed) \in DownByte
  BY DEF Byte, DownByte, Label
<1> QED
  BY <1>1, FpgaAssumption DEF PingBytes

(* A byte of a job is read, or the command of the next one.                *)
LEMMA FramedTail ==
  ASSUME NEW s \in Seq(DownByte), s # <<>>, NEW n \in 0 .. JobBytes, NEW w, Framed(s, n, w)
  PROVE  /\ n > 0 => /\ Framed(Tail(s), n - 1, w)
                     /\ Head(s).job \in 1 .. w
                     /\ n > 1 => Tail(s)[1].job = Head(s).job
         /\ n = 0 => Framed(Tail(s), JobBytes, w) /\ Head(s).cmd = 1
<1> DEFINE t == Tail(s)
<1>1. /\ t \in Seq(DownByte) /\ Head(s) = s[1] /\ Len(s) \in Nat /\ Len(s) > 0
      /\ Len(t) = Len(s) - 1 /\ \A i \in 1 .. Len(t) : t[i] = s[i + 1]
  BY TailFacts
<1> HIDE DEF t
<1>2. JobBytes \in Nat
  BY FpgaAssumption
<1>3. ASSUME NEW i \in 1 .. Len(t) PROVE t[i].cmd = 2 => t[i].job \in 1 .. w
  <2>1. i + 1 \in 1 .. Len(s) /\ t[i] = s[i + 1]
    BY <1>1
  <2> QED
    BY <2>1 DEF Framed
<1>4. ASSUME NEW i \in 1 .. Len(t), t[i].cmd = 1
      PROVE  /\ i + JobBytes <= Len(t)
             /\ \A k \in i + 1 .. i + JobBytes : t[k].cmd = 2
             /\ SameJob(t, i + 1, i + JobBytes)
             /\ i + JobBytes < Len(t) => t[i + JobBytes + 1].cmd = 1
  <2> DEFINE j == i + 1
  <2>1. j \in 1 .. Len(s) /\ s[j].cmd = 1
    BY <1>1, <1>4
  <2>2. /\ j + JobBytes <= Len(s)
        /\ \A k \in j + 1 .. j + JobBytes : s[k].cmd = 2
        /\ SameJob(s, j + 1, j + JobBytes)
        /\ j + JobBytes < Len(s) => s[j + JobBytes + 1].cmd = 1
    <3> HIDE DEF j
    <3> QED
      BY <2>1 DEF Framed
  <2>3. i + JobBytes <= Len(t)
    BY <1>1, <1>2, <2>2
  <2>4. ASSUME NEW k \in i + 1 .. i + JobBytes PROVE t[k] = s[k + 1] /\ k + 1 \in j + 1 .. j + JobBytes
    BY <1>1, <1>2, <2>3
  <2>5. \A k \in i + 1 .. i + JobBytes : t[k].cmd = 2
    BY <2>2, <2>4
  <2>6. SameJob(t, i + 1, i + JobBytes)
    <3> SUFFICES ASSUME NEW a \in i + 1 .. i + JobBytes, NEW b \in i + 1 .. i + JobBytes
                 PROVE  t[a].job = t[b].job
      BY DEF SameJob
    <3>1. s[a + 1].job = s[b + 1].job
      BY <2>2, <2>4 DEF SameJob
    <3> QED
      BY <2>4, <3>1
  <2>7. ASSUME i + JobBytes < Len(t) PROVE t[i + JobBytes + 1].cmd = 1
    <3>1. j + JobBytes < Len(s) /\ i + JobBytes + 1 \in 1 .. Len(t) /\ i + JobBytes + 1 + 1 = j + JobBytes + 1
      BY <1>1, <1>2, <2>7
    <3>2. t[i + JobBytes + 1] = s[i + JobBytes + 1 + 1]
      BY <1>1, <3>1
    <3> QED
      BY <2>2, <3>1, <3>2
  <2> QED
    BY <2>3, <2>5, <2>6, <2>7
<1>5. CASE n > 0
  <2>1. n <= Len(s) /\ (\A i \in 1 .. n : s[i].cmd = 2) /\ SameJob(s, 1, n) /\ (n < Len(s) => s[n + 1].cmd = 1)
    BY DEF Framed
  <2>2. 1 \in 1 .. n /\ 1 \in 1 .. Len(s)
    BY <1>1, <1>5
  <2>3. s[1].cmd = 2 /\ s[1].job \in 1 .. w
    BY <2>1, <2>2 DEF Framed
  <2>4. ASSUME NEW i \in 1 .. n - 1 PROVE i + 1 \in 1 .. n /\ t[i] = s[i + 1]
    BY <1>1, <2>1
  <2>5. SameJob(t, 1, n - 1) /\ \A i \in 1 .. n - 1 : t[i].cmd = 2
    <3>1. ASSUME NEW a \in 1 .. n - 1, NEW b \in 1 .. n - 1 PROVE t[a].job = t[b].job
      <4>1. s[a + 1].job = s[b + 1].job
        BY <2>1, <2>4 DEF SameJob
      <4> QED
        BY <2>4, <4>1
    <3>2. \A i \in 1 .. n - 1 : t[i].cmd = 2
      BY <2>1, <2>4
    <3> QED
      BY <3>1, <3>2 DEF SameJob
  <2>6. ASSUME n - 1 < Len(t) PROVE t[n - 1 + 1].cmd = 1
    <3>1. n < Len(s) /\ n - 1 + 1 = n /\ n \in 1 .. Len(t)
      BY <1>1, <1>5, <2>6
    <3> QED
      BY <1>1, <2>1, <3>1
  <2>7. n > 1 => t[1].job = s[1].job
    <3>1. n > 1 => 1 \in 1 .. n - 1 /\ 1 + 1 = 2
      OBVIOUS
    <3> QED
      BY <2>1, <2>2, <2>4, <3>1 DEF SameJob
  <2>8. n - 1 <= Len(t)
    BY <1>1, <2>1
  <2>9. Framed(t, n - 1, w)
    BY <1>3, <1>4, <2>5, <2>6, <2>8 DEF Framed
  <2>10. Head(s).job \in 1 .. w /\ n # 0 /\ (n > 1 => t[1].job = Head(s).job)
    BY <1>1, <1>5, <2>3, <2>7
  <2> QED
    BY <2>9, <2>10 DEF t
<1>6. CASE n = 0
  <2>1. s[1].cmd = 1 /\ 1 \in 1 .. Len(s)
    BY <1>1, <1>6 DEF Framed
  <2>2. /\ 1 + JobBytes <= Len(s)
        /\ \A k \in 1 + 1 .. 1 + JobBytes : s[k].cmd = 2
        /\ SameJob(s, 1 + 1, 1 + JobBytes)
        /\ 1 + JobBytes < Len(s) => s[1 + JobBytes + 1].cmd = 1
    BY <2>1 DEF Framed
  <2>3. JobBytes <= Len(t)
    BY <1>1, <1>2, <2>2
  <2>4. ASSUME NEW k \in 1 .. JobBytes PROVE t[k] = s[k + 1] /\ k + 1 \in 1 + 1 .. 1 + JobBytes
    BY <1>1, <1>2, <2>3
  <2>5. SameJob(t, 1, JobBytes) /\ \A k \in 1 .. JobBytes : t[k].cmd = 2
    <3>1. ASSUME NEW a \in 1 .. JobBytes, NEW b \in 1 .. JobBytes PROVE t[a].job = t[b].job
      <4>1. s[a + 1].job = s[b + 1].job
        BY <2>2, <2>4 DEF SameJob
      <4> QED
        BY <2>4, <4>1
    <3>2. \A k \in 1 .. JobBytes : t[k].cmd = 2
      BY <2>2, <2>4
    <3> QED
      BY <3>1, <3>2 DEF SameJob
  <2>6. ASSUME JobBytes < Len(t) PROVE t[JobBytes + 1].cmd = 1
    <3>1. 1 + JobBytes < Len(s) /\ JobBytes + 1 \in 1 .. Len(t) /\ JobBytes + 1 + 1 = 1 + JobBytes + 1
      BY <1>1, <1>2, <2>6
    <3>2. t[JobBytes + 1] = s[1 + JobBytes + 1]
      BY <1>1, <3>1
    <3> QED
      BY <2>2, <3>1, <3>2
  <2>7. Framed(t, JobBytes, w)
    BY <1>3, <1>4, <2>3, <2>5, <2>6 DEF Framed
  <2> QED
    BY <1>1, <1>6, <2>1, <2>7 DEF t
<1> QED
  BY <1>5, <1>6

(* A whole job is sent.                                                    *)
LEMMA FramedConcat ==
  ASSUME NEW s \in Seq(DownByte), NEW n \in 0 .. JobBytes, NEW w \in Nat,
         NEW v \in Job, w <= v, v >= 1, Framed(s, n, w)
  PROVE  Framed(s \o JobMessage(v), n, v)
<1> DEFINE t == s \o JobMessage(v)
           m == JobMessage(v)
<1>1. JobBytes \in Nat /\ JobBytes > 0 /\ Len(s) \in Nat
  BY FpgaAssumption, LenProperties
<1>2. /\ m \in Seq(DownByte) /\ Len(m) = JobBytes + 1 /\ m[1] = Byte(1, Mixed)
      /\ \A i \in 2 .. JobBytes + 1 : m[i] = Byte(2, v)
  BY JobMessageFacts
<1> HIDE DEF m
<1>3. /\ t \in Seq(DownByte) /\ Len(t) = Len(s) + Len(m)
      /\ \A i \in 1 .. Len(s) + Len(m) : t[i] = IF i <= Len(s) THEN s[i] ELSE m[i - Len(s)]
  BY <1>2, ConcatProperties DEF m
<1> HIDE DEF t
<1>4. Len(t) = Len(s) + JobBytes + 1
  BY <1>1, <1>2, <1>3
<1>5. \A i \in 1 .. Len(s) : t[i] = s[i]
  BY <1>1, <1>2, <1>3
<1>6. t[Len(s) + 1].cmd = 1
  <2>1. Len(s) + 1 \in 1 .. Len(s) + Len(m) /\ ~(Len(s) + 1 <= Len(s))
    BY <1>1, <1>2
  <2>2. t[Len(s) + 1] = m[Len(s) + 1 - Len(s)] /\ Len(s) + 1 - Len(s) = 1
    BY <1>1, <1>3, <2>1
  <2> QED
    BY <1>2, <2>1, <2>2 DEF Byte
<1>7. ASSUME NEW i \in Len(s) + 2 .. Len(s) + JobBytes + 1 PROVE t[i].cmd = 2 /\ t[i].job = v
  <2>1. i \in 1 .. Len(s) + Len(m) /\ ~(i <= Len(s)) /\ i - Len(s) \in 2 .. JobBytes + 1
    BY <1>1, <1>2
  <2>2. t[i] = m[i - Len(s)]
    BY <1>3, <2>1
  <2> QED
    BY <1>2, <2>1, <2>2 DEF Byte
<1>8. n <= Len(s) /\ (\A i \in 1 .. n : s[i].cmd = 2) /\ SameJob(s, 1, n) /\ (n < Len(s) => s[n + 1].cmd = 1)
  BY DEF Framed
<1>9. n <= Len(t) /\ \A i \in 1 .. n : t[i].cmd = 2
  BY <1>1, <1>4, <1>5, <1>8
<1>10. SameJob(t, 1, n)
  BY <1>1, <1>5, <1>8 DEF SameJob
<1>11. n < Len(t) => t[n + 1].cmd = 1
  BY <1>1, <1>5, <1>6, <1>8
<1>12. ASSUME NEW i \in 1 .. Len(t), t[i].cmd = 1
       PROVE  /\ i + JobBytes <= Len(t)
              /\ \A k \in i + 1 .. i + JobBytes : t[k].cmd = 2
              /\ SameJob(t, i + 1, i + JobBytes)
              /\ i + JobBytes < Len(t) => t[i + JobBytes + 1].cmd = 1
  <2>1. CASE i <= Len(s)
    <3>1. s[i].cmd = 1 /\ i \in 1 .. Len(s)
      BY <1>1, <1>5, <1>12, <2>1
    <3>2. /\ i + JobBytes <= Len(s)
          /\ \A k \in i + 1 .. i + JobBytes : s[k].cmd = 2
          /\ SameJob(s, i + 1, i + JobBytes)
          /\ i + JobBytes < Len(s) => s[i + JobBytes + 1].cmd = 1
      BY <3>1 DEF Framed
    <3>3. ASSUME NEW k \in i + 1 .. i + JobBytes PROVE t[k] = s[k]
      <4>1. k \in 1 .. Len(s)
        BY <1>1, <3>2
      <4> QED
        BY <1>5, <4>1
    <3>4. SameJob(t, i + 1, i + JobBytes)
      <4> SUFFICES ASSUME NEW a \in i + 1 .. i + JobBytes, NEW b \in i + 1 .. i + JobBytes
                   PROVE  t[a].job = t[b].job
        BY DEF SameJob
      <4>1. s[a].job = s[b].job
        BY <3>2 DEF SameJob
      <4> QED
        BY <3>3, <4>1
    <3>5. CASE i + JobBytes < Len(s)
      <4>1. i + JobBytes + 1 \in 1 .. Len(s)
        BY <1>1, <3>5
      <4>2. t[i + JobBytes + 1].cmd = 1
        BY <1>5, <3>2, <3>5, <4>1
      <4>3. i + JobBytes <= Len(t)
        BY <1>1, <1>4, <3>5
      <4>4. \A k \in i + 1 .. i + JobBytes : t[k].cmd = 2
        BY <3>2, <3>3
      <4> QED
        BY <3>4, <4>2, <4>3, <4>4
    <3>6. CASE i + JobBytes = Len(s)
      <4>1. i + JobBytes <= Len(t) /\ t[i + JobBytes + 1].cmd = 1
        <5>1. i + JobBytes <= Len(t)
          BY <1>1, <1>4, <3>6
        <5> QED
          BY <1>6, <3>6, <5>1
      <4>2. \A k \in i + 1 .. i + JobBytes : t[k].cmd = 2
        BY <3>2, <3>3
      <4> QED
        BY <3>4, <4>1, <4>2
    <3> QED
      BY <1>1, <3>2, <3>5, <3>6
  <2>2. CASE i = Len(s) + 1
    <3>1. i + JobBytes = Len(t) /\ i + 1 = Len(s) + 2
      BY <1>1, <1>4, <2>2
    <3>2. \A k \in i + 1 .. i + JobBytes : t[k].cmd = 2 /\ t[k].job = v
      BY <1>4, <1>7, <3>1
    <3>3. SameJob(t, i + 1, i + JobBytes)
      BY <3>2 DEF SameJob
    <3> QED
      BY <1>1, <3>1, <3>2, <3>3
  <2>3. CASE i > Len(s) + 1
    <3>1. t[i].cmd = 2
      BY <1>1, <1>4, <1>7, <2>3
    <3> QED
      BY <1>12, <3>1
  <2> QED
    BY <1>1, <2>1, <2>2, <2>3
<1>13. ASSUME NEW i \in 1 .. Len(t), t[i].cmd = 2 PROVE t[i].job \in 1 .. v
  <2>1. CASE i <= Len(s)
    <3>1. t[i] = s[i] /\ i \in 1 .. Len(s)
      BY <1>1, <1>5, <2>1
    <3>2. s[i].job \in 1 .. w
      BY <1>13, <3>1 DEF Framed
    <3> QED
      BY <3>1, <3>2 DEF Job
  <2>2. CASE i > Len(s)
    <3>1. i # Len(s) + 1
      BY <1>6, <1>13
    <3>2. t[i].job = v
      BY <1>1, <1>4, <1>7, <2>2, <3>1
    <3> QED
      BY <3>2 DEF Job
  <2> QED
    BY <1>1, <2>1, <2>2
<1>14. Framed(t, n, v)
  BY <1>9, <1>10, <1>11, <1>12, <1>13 DEF Framed
<1> QED
  BY <1>14 DEF t

-----------------------------------------------------------------------------
(* What a step does to the line.                                           *)

LEMMA LineSeq == ASSUME TypeInv PROVE Line \in Seq(UpMessage) /\ Nothing \notin UpMessage
<1>1. Nothing \notin UpMessage
  BY DEF Nothing, UpMessage
<1>2. CASE tx = Nothing
  BY <1>1, <1>2 DEF Line, TypeInv
<1>3. CASE tx # Nothing
  BY <1>1, <1>3, AppendFacts DEF Line, TypeInv
<1> QED
  BY <1>1, <1>2, <1>3

LEMMA LineTail ==
  ASSUME TypeInv, up # <<>>, up' = Tail(up), tx' = tx
  PROVE  Line # <<>> /\ Head(Line) = Head(up) /\ Line' = Tail(Line)
<1>1. up \in Seq(UpMessage)
  BY DEF TypeInv
<1>2. CASE tx = Nothing
  BY <1>2 DEF Line
<1>3. CASE tx # Nothing
  <2>1. Head(Append(up, tx)) = Head(up) /\ Tail(Append(up, tx)) = Append(Tail(up), tx)
    BY <1>1, HeadTailAppend
  <2>2. Append(up, tx) # <<>>
    BY <1>1, <1>3, AppendProperties DEF TypeInv
  <2> QED
    BY <1>3, <2>1, <2>2 DEF Line
<1> QED
  BY <1>2, <1>3

LEMMA LineSend ==
  ASSUME TypeInv, NEW m \in UpMessage, tx = Nothing, tx' = m, up' = up
  PROVE  Line' = Append(Line, m)
  BY LineSeq DEF Line

LEMMA LineTransmit == ASSUME TypeInv, Transmit PROVE Line' = Line
  BY DEF Line, Transmit

LEMMA LineSame == ASSUME up' = up, tx' = tx PROVE Line' = Line
  BY DEF Line

-----------------------------------------------------------------------------
(* Types, and what the threads have done.                                  *)

LEMMA FreshFacts ==
  ASSUME TypeInv
  PROVE  Fresh \in Job /\ Fresh >= written /\ Fresh >= 1 /\ (written = 0 => Fresh = 1)
  BY FpgaAssumption DEF TypeInv, Fresh, Job

LEMMA InitInv == Init => TypeInv /\ ThreadInv /\ PingInv
<1> SUFFICES ASSUME Init PROVE TypeInv /\ ThreadInv /\ PingInv
  OBVIOUS
<1>1. TypeInv
  <2>1. 0 \in Job /\ Mixed \in Label /\ 0 \in Label
    BY FpgaAssumption DEF Job, Label
  <2>2. <<>> \in Seq(DownByte) /\ <<>> \in Seq(UpMessage)
    BY EmptySeq
  <2>3. miner \in [pc : {"idle", "ack", "poll", "dead"}, job : Job] /\ credit \in [of : Label, to : Job, amid : BOOLEAN]
    BY <2>1 DEF Init
  <2>4. down \in Seq(DownByte) /\ up \in Seq(UpMessage) /\ tx \in UpMessage \cup {Nothing}
    BY <2>2 DEF Init
  <2>5. main \in {"ping", "read", "test", "run", "exited"} /\ rc \in 0 .. 6 /\ injections \in 0 .. MaxInjections
    BY FpgaAssumption DEF Init
  <2> QED
    BY <2>1, <2>3, <2>4, <2>5 DEF Init, TypeInv
<1>2. ThreadInv /\ PingInv
  BY DEF Init, ThreadInv, PingInv, Working, Current
<1> QED
  BY <1>1, <1>2

LEMMA TypeFpga == ASSUME TypeInv, Fpga \/ Hit \/ NoncesExhausted \/ FallSilent \/ Unplug PROVE TypeInv'
<1> USE DEF TypeInv, host, control, jobs
<1>1. down # <<>> => Tail(down) \in Seq(DownByte) /\ Head(down).job \in Label
  <2>1. \A b \in DownByte : b.job \in Label
    BY DEF DownByte
  <2> QED
    BY <2>1, TailFacts
<1>2. tx # Nothing => Append(up, tx) \in Seq(UpMessage)
  BY AppendFacts
<1>3. \A j \in Label : Message("ack", j) \in UpMessage /\ Message("nonce", j) \in UpMessage
  BY DEF Message, UpMessage
<1>4. Message("zero", 0) \in UpMessage /\ Message("exhausted", 0) \in UpMessage
  BY FpgaAssumption DEF Message, UpMessage, Label, Job
<1>5. CASE LoadByte
  <2>1. load' \in Label
    BY <1>1, <1>5 DEF LoadByte, Label
  <2>2. loading' \in 0 .. JobBytes
    BY <1>5, FpgaAssumption DEF LoadByte
  <2>3. mining' \in Label /\ tx' \in UpMessage \cup {Nothing} /\ ackLost' \in BOOLEAN
    BY <1>3, <1>5, <2>1 DEF LoadByte, Send
  <2> QED
    BY <1>1, <1>5, <2>1, <2>2, <2>3 DEF LoadByte
<1>6. CASE Command
  <2>1. load' \in Label /\ loading' \in 0 .. JobBytes
    BY <1>6, FpgaAssumption DEF Command, Label, Job
  <2>2. tx' \in UpMessage \cup {Nothing}
    BY <1>4, <1>6 DEF Command, Send
  <2> QED
    BY <1>1, <1>6, <2>1, <2>2 DEF Command
<1>7. CASE Transmit
  BY <1>2, <1>7 DEF Transmit
<1>8. CASE Hit
  BY <1>3, <1>8, FpgaAssumption DEF Hit
<1>9. CASE NoncesExhausted
  BY <1>4, <1>9, FpgaAssumption DEF NoncesExhausted
<1>10. CASE FallSilent \/ Unplug
  BY <1>10, EmptySeq DEF FallSilent, Unplug
<1> QED
  BY <1>5, <1>6, <1>7, <1>8, <1>9, <1>10 DEF Fpga

LEMMA DieType ==
  ASSUME TypeInv, Dies
  PROVE  /\ main' \in {"ping", "read", "test", "run", "exited"}
         /\ miner' \in [pc : {"idle", "ack", "poll", "dead"}, job : Job]
  BY DEF Dies, TypeInv

LEMMA TypeHost == ASSUME TypeInv, Host \/ Interrupt \/ JobTimeout \/ Inject PROVE TypeInv'
<1> USE DEF TypeInv, fpga, control, jobs
<1>1. up # <<>> => Tail(up) \in Seq(UpMessage) /\ Head(up).job \in Label
  <2>1. \A m \in UpMessage : m.job \in Label
    BY DEF UpMessage
  <2> QED
    BY <2>1, TailFacts
<1>2. Fresh \in Job /\ down \o JobMessage(Fresh) \in Seq(DownByte)
  BY FreshFacts, JobMessageFacts, ConcatProperties
<1>3. CASE Ping
  <2>1. down \o PingBytes \in Seq(DownByte)
    BY PingBytesFacts, ConcatProperties
  <2> QED
    BY <1>3, <2>1 DEF Ping
<1>4. CASE NoResponse
  BY <1>4, DieType DEF NoResponse, Die
<1>5. CASE Response
  BY <1>5, EmptySeq DEF Response
<1>6. CASE WriteJob
  BY <1>2, <1>6 DEF WriteJob
<1>7. CASE AckTimeout
  BY <1>7, DieType DEF AckTimeout, Die
<1>8. CASE Accepted
  BY <1>1, <1>8 DEF Accepted
<1>9. CASE OtherBeforeAck
  <2>1. CASE Head(up).is = "exhausted"
    BY <1>1, <1>9, <2>1 DEF OtherBeforeAck
  <2>2. CASE Head(up).is = "zero"
    BY <1>1, <1>9, <2>2, DieType DEF OtherBeforeAck, Die
  <2>3. CASE Head(up).is \notin {"exhausted", "zero"}
    <3>1. CASE miner.job = Check
      BY <1>1, <1>9, <2>3, <3>1, DieType DEF OtherBeforeAck, Die
    <3>2. CASE miner.job # Check
      BY <1>1, <1>9, <2>3, <3>2 DEF OtherBeforeAck, Submit
    <3> QED
      BY <3>1, <3>2
  <2> QED
    BY <2>1, <2>2, <2>3
<1>10. CASE PollNonce
  <2>1. credit' \in [of : Label, to : Job, amid : BOOLEAN]
    BY <1>1, <1>10 DEF PollNonce, Submit
  <2>2. UNCHANGED control \/ Done \/ Die(6)
    BY <1>10 DEF PollNonce
  <2> QED
    BY <1>1, <1>10, <2>1, <2>2, DieType DEF PollNonce, Done, Die
<1>11. CASE PollOther
  <2>1. CASE Head(up).is = "ack"
    BY <1>1, <1>11, <2>1 DEF PollOther
  <2>2. CASE Head(up).is = "exhausted"
    BY <1>1, <1>11, <2>2 DEF PollOther, Done
  <2>3. CASE Head(up).is \notin {"exhausted", "ack"}
    BY <1>1, <1>11, <2>3, DieType DEF PollOther, Die
  <2> QED
    BY <2>1, <2>2, <2>3
<1>12. CASE Exit
  BY <1>12 DEF Exit
<1>13. CASE Interrupt
  <2>1. PICK k \in 0 .. Len(down) : down' = SubSeq(down, 1, k)
    BY <1>13 DEF Interrupt
  <2>2. \A i \in 1 .. k : down[i] \in DownByte
    BY ElementOfSeq, LenProperties
  <2>3. down' \in Seq(DownByte)
    BY <2>1, <2>2, SubSeqProperties, LenProperties
  <2> QED
    BY <1>13, <2>3 DEF Interrupt
<1>14. CASE JobTimeout
  BY <1>14 DEF JobTimeout, Done
<1>15. CASE Inject
  <2>1. CASE WriteInjected
    BY <1>2, <2>1, FpgaAssumption DEF WriteInjected
  <2>2. CASE StoreInjected
    BY <2>2 DEF StoreInjected
  <2>3. CASE InjectRaises
    BY <2>3 DEF InjectRaises
  <2> QED
    BY <1>15, <2>1, <2>2, <2>3 DEF Inject
<1>16. CASE Raise
  BY <1>16, DieType DEF Raise, StartRaises, MineRaises
<1> QED
  BY <1>3, <1>4, <1>5, <1>6, <1>7, <1>8, <1>9, <1>10, <1>11, <1>12, <1>13, <1>14, <1>15, <1>16
     DEF Host, Read

LEMMA TypeStep == ASSUME TypeInv, [Next]_vars PROVE TypeInv'
<1>1. CASE UNCHANGED vars
  BY <1>1 DEF vars, host, control, jobs, fpga, TypeInv
<1> QED
  BY <1>1, TypeHost, TypeFpga DEF Next

LEMMA ThreadHost == ASSUME TypeInv, ThreadInv, Host \/ Interrupt \/ JobTimeout \/ Inject PROVE ThreadInv'
<1> USE DEF TypeInv, ThreadInv, Working, Current, fpga, control, jobs
<1>1. /\ Fresh \in Job /\ Fresh >= written /\ Fresh >= 1 /\ Fresh <= written + 1
      /\ written >= 1 => Fresh >= 2 \/ MaxJobs = 1
  BY FreshFacts, FpgaAssumption DEF Fresh, Job
<1>2. CASE Ping
  BY <1>2 DEF Ping
<1>3. CASE NoResponse
  BY <1>3 DEF NoResponse, Die, Dies
<1>4. CASE Response
  BY <1>4 DEF Response
<1>5. CASE WriteJob
  BY <1>1, <1>5 DEF WriteJob, Job
<1>6. CASE AckTimeout
  BY <1>6 DEF AckTimeout, Die, Dies
<1>7. CASE Accepted
  BY <1>7 DEF Accepted, Job
<1>8. CASE OtherBeforeAck
  <2>1. \/ UNCHANGED control
        \/ \E code \in {3, 5} : Die(code)
    BY <1>8 DEF OtherBeforeAck
  <2>2. UNCHANGED <<job, written, injections, alive, tx>>
    BY <1>8 DEF OtherBeforeAck
  <2> QED
    <3>1. miner.pc = "ack"
      BY <1>8 DEF OtherBeforeAck
    <3>2. CASE UNCHANGED control
      BY <2>2, <3>2
    <3>3. CASE \E code \in {3, 5} : Die(code)
      BY <2>2, <3>1, <3>3 DEF Die, Dies
    <3> QED
      BY <2>1, <3>2, <3>3
<1>9. CASE PollNonce
  BY <1>9 DEF PollNonce, Done, Die, Dies
<1>10. CASE PollOther
  <2>1. \/ UNCHANGED control
        \/ Done
        \/ Die(4)
    BY <1>10 DEF PollOther
  <2>2. UNCHANGED <<job, written, injections, alive, tx>>
    BY <1>10 DEF PollOther
  <2> QED
    BY <1>10, <2>1, <2>2 DEF Die, Dies, Done, PollOther
<1>11. CASE Exit
  BY <1>11 DEF Exit
<1>12. CASE Interrupt
  BY <1>12 DEF Interrupt
<1>13. CASE JobTimeout
  BY <1>13 DEF JobTimeout, Done
<1>14. CASE WriteInjected
  BY <1>1, <1>14 DEF WriteInjected, Job
<1>15. CASE StoreInjected
  BY <1>15 DEF StoreInjected, Job
<1>16. CASE InjectRaises
  BY <1>16 DEF InjectRaises
<1>17. CASE Raise
  BY <1>17 DEF Raise, StartRaises, MineRaises, Dies
<1> QED
  BY <1>2, <1>3, <1>4, <1>5, <1>6, <1>7, <1>8, <1>9, <1>10, <1>11, <1>12, <1>13, <1>14, <1>15, <1>16, <1>17
     DEF Host, Read, Inject

LEMMA ThreadFpga == ASSUME TypeInv, ThreadInv, Fpga \/ Hit \/ NoncesExhausted \/ FallSilent \/ Unplug PROVE ThreadInv'
<1>1. UNCHANGED host /\ (~alive' => tx' = Nothing)
  BY DEF Fpga, LoadByte, Command, Transmit, Hit, NoncesExhausted, FallSilent, Unplug
<1> QED
  BY <1>1 DEF host, control, jobs, ThreadInv, Working, Current

LEMMA ThreadStep == ASSUME TypeInv, ThreadInv, [Next]_vars PROVE ThreadInv'
<1>1. CASE UNCHANGED vars
  BY <1>1 DEF vars, host, control, jobs, fpga, ThreadInv, Working, Current
<1> QED
  BY <1>1, ThreadHost, ThreadFpga DEF Next

-----------------------------------------------------------------------------
(* The start: the zeros flush what the session before left.                *)

LEMMA PingHost ==
  ASSUME TypeInv, ThreadInv, PingInv, Host \/ Interrupt \/ JobTimeout \/ Inject
  PROVE  PingInv'
<1> USE DEF PingInv, fpga, control, jobs
<1>1. CASE Ping
  <2>1. down' = PingBytes /\ Len(PingBytes) = JobBytes + 1
    BY <1>1, PingBytesFacts, ConcatEmptySeq DEF Ping
  <2>2. \A i \in 1 .. Len(down') : down'[i] = Byte(0, Mixed)
    BY <2>1, PingBytesFacts
  <2>3. loading < Len(down') /\ down' # <<>>
    BY <2>1, FpgaAssumption, EmptySeq DEF TypeInv
  <2> QED
    BY <1>1, <2>2, <2>3 DEF Ping
<1>2. CASE ~Ping
  <2>1. main' \notin {"ping", "read"}
    BY <1>2 DEF ThreadInv, Working, Host, Read, Raise, StartRaises, MineRaises, NoResponse, Response,
                WriteJob, AckTimeout, Accepted, OtherBeforeAck, PollNonce, PollOther, Exit, Interrupt,
                JobTimeout, Inject, WriteInjected, StoreInjected, InjectRaises, Done, Die, Dies
  <2> QED
    BY <2>1
<1> QED
  BY <1>1, <1>2

LEMMA PingFpga ==
  ASSUME TypeInv, PingInv, Fpga \/ Hit \/ NoncesExhausted \/ FallSilent \/ Unplug
  PROVE  PingInv'
<1> USE DEF PingInv, host, control, jobs
<1>1. main' = main /\ (alive' => alive)
  BY DEF Fpga, LoadByte, Command, Transmit, Hit, NoncesExhausted, FallSilent, Unplug
<1>2. \A j \in Label : Message("nonce", j) # Nothing
  BY DEF Message, Nothing
<1>3. Message("zero", 0) # Nothing /\ Message("exhausted", 0) # Nothing
  BY DEF Message, Nothing
<1>4. down # <<>> => /\ Tail(down) \in Seq(DownByte) /\ Head(down) = down[1]
                     /\ Len(down) \in Nat /\ Len(down) > 0 /\ Len(Tail(down)) = Len(down) - 1
                     /\ \A i \in 1 .. Len(down) - 1 : Tail(down)[i] = down[i + 1]
  BY TailFacts DEF TypeInv
<1>5. CASE LoadByte
  <2>1. main # "ping"
    BY <1>5 DEF LoadByte
  <2>2. CASE main = "read"
    <3>1. Head(down) = Byte(0, Mixed) /\ loading < Len(down)
      BY <1>1, <1>4, <1>5, <2>2 DEF LoadByte
    <3>2. load' = Mixed /\ mining' \in {mining, Mixed}
      BY <1>5, <3>1 DEF LoadByte, Byte
    <3>3. /\ \A i \in 1 .. Len(down') : down'[i] = Byte(0, Mixed)
          /\ loading' < Len(down') /\ down' # <<>>
      <4>1. down' = Tail(down) /\ loading' = loading - 1 /\ loading > 0 /\ loading \in Nat
        BY <1>5, FpgaAssumption DEF LoadByte, TypeInv
      <4>2. \A i \in 1 .. Len(down') : down'[i] = Byte(0, Mixed)
        BY <1>1, <1>4, <1>5, <2>2, <4>1 DEF LoadByte
      <4>3. loading' < Len(down') /\ Len(down') > 0
        BY <1>4, <1>5, <3>1, <4>1 DEF LoadByte
      <4> QED
        BY <4>2, <4>3, EmptySeq
    <3> QED
      BY <1>1, <2>2, <3>2, <3>3
  <2> QED
    BY <1>1, <2>1, <2>2
<1>6. CASE Command
  <2>1. main # "ping"
    BY <1>6 DEF Command
  <2>2. CASE main = "read"
    <3>1. Head(down) = Byte(0, Mixed)
      BY <1>1, <1>4, <1>6, <2>2 DEF Command
    <3>2. tx' # Nothing /\ loading' = 0 /\ mining' = mining
      BY <1>3, <1>6, <3>1 DEF Command, Byte, Send
    <3>3. \A i \in 1 .. Len(down') : down'[i] = Byte(0, Mixed)
      BY <1>1, <1>4, <1>6, <2>2 DEF Command
    <3> QED
      BY <1>1, <2>2, <3>2, <3>3
  <2> QED
    BY <1>1, <2>1, <2>2
<1>7. CASE Transmit
  <2>1. up' # <<>>
    BY <1>7, AppendProperties DEF Transmit, TypeInv
  <2> QED
    BY <1>1, <1>7, <2>1 DEF Transmit
<1>8. CASE Hit
  BY <1>2, <1>8 DEF Hit, TypeInv
<1>9. CASE NoncesExhausted
  BY <1>3, <1>9 DEF NoncesExhausted
<1>10. CASE FallSilent \/ Unplug
  BY <1>10 DEF FallSilent, Unplug
<1> QED
  BY <1>5, <1>6, <1>7, <1>8, <1>9, <1>10 DEF Fpga

LEMMA PingStep == ASSUME TypeInv, ThreadInv, PingInv, [Next]_vars PROVE PingInv'
<1>1. CASE UNCHANGED vars
  BY <1>1 DEF vars, host, control, jobs, fpga, PingInv
<1> QED
  BY <1>1, PingHost, PingFpga DEF Next

-----------------------------------------------------------------------------
(* From then on the bytes on the way down are those of whole jobs.         *)

LEMMA FrameHost ==
  ASSUME TypeInv, ThreadInv, PingInv, FrameInv, Host \/ Interrupt \/ JobTimeout \/ Inject
  PROVE  FrameInv'
<1> USE DEF fpga, control, jobs
<1>1. JobBytes \in Nat /\ JobBytes > 0
  BY FpgaAssumption
<1>2. CASE Response
  <2>1. alive => down = <<>> /\ loading = 0
    <3>1. main = "read" /\ (alive => down = <<>>)
      BY <1>2 DEF Response
    <3>2. alive => loading = 0 \/ loading < 0
      BY <3>1, EmptySeq DEF PingInv
    <3> QED
      BY <3>1, <3>2 DEF TypeInv
  <2>2. Framed(<<>>, 0, written)
    BY EmptySeq DEF Framed, SameJob
  <2> QED
    BY <1>1, <1>2, <2>1, <2>2 DEF FrameInv, Response
<1>3. CASE WriteJob \/ WriteInjected
  <2>1. /\ written' = Fresh /\ down' = down \o JobMessage(Fresh)
        /\ Working /\ main' = main /\ UNCHANGED <<alive, loading, load>>
    BY <1>3 DEF WriteJob, WriteInjected, Working
  <2>2. CASE alive
    <3>1. Framed(down, loading, written)
      BY <2>1, <2>2 DEF FrameInv
    <3>2. Framed(down', loading, written')
      BY <2>1, <3>1, FreshFacts, FramedConcat DEF TypeInv, Job
    <3>3. loading <= Len(down) /\ Len(down) \in Nat
      BY <3>1, LenProperties DEF Framed, TypeInv
    <3>4. loading > 0 => down'[1] = down[1]
      <4>1. JobMessage(Fresh) \in Seq(DownByte) /\ Len(JobMessage(Fresh)) \in Nat
        BY FreshFacts, JobMessageFacts, LenProperties
      <4>2. \A i \in 1 .. Len(down) + Len(JobMessage(Fresh)) : i <= Len(down) => down'[i] = down[i]
        BY <2>1, <4>1, ConcatProperties DEF TypeInv
      <4>3. loading > 0 => 1 \in 1 .. Len(down) + Len(JobMessage(Fresh)) /\ 1 <= Len(down)
        <5>1. loading \in Int
          BY <1>1 DEF TypeInv
        <5> QED
          BY <3>3, <4>1, <5>1
      <4> QED
        BY <4>2, <4>3
    <3> QED
      BY <1>1, <2>1, <2>2, <3>2, <3>4 DEF FrameInv
  <2>3. CASE ~alive
    BY <2>1, <2>3 DEF FrameInv
  <2> QED
    BY <2>2, <2>3
<1>4. CASE ~(Response \/ WriteJob \/ WriteInjected)
  <2>1. Working' => Working /\ UNCHANGED <<down, written, fpga>>
    BY <1>4 DEF ThreadInv, Working, Host, Read, Raise, StartRaises, MineRaises, Ping, NoResponse,
                AckTimeout, Accepted, OtherBeforeAck, PollNonce, PollOther, Exit, Interrupt, JobTimeout,
                Inject, StoreInjected, InjectRaises, Done, Die, Dies
  <2> QED
    BY <2>1 DEF FrameInv
<1> QED
  BY <1>2, <1>3, <1>4

(* The bytes of a job are loaded one by one, and make a whole job.         *)
LEMMA LoadWhole ==
  ASSUME TypeInv, FrameInv, LoadByte, Working
  PROVE  /\ Framed(down', loading', written)
         /\ load' = Head(down).job /\ Head(down).job \in 1 .. written
         /\ loading > 1 => down'[1].job = load'
<1>1. alive /\ down # <<>> /\ loading > 0 /\ down' = Tail(down) /\ loading' = loading - 1
  BY DEF LoadByte
<1>2. Framed(down, loading, written) /\ (loading = JobBytes => load = 0)
      /\ (loading > 0 /\ loading < JobBytes => load = down[1].job)
  BY <1>1 DEF FrameInv
<1>3. /\ Framed(Tail(down), loading - 1, written)
      /\ Head(down).job \in 1 .. written
      /\ loading > 1 => Tail(down)[1].job = Head(down).job
  BY <1>1, <1>2, FramedTail DEF TypeInv
<1>4. Head(down) = down[1]
  BY <1>1, TailFacts DEF TypeInv
<1>5. load \in {0, Head(down).job}
  BY <1>1, <1>2, <1>4, FpgaAssumption DEF TypeInv
<1> QED
  BY <1>1, <1>3, <1>5 DEF LoadByte

LEMMA FrameFpga ==
  ASSUME TypeInv, FrameInv, Fpga \/ Hit \/ NoncesExhausted \/ FallSilent \/ Unplug
  PROVE  FrameInv'
<1> USE DEF host, control, jobs
<1>1. JobBytes \in Nat /\ JobBytes > 0
  BY FpgaAssumption
<1>2. CASE LoadByte
  <2>1. Working' = Working /\ alive' = alive /\ written' = written /\ loading' = loading - 1
    BY <1>2 DEF LoadByte, Working
  <2>2. loading' # JobBytes /\ (loading' > 0 => loading > 1)
    BY <1>1, <2>1 DEF TypeInv
  <2> QED
    BY <1>1, <1>2, <2>1, <2>2, LoadWhole DEF FrameInv
<1>3. CASE Command
  <2>1. /\ Working' = Working /\ alive /\ written' = written /\ down # <<>> /\ loading = 0
        /\ down' = Tail(down)
    BY <1>3 DEF Command, Working
  <2>2. CASE Working
    <3>1. Framed(Tail(down), JobBytes, written) /\ Head(down).cmd = 1
      BY <2>1, <2>2, FramedTail DEF FrameInv, TypeInv
    <3>2. loading' = JobBytes /\ load' = 0
      BY <1>3, <3>1 DEF Command
    <3> QED
      BY <1>1, <2>1, <3>1, <3>2 DEF FrameInv
  <2>3. CASE ~Working
    BY <2>1, <2>3 DEF FrameInv
  <2> QED
    BY <2>2, <2>3
<1>4. CASE Transmit \/ Hit \/ NoncesExhausted \/ FallSilent \/ Unplug
  BY <1>4 DEF FrameInv, Working, Transmit, Hit, NoncesExhausted, FallSilent, Unplug
<1> QED
  BY <1>2, <1>3, <1>4 DEF Fpga

LEMMA FrameStep == ASSUME TypeInv, ThreadInv, PingInv, FrameInv, [Next]_vars PROVE FrameInv'
<1>1. CASE UNCHANGED vars
  BY <1>1 DEF vars, host, control, jobs, fpga, FrameInv, Working
<1> QED
  BY <1>1, FrameHost, FrameFpga DEF Next

-----------------------------------------------------------------------------
(* The nonces on the line and the acknowledgements between them.           *)

LEMMA FitNoAck ==
  ASSUME NEW s \in Seq(UpMessage), NEW B, NEW A, NEW B2, NEW A2,
         ~HasAck(s), NoncesFit(s, B, A), B \subseteq B2
  PROVE  NoncesFit(s, B2, A2)
<1>1. ASSUME NEW i \in 1 .. Len(s) PROVE ~AckBefore(s, i)
  <2>1. \A k \in 1 .. i - 1 : k \in 1 .. Len(s)
    BY LenProperties
  <2> QED
    BY <2>1 DEF HasAck, AckBefore
<1> QED
  BY <1>1 DEF NoncesFit

LEMMA MoreWritten ==
  ASSUME TypeInv, written' \in Job, written' >= written,
         UNCHANGED <<job, injecting, injections, ackLost>>
  PROVE  Before \subseteq Before' /\ (~Sure => After \subseteq After')
<1>0. Label \subseteq Int /\ Job \subseteq Int /\ job \in Int /\ written \in Int /\ written' \in Int
  BY FpgaAssumption DEF TypeInv, Job, Label, Mixed
<1>1. ASSUME NEW j \in Before PROVE j \in Before'
  BY <1>0 DEF Before, Sure, Current
<1>2. ASSUME ~Sure, NEW j \in After PROVE j \in After'
  BY <1>0, <1>2 DEF After, Sure
<1> QED
  BY <1>1, <1>2

LEMMA SameJobs ==
  ASSUME UNCHANGED <<written, job, injecting, injections, ackLost>>
  PROVE  Before' = Before /\ After' = After
  BY DEF Before, After, Sure, Current

(* What a read takes from the line, when it is no acknowledgement.         *)
LEMMA ReadOther ==
  ASSUME TypeInv, LineInv, Working, miner.pc # "dead", up # <<>>, up' = Tail(up), Head(up).is # "ack",
         UNCHANGED <<tx, alive, mining, written, job, injecting, injections, ackLost>>
  PROVE  LineInv' /\ Good(Head(up)) /\ (Head(up).is = "nonce" => Head(up).job \in Before)
<1>1. Line \in Seq(UpMessage) /\ Line # <<>> /\ Head(Line) = Head(up) /\ Line' = Tail(Line)
  BY LineSeq, LineTail
<1>2. Clean(Line) /\ NoncesFit(Line, Before, After)
  BY DEF LineInv
<1>3. Clean(Tail(Line)) /\ Good(Head(up))
  BY <1>1, <1>2, CleanTail
<1>4. NoncesFit(Tail(Line), Before, After) /\ (Head(up).is = "nonce" => Head(up).job \in Before)
  BY <1>1, <1>2, FitTail
<1>5. HasAck(Line) <=> HasAck(Tail(Line))
  BY <1>1, AckTail
<1> QED
  BY <1>1, <1>3, <1>4, <1>5, SameJobs DEF LineInv

LEMMA ReadAck ==
  ASSUME TypeInv, LineInv, Working, miner.pc # "dead", up # <<>>, up' = Tail(up), Head(up).is = "ack",
         UNCHANGED <<tx, alive, mining, written, injections, ackLost>>, After \subseteq Before'
  PROVE  LineInv'
<1>1. Line \in Seq(UpMessage) /\ Line # <<>> /\ Head(Line) = Head(up) /\ Line' = Tail(Line)
  BY LineSeq, LineTail
<1>2. Clean(Line) /\ NoncesFit(Line, Before, After)
  BY DEF LineInv
<1>3. Clean(Tail(Line))
  BY <1>1, <1>2, CleanTail
<1>4. After' = After
  BY DEF After, Sure
<1>5. NoncesFit(Tail(Line), Before', After')
  <2>1. NoncesFit(Tail(Line), After, After)
    BY <1>1, <1>2, FitTail
  <2> QED
    BY <1>4, <2>1, FitMore
<1>6. HasAck(Line)
  BY <1>1, AckTail
<1>7. alive => mining \in After
  BY <1>6 DEF LineInv
<1> QED
  BY <1>1, <1>3, <1>4, <1>5, <1>7 DEF LineInv

LEMMA LineHost ==
  ASSUME TypeInv, ThreadInv, PingInv, LineInv, SureInv, Host \/ Interrupt \/ JobTimeout \/ Inject
  PROVE  LineInv'
<1> USE DEF fpga, control, jobs
<1>1. CASE Response
  <2>1. main = "read" /\ tx = Nothing /\ up' = <<>> /\ UNCHANGED <<tx, mining, job, written, alive>>
    BY <1>1 DEF Response, ThreadInv
  <2>2. Line' = <<>> /\ Len(<<>>) = 0
    BY <2>1, EmptySeq DEF Line
  <2>3. ~HasAck(<<>>) /\ Clean(<<>>) /\ NoncesFit(<<>>, Before', After')
    BY <2>2 DEF HasAck, Clean, NoncesFit
  <2>4. job = 0 /\ written = 0 /\ mining \in {0, Mixed}
    BY <2>1 DEF ThreadInv, PingInv
  <2>5. mining \in Before'
    BY <2>1, <2>4, FpgaAssumption DEF Before, Current, Label, Job, Mixed
  <2> QED
    BY <2>1, <2>2, <2>3, <2>5 DEF LineInv
<1>2. CASE WriteJob
  <2>1. /\ Working /\ miner.pc = "idle" /\ Line' = Line
        /\ UNCHANGED <<job, injecting, injections, ackLost, mining, alive>>
    BY <1>2, LineSame DEF WriteJob, Working
  <2>2. Before \subseteq Before' /\ (~Sure => After \subseteq After')
    BY <1>2, <2>1, FreshFacts, MoreWritten DEF WriteJob
  <2>3. Clean(Line) /\ NoncesFit(Line, Before, After)
        /\ (alive /\ HasAck(Line) => mining \in After) /\ (alive /\ ~HasAck(Line) => mining \in Before)
    BY <2>1 DEF LineInv
  <2>4. CASE Sure
    <3>1. ~HasAck(Line)
      BY <2>1, <2>4 DEF SureInv
    <3>2. NoncesFit(Line, Before', After')
      BY <2>2, <2>3, <3>1, LineSeq, FitNoAck
    <3> QED
      BY <2>1, <2>2, <2>3, <3>1, <3>2 DEF LineInv
  <2>5. CASE ~Sure
    <3>1. NoncesFit(Line, Before', After')
      BY <2>2, <2>3, <2>5, FitMore
    <3> QED
      BY <2>1, <2>2, <2>3, <2>5, <3>1 DEF LineInv
  <2> QED
    BY <2>4, <2>5
<1>3. CASE WriteInjected
  <2>1. Working /\ miner' = miner /\ Working' /\ Line' = Line /\ UNCHANGED <<ackLost, mining, alive>>
    BY <1>3, LineSame DEF WriteInjected, Working
  <2>2. Clean(Line')
    BY <2>1 DEF LineInv
  <2>3. CASE miner.pc = "dead"
    BY <2>1, <2>2, <2>3 DEF LineInv
  <2>4. CASE miner.pc # "dead"
    <3>1. written' = Fresh /\ Current' = Fresh /\ ~Sure' /\ job' = job /\ job >= 1
      BY <1>3, <2>4 DEF WriteInjected, Sure, Current, ThreadInv, TypeInv
    <3>2. Current <= written /\ Fresh \in Job /\ Fresh >= written /\ Fresh >= 1
      BY FreshFacts DEF Current, ThreadInv, TypeInv, Job
    <3>3. Label \subseteq Int /\ Fresh \in Int /\ job \in Int /\ written \in Int /\ Current \in Int
      BY <3>2, FpgaAssumption DEF TypeInv, Job, Label, Mixed, Current
    <3>4. ASSUME NEW j \in Before PROVE j \in Before'
      BY <2>1, <3>1, <3>2, <3>3 DEF Before
    <3>5. ASSUME NEW j \in After PROVE j \in After'
      BY <3>1, <3>2, <3>3 DEF After
    <3>6. NoncesFit(Line, Before', After')
      BY <2>1, <2>4, <3>4, <3>5, FitMore DEF LineInv
    <3> QED
      BY <2>1, <2>2, <2>4, <3>4, <3>5, <3>6 DEF LineInv
  <2> QED
    BY <2>3, <2>4
<1>9. CASE StoreInjected
  <2>1. Working' /\ Working /\ miner' = miner /\ Line' = Line
        /\ UNCHANGED <<ackLost, mining, alive, written, injections>>
    BY <1>9, LineSame DEF StoreInjected, Working
  <2>2. Clean(Line')
    BY <2>1 DEF LineInv
  <2>3. CASE miner.pc = "dead"
    BY <2>1, <2>2, <2>3 DEF LineInv
  <2>4. CASE miner.pc # "dead"
    <3>1. Current' = Current /\ ~Sure /\ ~Sure' /\ job >= 1
      BY <1>9, <2>4 DEF StoreInjected, Current, Sure, ThreadInv, TypeInv
    <3>2. Before \subseteq Before' /\ After' = After
      BY <2>1, <3>1 DEF Before, After
    <3>3. NoncesFit(Line, Before', After')
      BY <2>1, <2>4, <3>2, FitMore DEF LineInv
    <3> QED
      BY <2>1, <2>2, <2>4, <3>2, <3>3 DEF LineInv
  <2> QED
    BY <2>3, <2>4
<1>4. CASE Accepted
  <2>1. /\ Working /\ miner.pc # "dead" /\ up # <<>> /\ up' = Tail(up) /\ Head(up).is = "ack"
        /\ UNCHANGED <<tx, alive, mining, written, injections, ackLost>>
    BY <1>4 DEF Accepted, ThreadInv
  <2>2. job' = written /\ Current' = written
    BY <1>4 DEF Accepted, ThreadInv, Current
  <2>3. After \subseteq Before'
    BY <2>1, <2>2 DEF After, Before, Sure, TypeInv, Job, Label
  <2> QED
    BY <2>1, <2>3, ReadAck
<1>5. CASE OtherBeforeAck
  <2>1. /\ Working /\ miner.pc # "dead" /\ up # <<>> /\ up' = Tail(up) /\ Head(up).is # "ack"
        /\ UNCHANGED <<tx, alive, mining, written, job, injecting, injections, ackLost>>
    BY <1>5 DEF OtherBeforeAck, ThreadInv, Done, Die
  <2> QED
    BY <2>1, ReadOther
<1>6. CASE PollNonce
  <2>1. /\ Working /\ miner.pc # "dead" /\ up # <<>> /\ up' = Tail(up) /\ Head(up).is # "ack"
        /\ UNCHANGED <<tx, alive, mining, written, job, injecting, injections, ackLost>>
    BY <1>6 DEF PollNonce, ThreadInv, Done, Die
  <2> QED
    BY <2>1, ReadOther
<1>7. CASE PollOther
  <2>1. /\ Working /\ miner.pc = "poll" /\ up # <<>> /\ up' = Tail(up)
        /\ UNCHANGED <<tx, alive, mining, written, job, injecting, injections, ackLost>>
    BY <1>7 DEF PollOther, ThreadInv, Done, Die
  <2>2. CASE Head(up).is # "ack"
    BY <2>1, <2>2, ReadOther
  <2>3. CASE Head(up).is = "ack"
    <3>1. HasAck(Line)
      BY <2>1, <2>3, LineSeq, LineTail, AckTail
    <3>2. ~Sure
      BY <2>1, <3>1 DEF SureInv
    <3>3. Current' = written /\ job >= 1
      BY <2>1 DEF ThreadInv, Current
    <3>4. After \subseteq Before'
      BY <2>1, <3>2, <3>3 DEF After, Before, Sure, TypeInv, Job, Label
    <3> QED
      BY <2>1, <2>3, <3>4, ReadAck
  <2> QED
    BY <2>2, <2>3
<1>8. CASE Ping \/ NoResponse \/ AckTimeout \/ Exit \/ Interrupt \/ JobTimeout \/ Raise \/ InjectRaises
  <2>1. /\ Working' => Working
        /\ miner'.pc # "dead" => miner.pc # "dead"
        /\ UNCHANGED <<up, tx, alive, mining, written, job, injecting, injections, ackLost>>
    BY <1>8 DEF Working, Ping, NoResponse, AckTimeout, Exit, Interrupt, JobTimeout, Raise, StartRaises,
                MineRaises, InjectRaises, Done, Die, Dies, ThreadInv, TypeInv
  <2> QED
    BY <2>1, LineSame, SameJobs DEF LineInv
<1> QED
  BY <1>1, <1>2, <1>3, <1>4, <1>5, <1>6, <1>7, <1>8, <1>9 DEF Host, Read, Inject

(* The last byte of a job: it is acknowledged and mined.                   *)
LEMMA LineLoaded ==
  ASSUME TypeInv, ThreadInv, FrameInv, LineInv, SureInv, LoadByte, loading = 1, Working
  PROVE  LineInv'
<1> USE DEF host, control, jobs
<1>1. /\ mining' = load' /\ load' = Head(down).job /\ load' \in 1 .. written
      /\ Head(down).cmd = 2 /\ Head(down) = down[1] /\ Len(down) \in Nat /\ Len(down) > 0
  <2>1. down \in Seq(DownByte) /\ down # <<>> /\ alive
    BY DEF LoadByte, TypeInv
  <2>2. Head(down) = down[1] /\ Len(down) \in Nat /\ Len(down) > 0
    BY <2>1, TailFacts
  <2>3. Head(down).cmd = 2
    BY <2>1, <2>2 DEF FrameInv, Framed
  <2> QED
    BY <2>2, <2>3, LoadWhole DEF LoadByte
<1>2. /\ Working' = Working /\ alive' = alive /\ alive /\ miner' = miner /\ up' = up
      /\ UNCHANGED <<written, job, injecting, injections>>
  BY DEF LoadByte, Working
<1>3. load' \in Label /\ load' # Mixed /\ written \in Int /\ job \in Int
  BY <1>1, FpgaAssumption DEF TypeInv, Job, Label, Mixed
<1>4. Clean(Line) /\ (miner.pc # "dead" => NoncesFit(Line, Before, After))
  BY DEF LineInv
<1>5. CASE tx = Nothing
  <2>1. ackLost' = ackLost /\ tx' = Message("ack", load')
    <3>1. ackLost' = ackLost
      BY <1>5 DEF LoadByte, TypeInv
    <3> QED
      BY <1>1, <1>5, <3>1 DEF LoadByte, Send
  <2>2. /\ Message("ack", load') \in UpMessage /\ Message("ack", load').is = "ack"
        /\ Good(Message("ack", load'))
    BY <1>3 DEF Message, UpMessage, Good
  <2>3. Line \in Seq(UpMessage) /\ Line' = Append(Line, Message("ack", load'))
    BY <1>2, <1>5, <2>1, <2>2, LineSeq, LineSend
  <2>4. Clean(Line') /\ HasAck(Line')
    BY <1>4, <2>2, <2>3, CleanAppend, AckAppend
  <2>5. miner.pc # "dead" => NoncesFit(Line', Before, After)
    BY <1>4, <2>2, <2>3, FitAppend
  <2>6. miner.pc # "dead" => mining' \in After
    <3>1. miner.pc # "dead" /\ Sure => load' = written
      BY <1>1, <1>2, EmptySeq DEF SureInv, TypeInv
    <3> QED
      BY <1>1, <1>3, <3>1 DEF After
  <2> QED
    BY <1>2, <2>1, <2>4, <2>5, <2>6, SameJobs DEF LineInv
<1>6. CASE tx # Nothing
  <2>1. ackLost' = TRUE /\ tx' = tx /\ Line' = Line
    BY <1>2, <1>6, LineSame DEF LoadByte, Send
  <2>2. ASSUME NEW j \in Before PROVE j \in Before'
    BY <1>2, <2>1, <2>2 DEF Before, Sure, Current
  <2>3. ASSUME NEW j \in After PROVE j \in After'
    BY <1>2, <2>1, <2>3 DEF After, Sure
  <2>4. mining' \in Before' /\ mining' \in After'
    BY <1>1, <1>2, <1>3, <2>1 DEF Before, After, Sure
  <2>5. miner.pc # "dead" => NoncesFit(Line, Before', After')
    <3>1. Before \subseteq Before' /\ After \subseteq After'
      BY <2>2, <2>3
    <3> QED
      BY <1>4, <3>1, FitMore
  <2> QED
    BY <1>2, <1>4, <2>1, <2>4, <2>5 DEF LineInv
<1> QED
  BY <1>5, <1>6

(* Another message begins to be sent.                                      *)
LEMMA LineSent ==
  ASSUME TypeInv, LineInv, NEW m \in UpMessage, Good(m), m.is # "ack", m.is = "nonce" => m.job = mining,
         alive, tx = Nothing, tx' = m, up' = up,
         UNCHANGED <<main, miner, alive, mining, written, job, injecting, injections, ackLost>>
  PROVE  LineInv'
<1>1. Line \in Seq(UpMessage) /\ Line' = Append(Line, m)
  BY LineSeq, LineSend
<1>2. HasAck(Line') <=> HasAck(Line)
  BY <1>1, AckAppend
<1>3. Clean(Line) => Clean(Line')
  BY <1>1, CleanAppend
<1>4. Working /\ miner.pc # "dead" => NoncesFit(Line', Before, After)
  BY <1>1, FitAppend DEF LineInv
<1>5. Working' = Working
  BY DEF Working
<1> QED
  BY <1>2, <1>3, <1>4, <1>5, SameJobs DEF LineInv

LEMMA LineFpga ==
  ASSUME TypeInv, ThreadInv, FrameInv, LineInv, SureInv, Fpga \/ Hit \/ NoncesExhausted \/ FallSilent \/ Unplug
  PROVE  LineInv'
<1> USE DEF host, control, jobs
<1>1. Working' = Working /\ miner' = miner /\ UNCHANGED <<written, job, injecting, injections>>
  BY DEF Fpga, LoadByte, Command, Transmit, Hit, NoncesExhausted, FallSilent, Unplug, Working
<1>2. CASE ~Working
  BY <1>1, <1>2 DEF LineInv
<1>3. CASE Working /\ LoadByte
  <2>1. CASE loading = 1
    BY <1>3, <2>1, LineLoaded
  <2>2. CASE loading # 1
    <3>1. Line' = Line /\ UNCHANGED <<mining, alive, ackLost>>
      BY <1>3, <2>2, LineSame DEF LoadByte
    <3> QED
      BY <1>1, <3>1, SameJobs DEF LineInv
  <2> QED
    BY <2>1, <2>2
<1>4. CASE Working /\ Command
  <2>1. Head(down).cmd = 1
    BY <1>4, FramedTail DEF Command, FrameInv, TypeInv
  <2>2. Line' = Line /\ UNCHANGED <<mining, alive, ackLost>>
    BY <1>4, <2>1, LineSame DEF Command
  <2> QED
    BY <1>1, <2>2, SameJobs DEF LineInv
<1>5. CASE Working /\ Transmit
  <2>1. Line' = Line /\ UNCHANGED <<mining, alive, ackLost>>
    BY <1>5, LineTransmit DEF Transmit
  <2> QED
    BY <1>1, <2>1, SameJobs DEF LineInv
<1>6. CASE Working /\ Hit
  <2>1. Message("nonce", mining) \in UpMessage /\ Good(Message("nonce", mining))
        /\ Message("nonce", mining).is = "nonce" /\ Message("nonce", mining).job = mining
    BY DEF TypeInv, Message, UpMessage, Good
  <2> QED
    BY <1>6, <2>1, LineSent DEF Hit
<1>7. CASE Working /\ NoncesExhausted
  <2>1. Message("exhausted", 0) \in UpMessage /\ Good(Message("exhausted", 0))
        /\ Message("exhausted", 0).is = "exhausted"
    BY FpgaAssumption DEF Message, UpMessage, Good, Label, Job
  <2> QED
    BY <1>7, <2>1, LineSent DEF NoncesExhausted
<1>8. CASE Working /\ FallSilent
  <2>1. tx' = Nothing /\ up' = up /\ ~alive' /\ UNCHANGED ackLost
    BY <1>8 DEF FallSilent
  <2>2. Line' = up
    BY <2>1 DEF Line
  <2>3. CASE tx = Nothing
    BY <1>1, <2>1, <2>2, <2>3, SameJobs DEF LineInv, Line
  <2>4. CASE tx # Nothing
    <3>1. Line = Append(up, tx) /\ up \in Seq(UpMessage) /\ tx \in UpMessage
      BY <2>4 DEF Line, TypeInv
    <3>2. Clean(up)
      BY <1>8, <3>1, CleanAppend DEF LineInv
    <3>3. miner.pc # "dead" => NoncesFit(up, Before, After)
      BY <1>8, <3>1, FitAppend DEF LineInv
    <3> QED
      BY <1>1, <2>1, <2>2, <3>2, <3>3, SameJobs DEF LineInv
  <2> QED
    BY <2>3, <2>4
<1>9. CASE Working /\ Unplug
  <2>1. Line' = <<>> /\ Len(<<>>) = 0 /\ ~alive'
    BY <1>9, EmptySeq DEF Unplug, Line
  <2>2. Clean(<<>>) /\ NoncesFit(<<>>, Before', After')
    BY <2>1 DEF Clean, NoncesFit
  <2> QED
    BY <2>1, <2>2 DEF LineInv
<1> QED
  BY <1>2, <1>3, <1>4, <1>5, <1>6, <1>7, <1>8, <1>9 DEF Fpga

LEMMA LineStep ==
  ASSUME TypeInv, ThreadInv, PingInv, FrameInv, LineInv, SureInv, [Next]_vars
  PROVE  LineInv'
<1>1. CASE UNCHANGED vars
  BY <1>1, LineSame, SameJobs DEF vars, host, control, jobs, fpga, LineInv, Working
<1> QED
  BY <1>1, LineHost, LineFpga DEF Next

-----------------------------------------------------------------------------
(* One job at a time, unless one is injected or an acknowledgement lost.   *)

LEMMA SureHost ==
  ASSUME TypeInv, ThreadInv, PingInv, FrameInv, SureInv, Host \/ Interrupt \/ JobTimeout \/ Inject
  PROVE  SureInv'
<1> USE DEF fpga, control, jobs
<1>1. CASE Response
  <2>1. main = "read" /\ miner'.pc = "idle" /\ tx' = Nothing /\ up' = <<>> /\ (alive => down = <<>>)
        /\ UNCHANGED <<alive, down>>
    BY <1>1 DEF Response, ThreadInv
  <2>2. ~HasAck(Line')
    BY <2>1, EmptySeq DEF Line, HasAck
  <2> QED
    BY <2>1, <2>2 DEF SureInv
<1>2. CASE WriteJob
  <2>1. /\ Working /\ miner.pc = "idle" /\ Line' = Line /\ miner'.pc = "ack"
        /\ Sure' = Sure /\ UNCHANGED <<alive, loading>>
        /\ written' = Fresh /\ down' = down \o JobMessage(Fresh)
    BY <1>2, LineSame DEF WriteJob, Working, Sure
  <2>2. SUFFICES ASSUME Sure PROVE SureInv'
    BY <2>1 DEF SureInv
  <2>3. ~HasAck(Line) /\ (alive => down = <<>>)
    BY <2>1, <2>2 DEF SureInv
  <2>4. OneAck(Line)
    BY <2>3 DEF OneAck, HasAck
  <2>5. CASE alive
    <3>1. loading = 0
      BY <2>1, <2>3, <2>5, EmptySeq DEF FrameInv, Framed, TypeInv
    <3>2. JobMessage(Fresh) \in Seq(DownByte) /\ Len(JobMessage(Fresh)) = JobBytes + 1
          /\ JobMessage(Fresh)[1] = Byte(1, Mixed)
          /\ \A i \in 2 .. JobBytes + 1 : JobMessage(Fresh)[i] = Byte(2, Fresh)
      BY FreshFacts, JobMessageFacts
    <3>3. down' = JobMessage(Fresh)
      BY <2>1, <2>3, <2>5, <3>2, ConcatEmptySeq
    <3>4. ASSUME NEW i \in 1 .. Len(down'), down'[i].cmd = 2 PROVE down'[i].job = written'
      <4>1. i # 1
        BY <3>2, <3>3, <3>4 DEF Byte
      <4>2. i \in 2 .. JobBytes + 1
        BY <3>2, <3>3, <4>1, FpgaAssumption
      <4> QED
        BY <2>1, <3>2, <3>3, <4>2 DEF Byte
    <3> QED
      BY <2>1, <2>3, <2>4, <3>1, <3>2, <3>3, <3>4 DEF SureInv
  <2>6. CASE ~alive
    BY <2>1, <2>4, <2>6 DEF SureInv
  <2> QED
    BY <2>5, <2>6
<1>3. CASE WriteInjected \/ StoreInjected
  <2>1. ~Sure'
    BY <1>3 DEF WriteInjected, StoreInjected, Sure, ThreadInv, TypeInv
  <2> QED
    BY <2>1 DEF SureInv
<1>4. CASE Accepted
  <2>1. /\ Working /\ miner.pc = "ack" /\ miner'.pc = "poll" /\ up # <<>> /\ Head(up).is = "ack"
        /\ Sure' = Sure /\ up' = Tail(up) /\ UNCHANGED <<tx, alive, down>>
    BY <1>4 DEF Accepted, ThreadInv, Sure, TypeInv
  <2>2. Line \in Seq(UpMessage) /\ Line # <<>> /\ Head(Line) = Head(up) /\ Line' = Tail(Line)
    BY <2>1, LineSeq, LineTail
  <2>3. HasAck(Line)
    BY <2>1, <2>2, AckTail
  <2>4. OneAck(Line) => ~HasAck(Tail(Line))
    BY <2>1, <2>2, OneAckTail
  <2> QED
    BY <2>1, <2>2, <2>3, <2>4 DEF SureInv
<1>5. CASE OtherBeforeAck
  <2>1. /\ Working /\ miner.pc = "ack" /\ miner'.pc \in {"ack", "dead"}
        /\ up # <<>> /\ Head(up).is # "ack"
        /\ Sure' = Sure /\ up' = Tail(up) /\ UNCHANGED <<tx, alive, down, loading, written>>
    BY <1>5 DEF OtherBeforeAck, ThreadInv, Sure, TypeInv, Die, Dies
  <2>2. Line \in Seq(UpMessage) /\ Line # <<>> /\ Head(Line) = Head(up) /\ Line' = Tail(Line)
    BY <2>1, LineSeq, LineTail
  <2>3. HasAck(Tail(Line)) <=> HasAck(Line)
    BY <2>1, <2>2, AckTail
  <2>4. OneAck(Line) => OneAck(Tail(Line))
    BY <2>2, OneAckTail
  <2> QED
    BY <2>1, <2>2, <2>3, <2>4 DEF SureInv
<1>6. CASE PollNonce \/ PollOther
  <2>1. /\ Working /\ miner.pc = "poll" /\ miner'.pc # "ack" /\ up # <<>>
        /\ Sure' = Sure /\ up' = Tail(up) /\ UNCHANGED <<tx, alive, down>>
    BY <1>6 DEF PollNonce, PollOther, ThreadInv, Sure, TypeInv, Die, Dies, Done
  <2>2. Line \in Seq(UpMessage) /\ Line # <<>> /\ Line' = Tail(Line)
    BY <2>1, LineSeq, LineTail
  <2>3. HasAck(Tail(Line)) => HasAck(Line)
    BY <2>2, AckTail
  <2> QED
    BY <2>1, <2>2, <2>3 DEF SureInv
<1>7. CASE JobTimeout
  <2>1. Working /\ miner.pc = "poll" /\ miner'.pc = "idle" /\ Sure' = Sure /\ UNCHANGED <<up, tx, alive, down>>
    BY <1>7 DEF JobTimeout, ThreadInv, Sure, TypeInv, Done
  <2> QED
    BY <2>1, LineSame DEF SureInv
<1>8. CASE Ping \/ NoResponse \/ AckTimeout \/ Exit \/ Interrupt \/ Raise
  <2>1. ~Working' \/ miner'.pc = "dead"
    BY <1>8 DEF Working, Ping, NoResponse, AckTimeout, Exit, Interrupt, Raise, StartRaises, MineRaises,
                Die, Dies, TypeInv
  <2> QED
    BY <2>1 DEF SureInv
<1>9. CASE InjectRaises
  <2>1. Working' = Working /\ Sure' = Sure /\ UNCHANGED <<miner, up, tx, down, alive, loading, written>>
    BY <1>9 DEF InjectRaises, Working, Sure
  <2> QED
    BY <2>1, LineSame DEF SureInv
<1> QED
  BY <1>1, <1>2, <1>3, <1>4, <1>5, <1>6, <1>7, <1>8, <1>9 DEF Host, Read, Inject

LEMMA SureFpga ==
  ASSUME TypeInv, ThreadInv, FrameInv, SureInv, Fpga \/ Hit \/ NoncesExhausted \/ FallSilent \/ Unplug
  PROVE  SureInv'
<1> USE DEF host, control, jobs
<1>1. /\ Working' = Working /\ miner' = miner /\ written' = written /\ (Sure' => Sure)
      /\ \/ ~alive'
         \/ alive' = alive
  BY DEF Fpga, LoadByte, Command, Transmit, Hit, NoncesExhausted, FallSilent, Unplug, Working, Sure,
         TypeInv
<1>2. SUFFICES ASSUME Working, Sure' PROVE SureInv'
  BY <1>1 DEF SureInv
<1>3. JobBytes \in Nat /\ JobBytes > 0 /\ loading \in Nat
  BY FpgaAssumption DEF TypeInv
<1>4. down # <<>> => /\ Tail(down) \in Seq(DownByte) /\ Head(down) = down[1]
                     /\ Len(down) \in Nat /\ Len(down) > 0 /\ Len(Tail(down)) = Len(down) - 1
                     /\ \A i \in 1 .. Len(down) - 1 : Tail(down)[i] = down[i + 1]
  BY TailFacts DEF TypeInv
<1>5. ASSUME down # <<>>, down' = Tail(down),
             \A i \in 1 .. Len(down) : down[i].cmd = 2 => down[i].job = written
      PROVE  \A i \in 1 .. Len(down') : down'[i].cmd = 2 => down'[i].job = written'
  BY <1>1, <1>4, <1>5
<1>6. CASE LoadByte
  <2>1. alive /\ alive' /\ down # <<>> /\ loading > 0 /\ down' = Tail(down) /\ loading' = loading - 1
    BY <1>6 DEF LoadByte
  <2>2. CASE miner.pc # "ack"
    BY <1>1, <1>2, <2>1, <2>2 DEF SureInv
  <2>3. CASE miner.pc = "ack"
    <3>1. /\ ~HasAck(Line) /\ OneAck(Line) /\ Len(down) = loading
          /\ \A i \in 1 .. Len(down) : down[i].cmd = 2 => down[i].job = written
      BY <1>1, <1>2, <2>1, <2>3 DEF SureInv
    <3>2. Len(down') = loading' /\ loading' \in Nat
      BY <1>3, <1>4, <2>1, <3>1
    <3>3. CASE loading = 1
      <4>1. tx = Nothing /\ up' = up /\ tx' = Message("ack", load')
        BY <1>2, <1>6, <3>3 DEF LoadByte, Send, Sure
      <4>2. load' \in Label
        BY <1>6, TypeFpga DEF Fpga, TypeInv
      <4>3. Message("ack", load') \in UpMessage
        BY <4>2 DEF Message, UpMessage
      <4>4. Line \in Seq(UpMessage) /\ Line' = Append(Line, Message("ack", load'))
        BY <4>1, <4>3, LineSeq, LineSend
      <4>5. OneAck(Line')
        BY <3>1, <4>3, <4>4, OneAckAppend
      <4>6. down' = <<>>
        BY <1>4, <2>1, <3>2, <3>3, EmptySeq
      <4> QED
        BY <1>1, <1>5, <2>1, <2>3, <3>1, <3>2, <4>5, <4>6 DEF SureInv
    <3>4. CASE loading # 1
      <4>1. Line' = Line
        BY <1>6, <3>4, LineSame DEF LoadByte
      <4> QED
        BY <1>1, <1>3, <1>5, <2>1, <2>3, <3>1, <3>2, <3>4, <4>1 DEF SureInv
    <3> QED
      BY <3>3, <3>4
  <2> QED
    BY <2>2, <2>3
<1>7. CASE Command
  <2>1. alive /\ alive' /\ down # <<>> /\ loading = 0 /\ down' = Tail(down) /\ up' = up
    BY <1>7 DEF Command
  <2>2. CASE miner.pc # "ack"
    BY <1>1, <1>2, <2>1, <2>2 DEF SureInv
  <2>3. CASE miner.pc = "ack"
    <3>1. /\ ~HasAck(Line) /\ OneAck(Line) /\ Len(down) \in {0, JobBytes + 1}
          /\ \A i \in 1 .. Len(down) : down[i].cmd = 2 => down[i].job = written
      BY <1>1, <1>2, <2>1, <2>3 DEF SureInv
    <3>2. Head(down).cmd = 1
      BY <1>1, <1>2, <2>1, FramedTail DEF FrameInv, TypeInv
    <3>3. loading' = JobBytes /\ Line' = Line
      BY <1>7, <2>1, <3>2, LineSame DEF Command
    <3>4. Len(down') = loading' /\ loading' > 0
      BY <1>3, <1>4, <2>1, <3>1, <3>3
    <3> QED
      BY <1>1, <1>5, <2>1, <2>3, <3>1, <3>3, <3>4 DEF SureInv
  <2> QED
    BY <2>2, <2>3
<1>8. CASE Transmit
  <2>1. Line' = Line /\ UNCHANGED <<down, loading, alive>>
    BY <1>8, LineTransmit DEF Transmit
  <2> QED
    BY <1>1, <2>1 DEF SureInv
<1>9. CASE Hit \/ NoncesExhausted
  <2>1. PICK m \in UpMessage : m.is # "ack" /\ tx' = m
    <3>1. Message("nonce", mining) \in UpMessage /\ Message("nonce", mining).is # "ack"
          /\ Message("exhausted", 0) \in UpMessage /\ Message("exhausted", 0).is # "ack"
      BY FpgaAssumption DEF TypeInv, Message, UpMessage, Label, Job
    <3> QED
      BY <1>9, <3>1 DEF Hit, NoncesExhausted
  <2>2. tx = Nothing /\ up' = up /\ UNCHANGED <<down, loading, alive>>
    BY <1>9 DEF Hit, NoncesExhausted
  <2>3. Line \in Seq(UpMessage) /\ Line' = Append(Line, m)
    BY <2>1, <2>2, LineSeq, LineSend
  <2>4. (HasAck(Line') <=> HasAck(Line)) /\ (OneAck(Line) => OneAck(Line'))
    BY <2>1, <2>3, AckAppend, OneAckAppend
  <2> QED
    BY <1>1, <2>2, <2>4 DEF SureInv
<1>10. CASE FallSilent
  <2>1. ~alive' /\ Line' = up
    BY <1>10 DEF FallSilent, Line
  <2>2. (HasAck(up) => HasAck(Line)) /\ (OneAck(Line) => OneAck(up))
    BY AckAppend, OneAckAppend DEF TypeInv, Line
  <2> QED
    BY <1>1, <2>1, <2>2 DEF SureInv
<1>11. CASE Unplug
  <2>1. ~alive' /\ Line' = <<>> /\ Len(<<>>) = 0
    BY <1>11, EmptySeq DEF Unplug, Line
  <2>2. ~HasAck(Line') /\ OneAck(Line')
    BY <2>1 DEF HasAck, OneAck
  <2> QED
    BY <2>1, <2>2 DEF SureInv
<1> QED
  BY <1>6, <1>7, <1>8, <1>9, <1>10, <1>11 DEF Fpga

LEMMA SureStep ==
  ASSUME TypeInv, ThreadInv, PingInv, FrameInv, SureInv, [Next]_vars
  PROVE  SureInv'
<1>1. CASE UNCHANGED vars
  BY <1>1, LineSame DEF vars, host, control, jobs, fpga, SureInv, Working, Sure
<1> QED
  BY <1>1, SureHost, SureFpga DEF Next

(* The job it waits for is on its way, or its acknowledgement is.          *)
LEMMA AckStep ==
  ASSUME TypeInv, ThreadInv, FrameInv, AckComes, [Next]_vars
  PROVE  AckComes'
<1>1. CASE WriteJob
  <2>1. down' # <<>>
    <3>1. JobMessage(Fresh) \in Seq(DownByte) /\ JobMessage(Fresh) # <<>>
      BY FreshFacts, JobMessageFacts, EmptySeq, FpgaAssumption
    <3> QED
      BY <1>1, <3>1, ConcatEqualIffEmpty DEF WriteJob, TypeInv
  <2> QED
    BY <2>1 DEF AckComes
<1>2. CASE OtherBeforeAck
  <2>1. /\ miner.pc = "ack" /\ up # <<>> /\ Head(up).is # "ack" /\ up' = Tail(up)
        /\ UNCHANGED <<tx, alive, down, ackLost>>
    BY <1>2 DEF OtherBeforeAck, fpga
  <2>2. HasAck(Line') <=> HasAck(Line)
    BY <2>1, LineSeq, LineTail, AckTail
  <2> QED
    BY <2>1, <2>2 DEF AckComes
<1>3. CASE LoadByte
  <2> SUFFICES ASSUME miner.pc = "ack", ~ackLost' PROVE down' # <<>> \/ HasAck(Line')
    BY <1>3 DEF AckComes, LoadByte, host, control, jobs
  <2>1. Working /\ alive /\ loading <= Len(down) /\ down' = Tail(down) /\ up' = up /\ Len(Tail(down)) = Len(down) - 1
    BY <1>3, TailFacts DEF LoadByte, ThreadInv, FrameInv, Framed, TypeInv
  <2>2. CASE loading = 1
    <3>1. load' \in Label
      BY <1>3, TypeFpga DEF Fpga, TypeInv
    <3>2. Message("ack", load') \in UpMessage /\ Message("ack", load').is = "ack"
      BY <3>1 DEF Message, UpMessage
    <3>3. tx = Nothing /\ tx' = Message("ack", load')
      BY <1>3, <2>2 DEF LoadByte, Send
    <3> QED
      BY <2>1, <3>2, <3>3, LineSeq, LineSend, AckAppend
  <2>3. CASE loading # 1
    <3>1. Len(down') > 0
      BY <1>3, <2>1, <2>3, LenProperties, FpgaAssumption DEF LoadByte, TypeInv
    <3> QED
      BY <3>1, EmptySeq
  <2> QED
    BY <2>2, <2>3
<1>4. CASE Command
  <2>1. miner.pc = "ack" => down' # <<>>
    <3> SUFFICES ASSUME miner.pc = "ack" PROVE down' # <<>>
      OBVIOUS
    <3>1. Working /\ alive /\ loading = 0 /\ down # <<>> /\ down' = Tail(down)
      BY <1>4 DEF Command, ThreadInv
    <3>2. Framed(down', JobBytes, written)
      BY <3>1, FramedTail DEF FrameInv, TypeInv
    <3> QED
      BY <3>2, EmptySeq, FpgaAssumption DEF Framed
  <2> QED
    BY <1>4, <2>1 DEF Command, AckComes, host, control, jobs
<1>5. CASE Hit \/ NoncesExhausted
  <2>1. tx = Nothing /\ up' = up /\ UNCHANGED <<down, alive, miner, ackLost>>
    BY <1>5 DEF Hit, NoncesExhausted, host, control, jobs
  <2>2. tx' \in UpMessage
    BY <1>5, FpgaAssumption DEF Hit, NoncesExhausted, TypeInv, Message, UpMessage, Label, Job
  <2>3. HasAck(Line) => HasAck(Line')
    BY <2>1, <2>2, LineSeq, LineSend, AckAppend
  <2> QED
    BY <2>1, <2>3 DEF AckComes
<1>6. CASE Transmit
  BY <1>6, LineTransmit DEF Transmit, AckComes, host, control, jobs
<1>7. CASE FallSilent \/ Unplug
  BY <1>7 DEF FallSilent, Unplug, AckComes
<1>8. CASE Ping \/ NoResponse \/ Response \/ AckTimeout \/ Accepted \/ PollNonce \/ PollOther \/ Exit
           \/ Interrupt \/ JobTimeout \/ Inject \/ Raise
  <2>1. miner'.pc # "ack"
    BY <1>8 DEF Ping, NoResponse, Response, AckTimeout, Accepted, PollNonce, PollOther, Exit, Interrupt,
                JobTimeout, Inject, WriteInjected, StoreInjected, InjectRaises, Raise, StartRaises,
                MineRaises, Done, Die, Dies, ThreadInv, TypeInv, Working, control
  <2> QED
    BY <2>1 DEF AckComes
<1>9. CASE UNCHANGED vars
  BY <1>9, LineSame DEF vars, host, control, jobs, fpga, AckComes
<1> QED
  BY <1>1, <1>2, <1>3, <1>4, <1>5, <1>6, <1>7, <1>8, <1>9 DEF Next, Host, Read, Fpga

-----------------------------------------------------------------------------
(* What the host does with what it reads.                                  *)

Safe == TypeInv /\ ThreadInv /\ PingInv /\ FrameInv /\ LineInv /\ SureInv /\ AckComes

LEMMA SafeInit == Init => Safe
<1> SUFFICES ASSUME Init PROVE Safe
  OBVIOUS
<1>1. TypeInv /\ ThreadInv /\ PingInv
  BY InitInv
<1>2. FrameInv /\ LineInv /\ SureInv /\ AckComes
  BY DEF Init, FrameInv, LineInv, SureInv, AckComes, Working
<1> QED
  BY <1>1, <1>2 DEF Safe

LEMMA SafeNext == Safe /\ [Next]_vars => Safe'
  BY TypeStep, ThreadStep, PingStep, FrameStep, LineStep, SureStep, AckStep DEF Safe

LEMMA SafeAlways == Spec => []Safe
  BY SafeInit, SafeNext, PTL DEF Spec

(* All that the two sides keep and send has its type.                      *)
THEOREM LinkTypeCorrect == Spec => []TypeOK
<1>1. TypeInv => TypeOK
  <2> SUFFICES ASSUME TypeInv PROVE TypeOK
    OBVIOUS
  <2> DEFINE Up == [is : {"nothing", "zero", "ack", "nonce", "exhausted"}, job : Label]
  <2>1. UpMessage \subseteq Up \ {Nothing} /\ Nothing \in Up
    BY FpgaAssumption DEF UpMessage, Nothing, Label, Job
  <2>2. up \in Seq(Up \ {Nothing}) /\ tx \in Up
    <3>1. up \in Seq(Up \ {Nothing})
      BY <2>1, SeqMonotonic DEF TypeInv
    <3> QED
      BY <2>1, <3>1 DEF TypeInv
  <2> QED
    BY <2>2 DEF TypeInv, TypeOK, Label, Job, DownByte
<1> QED
  BY <1>1, SafeAlways, PTL DEF Safe

(* A nonce is credited to the job acknowledged last, self.job.             *)
LEMMA Submission ==
  ASSUME Safe, Next, credit' # credit
  PROVE  /\ \E m \in UpMessage : /\ credit' = [of |-> m.job, to |-> job, amid |-> injecting]
                                /\ m.job \in Before
         /\ job >= 1 /\ (injecting => written <= job + 1)
<1>1. /\ up # <<>> /\ up' = Tail(up) /\ Head(up).is # "ack" /\ miner.pc \in {"ack", "poll"}
      /\ UNCHANGED <<tx, alive, mining, written, job, injecting, injections, ackLost>>
      /\ credit' = [of |-> Head(up).job, to |-> job, amid |-> injecting] /\ job > Check
      /\ Head(up).is \notin {"exhausted", "zero"}
  <2>1. OtherBeforeAck \/ PollNonce
    BY DEF Next, Host, Read, Raise, StartRaises, MineRaises, Fpga, Ping, NoResponse, Response, WriteJob,
           AckTimeout, Accepted, PollOther, Exit, Interrupt, JobTimeout, Inject, WriteInjected,
           StoreInjected, InjectRaises, LoadByte, Command, Transmit, Hit, NoncesExhausted, FallSilent,
           Unplug, host, control, jobs
  <2>2. CASE OtherBeforeAck
    BY <2>2 DEF OtherBeforeAck, Submit, Die, fpga, control
  <2>3. CASE PollNonce
    BY <2>3 DEF PollNonce, Submit, Done, Die, fpga, control
  <2> QED
    BY <2>1, <2>2, <2>3
<1>2. Head(up) \in UpMessage
  BY <1>1, TailFacts DEF Safe, TypeInv
<1>3. Head(up).is = "nonce"
  BY <1>1, <1>2 DEF UpMessage
<1>4. Working /\ miner.pc # "dead"
  BY <1>1 DEF Safe, ThreadInv
<1>5. Head(up).job \in Before
  BY <1>1, <1>3, <1>4, ReadOther DEF Safe
<1>6. job >= 1 /\ (injecting => written <= job + 1)
  BY <1>1, <1>4 DEF Check, Safe, TypeInv, Job, ThreadInv
<1> QED
  BY <1>1, <1>2, <1>5, <1>6

LEMMA HistoryStep ==
  ASSUME TypeInv, [Next]_vars
  PROVE  (injections' = 0 => injections = 0) /\ (~ackLost' => ~ackLost)
<1>1. injections' \in {injections, injections + 1}
  BY DEF Next, Host, Read, Raise, StartRaises, MineRaises, Fpga, Ping, NoResponse, Response, WriteJob,
         AckTimeout, Accepted, OtherBeforeAck, PollNonce, PollOther, Exit, Interrupt, JobTimeout, Inject,
         WriteInjected, StoreInjected, InjectRaises, LoadByte, Command, Transmit, Hit, NoncesExhausted,
         FallSilent, Unplug, host, control, jobs, vars
<1>2. ackLost => ackLost'
  BY DEF Next, Host, Read, Raise, StartRaises, MineRaises, Fpga, Ping, NoResponse, Response, WriteJob,
         AckTimeout, Accepted, OtherBeforeAck, PollNonce, PollOther, Exit, Interrupt, JobTimeout, Inject,
         WriteInjected, StoreInjected, InjectRaises, LoadByte, Command, Transmit, Hit, NoncesExhausted,
         FallSilent, Unplug, fpga, vars
<1> QED
  BY <1>1, <1>2 DEF TypeInv

(* With no injection and no acknowledgement dropped, every nonce is        *)
(* submitted with the job it was found for, though it can be read before   *)
(* or after the next job is written (miner.py, Miner.mine): for every size *)
(* of a job, number of jobs and nonces, and state the FPGA was left in.    *)
THEOREM NoncesCreditedRight == Spec => []CreditRight
<1>1. Init => CreditRight
  BY DEF Init, CreditRight
<1>2. Safe /\ CreditRight /\ [Next]_vars => CreditRight'
  <2> SUFFICES ASSUME Safe, CreditRight, [Next]_vars, injections' = 0, ~ackLost'
               PROVE  credit'.of = credit'.to
    BY DEF CreditRight
  <2>1. Sure
    BY HistoryStep DEF Sure, Safe
  <2>2. CASE credit' = credit
    BY <2>1, <2>2 DEF CreditRight, Sure
  <2>3. CASE credit' # credit
    <3>1. Next
      BY <2>3 DEF vars, host, control, jobs
    <3> QED
      BY <2>1, <2>3, <3>1, Submission DEF Before
  <2> QED
    BY <2>2, <2>3
<1> QED
  BY <1>1, <1>2, SafeAlways, PTL DEF Spec

(* With injections a nonce still goes to a job no older than its own, if   *)
(* no acknowledgement is dropped: or, read while the long-poll thread is   *)
(* between its write and its store of self.job (miner.py:429 and 431), to  *)
(* the job just before.                                                    *)
THEOREM NoncesOlderOnlyAmidInjection == Spec => []OlderOnlyAmidInjection
<1>1. Init => OlderOnlyAmidInjection
  BY DEF Init, OlderOnlyAmidInjection
<1>2. Safe /\ OlderOnlyAmidInjection /\ [Next]_vars => OlderOnlyAmidInjection'
  <2> SUFFICES ASSUME Safe, OlderOnlyAmidInjection, [Next]_vars, ~ackLost'
               PROVE  credit'.to >= credit'.of - (IF credit'.amid THEN 1 ELSE 0)
    BY DEF OlderOnlyAmidInjection
  <2>1. ~ackLost
    BY HistoryStep DEF Safe
  <2>2. CASE credit' = credit
    BY <2>1, <2>2 DEF OlderOnlyAmidInjection
  <2>3. CASE credit' # credit
    <3>1. Next
      BY <2>3 DEF vars, host, jobs
    <3>2. PICK m \in UpMessage : /\ credit' = [of |-> m.job, to |-> job, amid |-> injecting]
                                 /\ m.job \in Before
      BY <2>3, <3>1, Submission
    <3>3. m.job <= Current /\ (injecting => written <= job + 1)
      BY <2>1, <2>3, <3>1, <3>2, Submission DEF Before
    <3>4. m.job \in Int /\ job \in Int /\ written \in Int
      BY <3>2 DEF Before, Safe, TypeInv, Label, Job, Mixed
    <3>5. credit'.to = job /\ credit'.of = m.job /\ credit'.amid = injecting
      BY <3>2
    <3> QED
      BY <3>3, <3>4, <3>5 DEF Current
  <2> QED
    BY <2>2, <2>3
<1> QED
  BY <1>1, <1>2, SafeAlways, PTL DEF Spec

(* However many bytes of a job the FPGA lacked when the program started,   *)
(* the zeros flush them: no job acknowledged afterwards is of two.         *)
THEOREM AcknowledgedJobsWhole == Spec => []JobsWhole
<1>1. Safe => JobsWhole
  <2> SUFFICES ASSUME Safe, Working, NEW i \in 1 .. Len(up)
               PROVE  up[i] # Message("ack", Mixed)
    BY DEF JobsWhole, Working
  <2>1. Clean(Line)
    BY DEF Safe, LineInv
  <2>2. Clean(up)
    BY <2>1, CleanAppend DEF Line, Safe, TypeInv
  <2> QED
    BY <2>2 DEF Clean, Good
<1> QED
  BY <1>1, SafeAlways, PTL

(* The program refuses an FPGA that is there only for a nonce of another   *)
(* session in the self-test (5) or for want of an acknowledgement that     *)
(* was dropped (2): the tests of no answer (1), of zeros (3, 4) and of     *)
(* the wrong nonce (6) never fail one that works (miner.py, Miner.run,     *)
(* Miner.mine).                                                            *)
THEOREM WorkingFpgaPasses == Spec => []GoodFpgaPasses
<1>1. Init => GoodFpgaPasses
  BY DEF Init, GoodFpgaPasses
<1>2. Safe /\ GoodFpgaPasses /\ [Next]_vars => GoodFpgaPasses'
  <2> SUFFICES ASSUME Safe, GoodFpgaPasses, [Next]_vars, alive'
               PROVE  rc' \in {0, 5} \/ (rc' = 2 /\ ackLost')
    BY DEF GoodFpgaPasses
  <2>1. alive /\ (ackLost => ackLost')
    <3>1. alive
      BY DEF Next, Host, Read, Raise, StartRaises, MineRaises, Fpga, Ping, NoResponse, Response,
             WriteJob, AckTimeout, Accepted, OtherBeforeAck, PollNonce, PollOther, Exit, Interrupt,
             JobTimeout, Inject, WriteInjected, StoreInjected, InjectRaises, LoadByte, Command, Transmit,
             Hit, NoncesExhausted, FallSilent, Unplug, vars, fpga
    <3> QED
      BY <3>1, HistoryStep DEF Safe
  <2>2. CASE rc' = rc
    BY <2>1, <2>2 DEF GoodFpgaPasses
  <2>3. CASE rc' # rc
    <3>1. NoResponse \/ AckTimeout \/ OtherBeforeAck \/ PollNonce \/ PollOther
      BY <2>3 DEF Next, Host, Read, Raise, StartRaises, MineRaises, Fpga, Ping, Response, WriteJob,
                  Accepted, Exit, Interrupt, JobTimeout, Inject, WriteInjected, StoreInjected,
                  InjectRaises, Done, LoadByte, Command, Transmit, Hit, NoncesExhausted, FallSilent,
                  Unplug, vars, host, control, jobs
    <3>2. ~NoResponse
      BY <2>1 DEF NoResponse, Quiet, Safe, PingInv
    <3>3. ASSUME AckTimeout PROVE rc' = 2 /\ ackLost'
      <4>1. rc' = 2 /\ miner.pc = "ack" /\ up = <<>> /\ down = <<>> /\ tx = Nothing
        BY <2>1, <3>3 DEF AckTimeout, Die, Dies, Quiet
      <4>2. ~HasAck(Line)
        BY <4>1, EmptySeq DEF Line, HasAck
      <4> QED
        BY <2>1, <4>1, <4>2 DEF Safe, AckComes
    <3>4. ASSUME OtherBeforeAck \/ PollNonce \/ (PollOther /\ Head(up).is # "ack")
          PROVE  /\ Good(Head(up)) /\ (Head(up).is = "nonce" => Head(up).job \in Before)
                 /\ Head(up) \in UpMessage
      <4>1. /\ up # <<>> /\ up' = Tail(up) /\ Head(up).is # "ack" /\ miner.pc \in {"ack", "poll"}
            /\ UNCHANGED <<tx, alive, mining, written, job, injecting, injections, ackLost>>
        <5>1. CASE OtherBeforeAck
          BY <5>1 DEF OtherBeforeAck, Die, fpga, control
        <5>2. CASE PollNonce
          BY <5>2 DEF PollNonce, Done, Die, fpga, control
        <5>3. CASE PollOther /\ Head(up).is # "ack"
          BY <5>3 DEF PollOther, Done, Die, fpga, jobs, control
        <5> QED
          BY <3>4, <5>1, <5>2, <5>3
      <4>2. Working /\ miner.pc # "dead"
        BY <4>1 DEF Safe, ThreadInv
      <4>3. Head(up) \in UpMessage
        BY <4>1, TailFacts DEF Safe, TypeInv
      <4> QED
        BY <4>1, <4>2, <4>3, ReadOther DEF Safe
    <3>5. ASSUME OtherBeforeAck PROVE rc' = 5
      BY <2>3, <3>4, <3>5 DEF OtherBeforeAck, Good, Die, control
    <3>6. ~PollNonce
      <4> SUFFICES ASSUME PollNonce PROVE FALSE
        OBVIOUS
      <4>1. job = Check /\ Head(up).job # Check /\ miner.pc = "poll" /\ Head(up).is = "nonce"
        BY <2>3 DEF PollNonce, Done, control
      <4>2. written = job \/ MaxJobs = 1
        BY <4>1 DEF Safe, ThreadInv, Current, Check, TypeInv, Job
      <4>3. Head(up).job \in Before
        BY <3>4, <4>1
      <4>4. Head(up).job <= 1 /\ Head(up).job >= 1 /\ Head(up).job \in Int
        BY <4>1, <4>2, <4>3 DEF Before, Check, Label, Job, Mixed
      <4> QED
        BY <4>1, <4>4 DEF Check
    <3>7. ~PollOther
      <4> SUFFICES ASSUME PollOther PROVE FALSE
        OBVIOUS
      <4>1. Head(up).is \notin {"ack", "exhausted", "nonce"}
        BY <2>3 DEF PollOther, Done, control
      <4> QED
        BY <3>4, <4>1 DEF Good, UpMessage
    <3> QED
      BY <3>1, <3>2, <3>3, <3>5, <3>6, <3>7
  <2> QED
    BY <2>2, <2>3
<1> QED
  BY <1>1, <1>2, SafeAlways, PTL DEF Spec

-----------------------------------------------------------------------------
(* How long the FPGA is left with a job (VhdlJobInterval).                 *)

LEMMA KeyspaceType == ASSUME NEW t \in Nat PROVE Keyspace(t) \in Nat
  BY SMT DEF Keyspace

(* The poll loop of a job begins no read after its deadline (miner.py:453) *)
(* and a read without a nonce takes no longer than a poll interval.  So,   *)
(* counted from the acknowledgement, the loop is left before the FPGA has  *)
(* been through all nonces, unless they take it less than 0.6 s.  It says  *)
(* nothing of when the next job comes: with an empty queue the FPGA keeps  *)
(* the one it has (420-423).                                               *)
THEOREM PollingEndsBeforeExhaustion ==
  ASSUME NEW config \in Nat, NEW pollconfig \in Nat, NEW selftest \in Nat, Keyspace(selftest) >= 600
  PROVE  JobInterval(config, selftest) + PollInterval(pollconfig, JobInterval(config, selftest))
             <= Keyspace(selftest)
<1> DEFINE k == Keyspace(selftest)
           n == Taken(selftest)
           f == (4 * n) \div 5
           i == JobInterval(config, selftest)
<1>1. k \in Nat /\ k >= 600
  BY KeyspaceType
<1>2. n \in Nat /\ n <= k
  BY <1>1, SMT DEF Taken, Smaller
<1>3. f \in Nat /\ 5 * f <= 4 * n
  BY <1>2, SMT
<1>4. i = Smaller(config, Larger(500, f - 1000))
  BY DEF JobInterval
<1> HIDE DEF k, n, f
<1>5. i \in Nat /\ (i <= 500 \/ i <= f - 1000)
  BY <1>3, <1>4, SMT DEF Smaller, Larger
<1> HIDE DEF i
<1>6. PollInterval(pollconfig, i) \in Nat /\ 5 * PollInterval(pollconfig, i) <= i
  BY <1>5, SMT DEF PollInterval, Smaller
<1>7. i + PollInterval(pollconfig, i) <= k
  BY <1>1, <1>2, <1>3, <1>5, <1>6, SMT
<1> QED
  BY <1>7 DEF i, k

(* However slow the FPGA and whatever is configured, the interval of a job *)
(* is no more than 47 seconds: that long a job of the queue waits for the  *)
(* one before it.                                                          *)
THEOREM IntervalBounded ==
  ASSUME NEW config \in Nat, NEW selftest \in Nat
  PROVE  JobInterval(config, selftest) <= 47000
<1> DEFINE n == Taken(selftest)
           f == (4 * n) \div 5
<1>1. n \in Nat /\ n <= 60000
  BY KeyspaceType, SMT DEF Taken, Smaller
<1>2. f \in Nat /\ f <= 48000
  BY <1>1, SMT
<1>3. JobInterval(config, selftest) = Smaller(config, Larger(500, f - 1000))
  BY DEF JobInterval
<1> HIDE DEF n, f
<1>4. Smaller(config, Larger(500, f - 1000)) <= 47000
  BY <1>2, SMT DEF Smaller, Larger
<1> QED
  BY <1>3, <1>4

(* Whatever is configured, five reads without a nonce fit in a job's       *)
(* interval, so its deadline is overrun by no more than a fifth of it.     *)
THEOREM PolledFiveTimes ==
  ASSUME NEW config \in Nat, NEW interval \in Nat
  PROVE  5 * PollInterval(config, interval) <= interval
  BY SMT DEF PollInterval, Smaller
=============================================================================
