---------------------------- MODULE Coexistence ----------------------------
(***************************************************************************)
(* The shared unlicensed channel of coexistanceSimpy/Coexistence.py: Wi-Fi *)
(* DCF stations (class Station) and NR-U LBT Cat-4 gNBs (class Gnb)       *)
(* contending through the Channel's tx_lock (a SimPy Resource) and        *)
(* tx_queue (a SimPy PreemptiveResource), driven by the SimPy kernel.     *)
(*                                                                         *)
(* Kernel.  `now` is the simulated time.  A process suspended on a        *)
(* timeout is resumed when now = wake[n]; a process suspended on a        *)
(* resource is resumed when the resource has been granted to it.  Steps   *)
(* that happen at the same instant are interleaved in any order, except   *)
(* that SimPy Interrupts are URGENT events: while intrQ is not empty, the *)
(* only step is the delivery of its head.  Tick advances time to the next *)
(* pending timeout once no zero-delay step is left; environment.run(until)*)
(* never processes events at or after HORIZON.                             *)
(*                                                                         *)
(* tx_list and tx_list_NR are kept as sequences: check_collision reads    *)
(* only their total length, Channel.calculate_sinr reads who is on them.  *)
(* Frames are identified by their owner.                                   *)
(***************************************************************************)
EXTENDS Integers, Sequences, SequencesExt, FiniteSets

CONSTANTS
    N_STATIONS, N_GNBS,     \* number_of_stations, number_of_gnb
    GAP,                    \* module global `gap`: gap mode or RS mode
    T_SLOT, DIFS,           \* Times.t_slot, Times.t_difs
    ACK_TIME, ACK_TIMEOUT,  \* get_ack_frame_time(), ack_timeout
    FRAME_TIME,             \* generate_new_frame: frame_length (5400)
    R_LIMIT,                \* Config.r_limit
    WIFI_CW_MIN, WIFI_CW_MAX,
    DETER_PERIOD, OBS_SLOT, M_SLOTS,   \* Config_NR deter_period, obs slot, M
    SYNC_SLOT, MIN_DESYNC, MAX_DESYNC, \* Config_NR sync slot and desync range
    NR_CW_MIN, NR_CW_MAX,
    MCOT_TIME,              \* config_nr.mcot * 1000
    HIST_MAX,               \* largest key of the channel.backoffs histogram
    HORIZON                 \* simulation_time * 1000000

ASSUME /\ N_STATIONS \in Nat /\ N_GNBS \in Nat /\ GAP \in BOOLEAN
       /\ {T_SLOT, OBS_SLOT, SYNC_SLOT, FRAME_TIME, MCOT_TIME} \subseteq Nat \ {0}
       /\ {DIFS, ACK_TIME, ACK_TIMEOUT, DETER_PERIOD, M_SLOTS} \subseteq Nat
       /\ 0 <= MIN_DESYNC /\ MIN_DESYNC <= MAX_DESYNC
       /\ 0 <= WIFI_CW_MIN /\ WIFI_CW_MIN <= WIFI_CW_MAX
       /\ 0 <= NR_CW_MIN /\ NR_CW_MIN <= NR_CW_MAX

Stations == 1 .. N_STATIONS
Gnbs     == N_STATIONS + 1 .. N_STATIONS + N_GNBS
Nodes    == Stations \cup Gnbs     \* ids in creation order (run_simulation)
NoNode   == 0

\* Gnb.sent_failed compares with the literal 7, not with config.r_limit.
NR_R_LIMIT == 7

\* prioritization_period_time = deter_period + M * observation_slot_duration
PP == DETER_PERIOD + M_SLOTS * OBS_SLOT

\* Frame length a node requests tx_queue with: priority = big_num - length,
\* so the longer frame is the more urgent request.
FrameLen(n) == IF n \in Stations THEN FRAME_TIME ELSE MCOT_TIME

VARIABLES
    now,        \* environment.now
    pc,         \* where each node's running process is suspended
    wake,       \* expiry of the timeout a node is suspended on
    bo,         \* back_off_time
    firstInt,   \* first_interrupt
    boStart,    \* Station.start / Gnb.start_nr
    waitingBo,  \* Gnb.waiting_backoff
    rsStart,    \* module global `start` shared by all Gnb.wait_back_off
    fir,        \* failed_transmissions_in_row
    retries,    \* number_of_retransmissions of the frame / transmission
    syncNext,   \* Gnb.next_sync_slot_boundry
    syncWake,   \* expiry of the timeout of Gnb.sync_slot_counter
    desync,     \* Gnb.desync
    lock,       \* channel.tx_lock: holder and FIFO queue of requesters
    txq,        \* channel.tx_queue: user and priority-sorted waiters
    txList,     \* channel.tx_list
    txListNR,   \* channel.tx_list_NR
    boList,     \* channel.back_off_list
    boListNR,   \* channel.back_off_list_NR
    intrQ,      \* Interrupt events scheduled and not yet delivered
    crash,      \* exception that escaped environment.run, or "none"
    heard,      \* history: another node was on air during this send
    result,     \* history: outcome of this send's check_collision
    airData,    \* channel.airtime_data / airtime_data_NR
    airCtrl,    \* channel.airtime_control / airtime_control_NR
    rsTime,     \* Gnb.transmission_to_send.rs_time
    busy        \* history: time the channel was occupied (on air or ACK)

vars == <<now, pc, wake, bo, firstInt, boStart, waitingBo, rsStart, fir,
          retries, syncNext, syncWake, desync, lock, txq, txList, txListNR, boList,
          boListNR, intrQ, crash, heard, result, airData, airCtrl, rsTime, busy>>

\* The airtime bookkeeping, left alone by every step that does not credit.
acct == <<airData, airCtrl, rsTime, busy>>

(***************************************************************************)
(* Program counters.  Wait phase (the process stored in self.process):    *)
(*   "bo_lock"  wait_back_off*: `yield req` on tx_lock                     *)
(*   "gap"      wait_back_off_gap: `yield timeout(gap_time)`               *)
(*   "busy"     wait_back_off_gap: channel busy, `yield req` on tx_lock    *)
(*   "bo_count" `yield timeout(back_off_time)`                             *)
(*   "bo_done"  wait_back_off returned; start() not yet resumed            *)
(* Send phase (send_frame / send_transmission):                            *)
(*   "race"     `yield res | timeout(0)` on tx_queue                       *)
(*   "tx_lock"  `yield lock` on tx_lock                                    *)
(*   "tx"       `yield timeout(frame_time)` holding tx_lock                *)
(*   "ack"      Station success: `yield timeout(ack frame time)`           *)
(*   "ackto"    Station collision: `yield timeout(ack_timeout)`            *)
(*   "loser"    except branch: `yield timeout(frame_time)`                 *)
(*   "l_wait"   Station after the except branch: ack / ack_timeout         *)
(*   "send_done" send returned; start() not yet resumed                    *)
(***************************************************************************)
WaitPcs  == {"bo_lock", "gap", "busy", "bo_count"}
LockPcs  == {"bo_lock", "busy", "tx_lock"}
TimedPcs == {"gap", "bo_count", "tx", "ack", "ackto", "loser", "l_wait"}
\* Send-phase suspension points inside the `try:` that catches simpy.Interrupt.
TryPcs(n) == IF n \in Stations THEN {"race", "tx_lock", "tx", "ack", "ackto"}
                               ELSE {"race", "tx_lock", "tx"}
OnAirPcs == {"tx", "loser"}
\* Inside send_frame / send_transmission, from the append to the tx list on.
SendPcs  == {"race", "tx_lock", "tx", "ack", "ackto", "loser", "l_wait"}
Crashes  == {"none", "uncaught_interrupt", "interrupt_terminated", "key_error"}

NoReq == [node |-> NoNode, live |-> FALSE]
Req   == [node : Nodes \cup {NoNode}, live : BOOLEAN]
-----------------------------------------------------------------------------
(* tx_lock: simpy.Resource(capacity=1).  A release grants the head of the  *)
(* FIFO queue; leaving a `with` block cancels a request not yet granted.   *)
LockRelease(l) ==
    IF l.queue = <<>> THEN [holder |-> NoNode, queue |-> <<>>]
    ELSE [holder |-> Head(l.queue), queue |-> Tail(l.queue)]
LockRequest(l, n) ==
    IF l.holder = NoNode THEN [l EXCEPT !.holder = n]
    ELSE [l EXCEPT !.queue = Append(@, n)]
LockCancel(l, n) ==
    IF l.holder = n THEN LockRelease(l) ELSE [l EXCEPT !.queue = Remove(@, n)]

(* tx_queue: simpy.PreemptiveResource(capacity=1).  Waiters are sorted by  *)
(* (priority, request time): longer frames first, FIFO among equals.  A    *)
(* request whose process has returned stays in the queue with live=FALSE. *)
QInsert(w, r) ==
    LET ahead == SelectSeq(w, LAMBDA x : FrameLen(x.node) >= FrameLen(r.node))
    IN  InsertAt(w, Len(ahead) + 1, r)
\* release(res) removes res from users, then grants the first waiter.
QRelease(q, n) ==
    LET q1 == IF q.holder = [node |-> n, live |-> TRUE]
              THEN [q EXCEPT !.holder = NoReq] ELSE q
    IN  IF q1.holder = NoReq /\ q1.waiting # <<>>
        THEN [holder |-> Head(q1.waiting), waiting |-> Tail(q1.waiting)]
        ELSE q1
\* The process that made n's requests has returned.
QRetire(q, n) ==
    LET dead(r) == IF r.node = n THEN [r EXCEPT !.live = FALSE] ELSE r
    IN  [holder |-> dead(q.holder), waiting |-> [i \in DOMAIN q.waiting |-> dead(q.waiting[i])]]
-----------------------------------------------------------------------------
(* generate_new_back_off_time: upper limit of the uniform draw.            *)
UpperLimit(n) ==
    LET cwMin == IF n \in Stations THEN WIFI_CW_MIN ELSE NR_CW_MIN
        cwMax == IF n \in Stations THEN WIFI_CW_MAX ELSE NR_CW_MAX
        u     == 2^fir[n] * (cwMin + 1) - 1
    IN  IF u <= cwMax THEN u ELSE cwMax

(* Backoff time at the entry of wait_back_off / wait_back_off_gap for a   *)
(* drawn number of slots b; the gap variant adds the PP once, up front.   *)
BackoffTime(n, b) ==
    IF n \in Stations THEN b * T_SLOT
    ELSE IF GAP THEN b * OBS_SLOT + PP ELSE b * OBS_SLOT

\* Mutant of Consumed: only the fixed period is charged, never the slots.
ConsumedFixedOnly(e, fixed, slot) == fixed

(* The time the interrupt handlers subtract from back_off_time after `e`  *)
(* of waiting: the fixed period (DIFS or PP) plus the whole slots after it.*)
Consumed(e, fixed, slot) ==
    IF e <= fixed THEN fixed ELSE ((e - fixed) \div slot) * slot + fixed

(* wait_back_off_gap: time_to_next_sync_slot is advanced by whole sync    *)
(* slots while back_off_time >= it; the gap is what is left.              *)
RECURSIVE GapTime(_, _)
GapTime(ttn, b) == IF b >= ttn THEN GapTime(ttn + SYNC_SLOT, b) ELSE ttn - b

(* len(tx_list) + len(tx_list_NR), and both lists cleared, as every     *)
(* end of a send by the tx_lock holder does.                              *)
TxLen == Len(txList) + Len(txListNR)
\* Mutant of ClearTxLists: tx_list_NR.clear() is forgotten.
ClearWifiListOnly == txList' = <<>> /\ UNCHANGED txListNR
ClearTxLists == txList' = <<>> /\ txListNR' = <<>>

(* Every step but an interrupt delivery waits for the URGENT queue.       *)
Urgent == intrQ = <<>> /\ crash = "none"

Goto(n, p) == pc' = [pc EXCEPT ![n] = p]
SetWake(n, t) == wake' = [wake EXCEPT ![n] = t]
-----------------------------------------------------------------------------
(* Station.__init__ / Gnb.__init__: the attributes both classes start with. *)
NodeAttrsInit ==
    /\ fir = [n \in Nodes |-> 0]
    /\ firstInt = [n \in Nodes |-> FALSE]
    /\ boStart = [n \in Nodes |-> 0]
    /\ retries = [n \in Nodes |-> 0]
    /\ airData = [n \in Nodes |-> 0]
    /\ airCtrl = [n \in Nodes |-> 0]

(* Gnb.__init__ and the first step of sync_slot_counter, which the gNB's   *)
(* constructor starts: desync d, next_sync_slot_boundry = d, timeout(d).   *)
GnbAttrsInit(d) ==
    /\ waitingBo = [n \in Nodes |-> FALSE]
    /\ desync = d
    /\ syncNext = d
    /\ syncWake = d

(* run_simulation: nodes are created in order, and at time 0 every start() *)
(* draws its first backoff and requests tx_lock in that order.            *)
Init ==
    \E b \in [Nodes -> 0 .. Max({WIFI_CW_MIN, NR_CW_MIN})], d \in [Gnbs -> MIN_DESYNC .. MAX_DESYNC] :
      /\ \A n \in Nodes : b[n] <= IF n \in Stations THEN WIFI_CW_MIN ELSE NR_CW_MIN
      /\ NodeAttrsInit
      /\ GnbAttrsInit(d)
      /\ now = 0
      /\ pc = [n \in Nodes |-> "bo_lock"]
      /\ bo = [n \in Nodes |-> BackoffTime(n, b[n])]
      /\ lock = IF Nodes = {} THEN [holder |-> NoNode, queue |-> <<>>]
                ELSE [holder |-> 1, queue |-> [i \in 1 .. Cardinality(Nodes) - 1 |-> i + 1]]
      /\ wake = [n \in Nodes |-> 0]
      /\ rsStart = 0
      /\ txq = [holder |-> NoReq, waiting |-> <<>>]
      /\ txList = <<>>
      /\ txListNR = <<>>
      /\ boList = <<>>
      /\ boListNR = <<>>
      /\ intrQ = <<>>
      /\ crash = IF \E n \in Nodes : b[n] > HIST_MAX THEN "key_error" ELSE "none"
      /\ heard = [n \in Nodes |-> FALSE]
      /\ result = [n \in Nodes |-> "none"]
      /\ rsTime = [g \in Gnbs |-> 0]
      /\ busy = 0
-----------------------------------------------------------------------------
(***************************************************************************)
(* Wait phase.                                                             *)
(***************************************************************************)
\* Station.wait_back_off: tx_lock granted; released at once (end of `with`),
\* DIFS added, countdown started while on back_off_list.
WifiLockGranted(n) ==
    /\ Urgent /\ n \in Stations /\ pc[n] = "bo_lock" /\ lock.holder = n
    /\ lock' = LockRelease(lock)
    /\ bo' = [bo EXCEPT ![n] = @ + DIFS]
    /\ firstInt' = [firstInt EXCEPT ![n] = TRUE]
    /\ boStart' = [boStart EXCEPT ![n] = now]
    /\ boList' = Append(boList, n)
    /\ SetWake(n, now + bo[n] + DIFS)
    /\ Goto(n, "bo_count")
    /\ UNCHANGED <<now, waitingBo, rsStart, fir, retries, syncNext, syncWake, desync,
                   txq, txList, txListNR, boListNR, intrQ, crash, heard, result>>
    /\ UNCHANGED acct

\* Mutant: the gap is computed from the absolute boundary, not from the
\* time left to it.
GapLockGrantedAbs(g) ==
    /\ Urgent /\ GAP /\ g \in Gnbs /\ pc[g] = "bo_lock" /\ lock.holder = g
    /\ lock' = LockRelease(lock)
    /\ SetWake(g, now + GapTime(syncNext[g], bo[g]))
    /\ Goto(g, "gap")
    /\ UNCHANGED <<now, bo, firstInt, boStart, waitingBo, rsStart, fir, retries, syncNext,
                   syncWake, desync, txq, txList, txListNR, boList, boListNR, intrQ, crash, heard, result>>
    /\ UNCHANGED acct

\* Gnb.wait_back_off_gap: tx_lock granted and released; wait the gap that
\* makes the countdown end on a sync slot boundary.
GapLockGranted(g) ==
    /\ Urgent /\ GAP /\ g \in Gnbs /\ pc[g] = "bo_lock" /\ lock.holder = g
    /\ lock' = LockRelease(lock)
    /\ SetWake(g, now + GapTime(syncNext[g] - now, bo[g]))
    /\ Goto(g, "gap")
    /\ UNCHANGED <<now, bo, firstInt, boStart, waitingBo, rsStart, fir, retries, syncNext,
                   syncWake, desync, txq, txList, txListNR, boList, boListNR, intrQ, crash, heard, result>>
    /\ UNCHANGED acct

\* Gnb.wait_back_off_gap: gap waited; start the countdown if no node is on
\* tx_list / tx_list_NR, otherwise wait for tx_lock.
GapEnd(g) ==
    /\ Urgent /\ g \in Gnbs /\ pc[g] = "gap" /\ wake[g] = now
    /\ firstInt' = [firstInt EXCEPT ![g] = TRUE]
    /\ boStart' = [boStart EXCEPT ![g] = now]
    /\ IF TxLen > 0
       THEN /\ lock' = LockRequest(lock, g)
            /\ Goto(g, "busy")
            /\ UNCHANGED <<boListNR, waitingBo, wake>>
       ELSE /\ boListNR' = Append(boListNR, g)
            /\ waitingBo' = [waitingBo EXCEPT ![g] = TRUE]
            /\ SetWake(g, now + bo[g])
            /\ Goto(g, "bo_count")
            /\ UNCHANGED lock
    /\ UNCHANGED <<now, bo, rsStart, fir, retries, syncNext, syncWake, desync, txq,
                   txList, txListNR, boList, intrQ, crash, heard, result>>
    /\ UNCHANGED acct

\* Mutant of BusyGranted: the re-acquired tx_lock is handed back and asked
\* for again without leaving the busy wait.
BusyGrantedSpin(g) ==
    /\ Urgent /\ g \in Gnbs /\ pc[g] = "busy" /\ lock.holder = g
    /\ lock' = LockRequest(LockRelease(lock), g)
    /\ UNCHANGED <<pc, now, wake, bo, firstInt, boStart, waitingBo, rsStart, fir, retries,
                   syncNext, syncWake, desync, txq, txList, txListNR, boList, boListNR, intrQ,
                   crash, heard, result>>
    /\ UNCHANGED acct

\* Gnb.wait_back_off_gap: the busy channel was freed; loop and request again.
BusyGranted(g) ==
    /\ Urgent /\ g \in Gnbs /\ pc[g] = "busy" /\ lock.holder = g
    /\ IF bo[g] > -1
       THEN lock' = LockRequest(LockRelease(lock), g) /\ Goto(g, "bo_lock")
       ELSE lock' = LockRelease(lock) /\ Goto(g, "bo_done")
    /\ UNCHANGED <<now, wake, bo, firstInt, boStart, waitingBo, rsStart, fir, retries,
                   syncNext, syncWake, desync, txq, txList, txListNR, boList, boListNR, intrQ,
                   crash, heard, result>>
    /\ UNCHANGED acct

\* Mutant of RsLockGranted: the store into the global `start` is lost.
RsLockGrantedNoStart(g) ==
    /\ Urgent /\ ~GAP /\ g \in Gnbs /\ pc[g] = "bo_lock" /\ lock.holder = g
    /\ lock' = LockRelease(lock)
    /\ firstInt' = [firstInt EXCEPT ![g] = TRUE]
    /\ bo' = [bo EXCEPT ![g] = @ + PP]
    /\ boListNR' = Append(boListNR, g)
    /\ SetWake(g, now + bo[g] + PP)
    /\ Goto(g, "bo_count")
    /\ UNCHANGED <<now, boStart, waitingBo, rsStart, fir, retries, syncNext, syncWake, desync,
                   txq, txList, txListNR, boList, intrQ, crash, heard, result>>
    /\ UNCHANGED acct

\* Gnb.wait_back_off (RS mode): tx_lock granted and released; PP added,
\* the shared global `start` set, countdown started.
RsLockGranted(g) ==
    /\ Urgent /\ ~GAP /\ g \in Gnbs /\ pc[g] = "bo_lock" /\ lock.holder = g
    /\ lock' = LockRelease(lock)
    /\ firstInt' = [firstInt EXCEPT ![g] = TRUE]
    /\ bo' = [bo EXCEPT ![g] = @ + PP]
    /\ rsStart' = now
    /\ boListNR' = Append(boListNR, g)
    /\ SetWake(g, now + bo[g] + PP)
    /\ Goto(g, "bo_count")
    /\ UNCHANGED <<now, boStart, waitingBo, fir, retries, syncNext, syncWake, desync,
                   txq, txList, txListNR, boList, intrQ, crash, heard, result>>
    /\ UNCHANGED acct

\* The countdown timeout fires: leave the back-off list, end wait_back_off.
BackoffExpired(n) ==
    /\ Urgent /\ pc[n] = "bo_count" /\ wake[n] = now
    /\ bo' = [bo EXCEPT ![n] = -1]
    /\ waitingBo' = [waitingBo EXCEPT ![n] = FALSE]
    /\ IF n \in Stations
       THEN boList' = RemoveFirst(boList, n) /\ UNCHANGED boListNR
       ELSE boListNR' = RemoveFirst(boListNR, n) /\ UNCHANGED boList
    /\ Goto(n, "bo_done")
    /\ UNCHANGED <<now, wake, firstInt, boStart, rsStart, fir, retries, syncNext, syncWake,
                   desync, lock, txq, txList, txListNR, intrQ, crash, heard, result>>
    /\ UNCHANGED acct

\* Mutant: the handler ignores first_interrupt and charges the waited
\* time again on every Interrupt.
WaitInterruptedAlways(n) ==
    LET fixed == IF n \in Stations THEN DIFS ELSE PP
        slot  == IF n \in Stations THEN T_SLOT ELSE OBS_SLOT
        since == IF n \in Gnbs /\ ~GAP THEN rsStart ELSE boStart[n]
        back   == IF n \in Gnbs /\ GAP THEN PP ELSE 0
        newBo  == bo[n] - Consumed(now - since, fixed, slot) + back
        lock1  == IF pc[n] \in LockPcs THEN LockCancel(lock, n) ELSE lock
    IN  /\ bo' = [bo EXCEPT ![n] = newBo]
        /\ firstInt' = [firstInt EXCEPT ![n] = FALSE]
        /\ waitingBo' = [waitingBo EXCEPT ![n] = FALSE]
        /\ IF newBo > -1
           THEN lock' = LockRequest(lock1, n) /\ Goto(n, "bo_lock")
           ELSE lock' = lock1 /\ Goto(n, "bo_done")
        /\ UNCHANGED <<wake, txq, crash>>

\* An Interrupt reaches a wait_back_off process: the `with` block cancels
\* the pending tx_lock request, the handler recomputes back_off_time from
\* the time waited, and the loop requests tx_lock again while it is > -1.
\* The node stays on the back-off list.
WaitInterrupted(n) ==
    LET fixed == IF n \in Stations THEN DIFS ELSE PP
        slot  == IF n \in Stations THEN T_SLOT ELSE OBS_SLOT
        since == IF n \in Gnbs /\ ~GAP THEN rsStart ELSE boStart[n]
        \* Station / RS: `if first_interrupt`; gap: `and waiting_backoff`
        handle == firstInt[n] /\ (n \in Gnbs /\ GAP => waitingBo[n])
        back   == IF n \in Gnbs /\ GAP THEN PP ELSE 0   \* gap re-adds the PP
        newBo  == IF handle THEN bo[n] - Consumed(now - since, fixed, slot) + back
                  ELSE bo[n]
        lock1  == IF pc[n] \in LockPcs THEN LockCancel(lock, n) ELSE lock
    IN  /\ bo' = [bo EXCEPT ![n] = newBo]
        /\ firstInt' = [firstInt EXCEPT ![n] = IF handle THEN FALSE ELSE @]
        /\ waitingBo' = [waitingBo EXCEPT ![n] = IF handle THEN FALSE ELSE @]
        /\ IF newBo > -1
           THEN lock' = LockRequest(lock1, n) /\ Goto(n, "bo_lock")
           ELSE lock' = lock1 /\ Goto(n, "bo_done")
        /\ UNCHANGED <<wake, txq, crash>>

(***************************************************************************)
(* Send phase.                                                             *)
(***************************************************************************)
\* send_frame / send_transmission up to `yield res | timeout(0)`: join the
\* tx list and request tx_queue.  A request for a longer frame preempts the
\* current user, which is interrupted; interrupting a process that has
\* already returned raises RuntimeError in the requesting process.
SendStart(n) ==
    /\ Urgent /\ pc[n] = "bo_done"
    /\ IF n \in Stations THEN txList' = Append(txList, n) /\ UNCHANGED txListNR
                          ELSE txListNR' = Append(txListNR, n) /\ UNCHANGED txList
    /\ retries' = IF n \in Gnbs THEN [retries EXCEPT ![n] = 0] ELSE retries
    /\ rsTime' = IF n \in Gnbs
                 THEN [rsTime EXCEPT ![n] = IF GAP THEN 0 ELSE syncNext[n] - now]
                 ELSE rsTime
    /\ UNCHANGED <<airData, airCtrl, busy>>
    /\ heard' = [heard EXCEPT ![n] = FALSE]
    /\ result' = [result EXCEPT ![n] = "none"]
    /\ LET r == [node |-> n, live |-> TRUE] IN
       IF txq.holder = NoReq
       THEN txq' = [txq EXCEPT !.holder = r] /\ UNCHANGED <<intrQ, crash>>
       ELSE IF FrameLen(n) > FrameLen(txq.holder.node)
       THEN IF txq.holder.live
            THEN /\ txq' = [txq EXCEPT !.holder = r]
                 /\ intrQ' = Append(intrQ, txq.holder.node)
                 /\ UNCHANGED crash
            ELSE crash' = "interrupt_terminated" /\ UNCHANGED <<txq, intrQ>>
       ELSE txq' = [txq EXCEPT !.waiting = QInsert(@, r)] /\ UNCHANGED <<intrQ, crash>>
    /\ Goto(n, "race")
    /\ UNCHANGED <<now, wake, bo, firstInt, boStart, waitingBo, rsStart, fir, syncNext,
                   syncWake, desync, lock, boList, boListNR>>

\* `res in result`: the request is granted, go for tx_lock; otherwise a
\* longer frame holds tx_queue and the node talks for its frame time anyway.
Race(n) ==
    /\ Urgent /\ pc[n] = "race"
    /\ IF txq.holder = [node |-> n, live |-> TRUE]
       THEN lock' = LockRequest(lock, n) /\ Goto(n, "tx_lock") /\ UNCHANGED wake
       ELSE SetWake(n, now + FrameLen(n)) /\ Goto(n, "loser") /\ UNCHANGED lock
    /\ UNCHANGED <<now, bo, firstInt, boStart, waitingBo, rsStart, fir, retries, syncNext,
                   syncWake, desync, txq, txList, txListNR, boList, boListNR, intrQ, crash, heard, result>>
    /\ UNCHANGED acct

\* Mutant: the `is_alive` test before `process.interrupt()` is dropped.
TxStartAll(n) ==
    /\ Urgent /\ pc[n] = "tx_lock" /\ lock.holder = n
    /\ intrQ' = boList \o boListNR
    /\ SetWake(n, now + FrameLen(n))
    /\ Goto(n, "tx")
    /\ UNCHANGED <<now, bo, firstInt, boStart, waitingBo, rsStart, fir, retries, syncNext,
                   syncWake, desync, lock, txq, txList, txListNR, boList, boListNR, crash, heard, result>>
    /\ UNCHANGED acct

\* tx_lock granted: interrupt every node of both back-off lists whose
\* wait_back_off process is alive, then start the frame timeout.
TxStart(n) ==
    /\ Urgent /\ pc[n] = "tx_lock" /\ lock.holder = n
    /\ LET alive(m) == pc[m] \in WaitPcs
       IN  intrQ' = SelectSeq(boList, alive) \o SelectSeq(boListNR, alive)
    /\ SetWake(n, now + FrameLen(n))
    /\ Goto(n, "tx")
    /\ UNCHANGED <<now, bo, firstInt, boStart, waitingBo, rsStart, fir, retries, syncNext,
                   syncWake, desync, lock, txq, txList, txListNR, boList, boListNR, crash, heard, result>>
    /\ UNCHANGED acct

\* Mutant: the preempted process keeps the tx_lock it may hold.
PreemptedKeepLock(n) ==
    /\ SetWake(n, now + FrameLen(n))
    /\ Goto(n, "loser")
    /\ UNCHANGED <<bo, firstInt, waitingBo, lock, txq, crash>>

\* An Interrupt (Preempted) reaches a send process inside its `try`: the
\* `with` block gives up tx_lock, the except branch waits the frame time.
Preempted(n) ==
    /\ lock' = LockCancel(lock, n)
    /\ SetWake(n, now + FrameLen(n))
    /\ Goto(n, "loser")
    /\ UNCHANGED <<bo, firstInt, waitingBo, txq, crash>>

\* Deliver the next URGENT Interrupt event.  A process that has returned
\* ignores it; one suspended outside a `try` lets it escape the simulation.
DeliverInterrupt ==
    /\ intrQ # <<>> /\ crash = "none"
    /\ intrQ' = Tail(intrQ)
    /\ LET n == Head(intrQ) IN
       CASE pc[n] \in WaitPcs   -> WaitInterrupted(n)
         [] pc[n] \in TryPcs(n) -> Preempted(n)
         [] pc[n] = "bo_done"   -> UNCHANGED <<pc, wake, bo, firstInt, waitingBo, lock, txq, crash>>
         [] OTHER               -> /\ crash' = "uncaught_interrupt"
                                   /\ UNCHANGED <<pc, wake, bo, firstInt, waitingBo, lock, txq>>
    /\ UNCHANGED <<now, boStart, rsStart, fir, retries, syncNext, syncWake, desync,
                   txList, txListNR, boList, boListNR, heard, result>>
    /\ UNCHANGED acct

\* Mutant: an empty tx list counts as a success.
AloneOrEmpty == TxLen <= 1

\* Mutant: the `len > 1` test is dropped; only an empty list is a collision.
AnyOnList == TxLen >= 1

(* check_collision: success iff exactly one node is on the tx lists.       *)
Alone == TxLen = 1

\* Station.sent_failed: count a retransmission; past r_limit drop the frame.
WifiFailed(n) ==
    LET r == retries[n] + 1 IN
    /\ retries' = [retries EXCEPT ![n] = IF r > R_LIMIT THEN 0 ELSE r]
    /\ fir' = [fir EXCEPT ![n] = IF r > R_LIMIT THEN 0 ELSE @ + 1]
\* Gnb.sent_failed: the same on the transmission object, limit 7.
NrFailed(g) ==
    LET r == retries[g] + 1 IN
    /\ retries' = [retries EXCEPT ![g] = r]
    /\ fir' = [fir EXCEPT ![g] = IF r > NR_R_LIMIT THEN 0 ELSE @ + 1]
\* sent_completed (Station and Gnb) resets the failures in a row.
Completed(n) == fir' = [fir EXCEPT ![n] = 0] /\ UNCHANGED retries

\* Airtime credited by a success: `data` to airtime_data(_NR), `ctrl` to
\* airtime_control(_NR).
Credit(n, data, ctrl) ==
    /\ airData' = [airData EXCEPT ![n] = @ + data]
    /\ airCtrl' = [airCtrl EXCEPT ![n] = @ + ctrl]

\* Mutant of NrCredit: the whole transmission time is counted as data.
NrCreditFull(g) == Credit(g, MCOT_TIME, rsTime[g])

\* Gnb.send_transmission, success as the tx_lock holder: rs_time is control
\* airtime and the rest of the transmission data airtime.
NrCredit(g) == Credit(g, MCOT_TIME - rsTime[g], rsTime[g])

Record(n, ok) == result' = [result EXCEPT ![n] = IF ok THEN "success" ELSE "failure"]

\* Mutant of WifiTxEnd: the collision branch leaves the tx lists as they are.
WifiTxEndNoClear(n) ==
    /\ Urgent /\ n \in Stations /\ pc[n] = "tx" /\ wake[n] = now
    /\ boList' = <<>>
    /\ Record(n, Alone)
    /\ IF Alone
       THEN /\ Completed(n) /\ Credit(n, FRAME_TIME, ACK_TIME)
            /\ SetWake(n, now + ACK_TIME) /\ Goto(n, "ack")
            /\ UNCHANGED txq
       ELSE /\ WifiFailed(n) /\ UNCHANGED <<airData, airCtrl>>
            /\ txq' = [holder |-> NoReq, waiting |-> <<>>]
            /\ SetWake(n, now + ACK_TIMEOUT) /\ Goto(n, "ackto")
    /\ UNCHANGED <<now, bo, firstInt, boStart, waitingBo, rsStart, syncNext, syncWake,
                   desync, lock, boListNR, intrQ, crash, heard, txList, txListNR, rsTime, busy>>

\* Station.send_frame, frame timeout as the tx_lock holder: clear the
\* back-off list, check.  Success: wait the ACK still holding both
\* resources.  Collision: clear the tx lists, release tx_queue and replace
\* it by a new one, wait ack_timeout still holding tx_lock.
WifiTxEnd(n) ==
    /\ Urgent /\ n \in Stations /\ pc[n] = "tx" /\ wake[n] = now
    /\ boList' = <<>>
    /\ Record(n, Alone)
    /\ IF Alone
       THEN /\ Completed(n) /\ Credit(n, FRAME_TIME, ACK_TIME)
            /\ SetWake(n, now + ACK_TIME) /\ Goto(n, "ack")
            /\ UNCHANGED <<txList, txListNR, txq>>
       ELSE /\ WifiFailed(n) /\ UNCHANGED <<airData, airCtrl>>
            /\ ClearTxLists
            /\ txq' = [holder |-> NoReq, waiting |-> <<>>]
            /\ SetWake(n, now + ACK_TIMEOUT) /\ Goto(n, "ackto")
    /\ UNCHANGED <<now, bo, firstInt, boStart, waitingBo, rsStart, syncNext, syncWake,
                   desync, lock, boListNR, intrQ, crash, heard, rsTime, busy>>

\* Station: ACK waited; clear the tx lists, release tx_queue, return True
\* (leaving the `with` releases tx_lock).
AckEnd(n) ==
    /\ Urgent /\ pc[n] = "ack" /\ wake[n] = now
    /\ ClearTxLists
    /\ txq' = QRetire(QRelease(txq, n), n)
    /\ lock' = LockRelease(lock)
    /\ Goto(n, "send_done")
    /\ UNCHANGED <<now, wake, bo, firstInt, boStart, waitingBo, rsStart, fir, retries,
                   syncNext, syncWake, desync, boList, boListNR, intrQ, crash, heard, result>>
    /\ UNCHANGED acct

\* Station: ack_timeout waited after a collision; return False.
AckTimeoutEnd(n) ==
    /\ Urgent /\ pc[n] = "ackto" /\ wake[n] = now
    /\ txq' = QRetire(txq, n)
    /\ lock' = LockRelease(lock)
    /\ Goto(n, "send_done")
    /\ UNCHANGED <<now, wake, bo, firstInt, boStart, waitingBo, rsStart, fir, retries,
                   syncNext, syncWake, desync, txList, txListNR, boList, boListNR, intrQ, crash,
                   heard, result>>
    /\ UNCHANGED acct

\* Gnb.send_transmission, transmission timeout as the tx_lock holder: clear
\* the NR back-off list, check, clear the tx lists and release tx_lock.
\* Success releases tx_queue; a collision also replaces it by a new one.
NrTxEnd(g) ==
    /\ Urgent /\ g \in Gnbs /\ pc[g] = "tx" /\ wake[g] = now
    /\ boListNR' = <<>>
    /\ Record(g, Alone)
    /\ IF Alone
       THEN Completed(g) /\ NrCredit(g) /\ txq' = QRetire(QRelease(txq, g), g)
       ELSE /\ NrFailed(g) /\ UNCHANGED <<airData, airCtrl>>
            /\ txq' = [holder |-> NoReq, waiting |-> <<>>]
    /\ ClearTxLists
    /\ lock' = LockRelease(lock)
    /\ Goto(g, "send_done")
    /\ UNCHANGED <<now, wake, bo, firstInt, boStart, waitingBo, rsStart, syncNext, syncWake,
                   desync, boList, intrQ, crash, heard, rsTime, busy>>

\* except branch: frame time waited without tx_lock; check.  The Station
\* then waits the ACK or ack_timeout; the Gnb returns at once.  Neither
\* clears a list or touches tx_queue.
LoserEnd(n) ==
    /\ Urgent /\ pc[n] = "loser" /\ wake[n] = now
    /\ Record(n, Alone)
    /\ IF Alone
       THEN Completed(n) /\ Credit(n, IF n \in Stations THEN FRAME_TIME ELSE 0, 0)
       ELSE /\ IF n \in Stations THEN WifiFailed(n) ELSE NrFailed(n)
            /\ UNCHANGED <<airData, airCtrl>>
    /\ IF n \in Stations
       THEN /\ SetWake(n, now + IF Alone THEN ACK_TIME ELSE ACK_TIMEOUT)
            /\ Goto(n, "l_wait") /\ UNCHANGED txq
       ELSE txq' = QRetire(txq, n) /\ Goto(n, "send_done") /\ UNCHANGED wake
    /\ UNCHANGED <<now, bo, firstInt, boStart, waitingBo, rsStart, syncNext, syncWake,
                   desync, lock, txList, txListNR, boList, boListNR, intrQ, crash, heard, rsTime, busy>>

\* Station: ACK / ack_timeout after the except branch waited; return.
LoserWaitEnd(n) ==
    /\ Urgent /\ pc[n] = "l_wait" /\ wake[n] = now
    /\ txq' = QRetire(txq, n)
    /\ Goto(n, "send_done")
    /\ UNCHANGED <<now, wake, bo, firstInt, boStart, waitingBo, rsStart, fir, retries,
                   syncNext, syncWake, desync, lock, txList, txListNR, boList, boListNR, intrQ,
                   crash, heard, result>>
    /\ UNCHANGED acct

\* start(): a Station that sent its frame generates a new one; then a new
\* wait_back_off draws a backoff (recorded in channel.backoffs, whose keys
\* stop at HIST_MAX) and requests tx_lock.
NextAttempt(n) ==
    /\ Urgent /\ pc[n] = "send_done"
    /\ \E b \in 0 .. UpperLimit(n) :
         /\ bo' = [bo EXCEPT ![n] = BackoffTime(n, b)]
         /\ crash' = IF b > HIST_MAX THEN "key_error" ELSE crash
    /\ retries' = IF n \in Stations /\ result[n] = "success"
                  THEN [retries EXCEPT ![n] = 0] ELSE retries
    /\ lock' = LockRequest(lock, n)
    /\ Goto(n, "bo_lock")
    /\ UNCHANGED <<now, wake, firstInt, boStart, waitingBo, rsStart, fir, syncNext,
                   syncWake, desync, txq, txList, txListNR, boList, boListNR, intrQ, heard, result>>
    /\ UNCHANGED acct

\* Gnb.sync_slot_counter: advance the boundary by one sync slot.
SyncTick(g) ==
    /\ Urgent /\ syncWake[g] = now
    /\ syncNext' = [syncNext EXCEPT ![g] = @ + SYNC_SLOT]
    /\ syncWake' = [syncWake EXCEPT ![g] = now + SYNC_SLOT]
    /\ UNCHANGED <<now, pc, wake, bo, firstInt, boStart, waitingBo, rsStart, fir, retries,
                   desync, lock, txq, txList, txListNR, boList, boListNR, intrQ, crash, heard, result>>
    /\ UNCHANGED acct

(***************************************************************************)
(* Kernel.                                                                 *)
(***************************************************************************)
\* Some process can resume at the current instant.
ZeroDelay ==
    \/ \E n \in Nodes :
          \/ pc[n] \in {"bo_done", "race", "send_done"}
          \/ pc[n] \in LockPcs /\ lock.holder = n
          \/ pc[n] \in TimedPcs /\ wake[n] = now
    \/ \E g \in Gnbs : syncWake[g] = now

Timeouts == {wake[n] : n \in {m \in Nodes : pc[m] \in TimedPcs}} \cup {syncWake[g] : g \in Gnbs}

OnAir == {n \in Nodes : pc[n] \in OnAirPcs}

\* Some frame is on air or a Station waits for its ACK holding tx_lock.
Occupied == OnAir # {} \/ \E n \in Stations : pc[n] = "ack"

\* Mutant: environment.run ignores `until`.
TickPastUntil ==
    /\ Urgent /\ ~ZeroDelay /\ Timeouts # {}
    /\ now' = Min(Timeouts)
    /\ heard' = IF Cardinality(OnAir) > 1
                THEN [n \in Nodes |-> heard[n] \/ n \in OnAir] ELSE heard
    /\ busy' = IF Occupied THEN busy + Min(Timeouts) - now ELSE busy
    /\ UNCHANGED <<pc, wake, bo, firstInt, boStart, waitingBo, rsStart, fir, retries,
                   syncNext, syncWake, desync, lock, txq, txList, txListNR, boList, boListNR,
                   intrQ, crash, result, airData, airCtrl, rsTime>>

\* Advance to the earliest pending timeout.  Nodes on air together during
\* the elapsed interval have overlapping transmissions.
Tick ==
    /\ Urgent /\ ~ZeroDelay /\ Timeouts # {}
    /\ Min(Timeouts) < HORIZON
    /\ now' = Min(Timeouts)
    /\ heard' = IF Cardinality(OnAir) > 1
                THEN [n \in Nodes |-> heard[n] \/ n \in OnAir] ELSE heard
    /\ busy' = IF Occupied THEN busy + Min(Timeouts) - now ELSE busy
    /\ UNCHANGED <<pc, wake, bo, firstInt, boStart, waitingBo, rsStart, fir, retries,
                   syncNext, syncWake, desync, lock, txq, txList, txListNR, boList, boListNR,
                   intrQ, crash, result, airData, airCtrl, rsTime>>

\* environment.run(until=HORIZON) returns, or an exception escaped it.
Finished ==
    /\ \/ crash # "none"
       \/ Urgent /\ ~ZeroDelay /\ Timeouts # {} /\ Min(Timeouts) >= HORIZON
    /\ UNCHANGED vars

Next ==
    \/ DeliverInterrupt
    \/ Tick
    \/ Finished
    \/ \E n \in Nodes :
          \/ WifiLockGranted(n) \/ GapLockGranted(n) \/ GapEnd(n) \/ BusyGranted(n)
          \/ RsLockGranted(n) \/ BackoffExpired(n)
          \/ SendStart(n) \/ Race(n) \/ TxStart(n) \/ WifiTxEnd(n) \/ AckEnd(n)
          \/ AckTimeoutEnd(n) \/ NrTxEnd(n) \/ LoserEnd(n) \/ LoserWaitEnd(n)
          \/ NextAttempt(n)
    \/ \E g \in Gnbs : SyncTick(g)

Spec == Init /\ [][Next]_vars

\* environment.run(until) pops events for as long as any is scheduled
\* before `until`: whenever some process can resume or some timeout is
\* pending, the kernel eventually takes a step.
LiveSpec == Spec /\ WF_vars(Next)
-----------------------------------------------------------------------------
TypeOK ==
    /\ now \in 0 .. HORIZON
    /\ pc \in [Nodes -> WaitPcs \cup {"bo_done", "race", "tx_lock", "tx", "ack", "ackto",
                                       "loser", "l_wait", "send_done"}]
    /\ wake \in [Nodes -> Nat]
    /\ bo \in [Nodes -> Int]
    /\ firstInt \in [Nodes -> BOOLEAN] /\ waitingBo \in [Nodes -> BOOLEAN]
    /\ boStart \in [Nodes -> Nat] /\ rsStart \in Nat
    /\ fir \in [Nodes -> Nat] /\ retries \in [Nodes -> Nat]
    /\ syncNext \in [Gnbs -> Nat] /\ syncWake \in [Gnbs -> Nat]
    /\ desync \in [Gnbs -> MIN_DESYNC .. MAX_DESYNC]
    /\ lock \in [holder : Nodes \cup {NoNode}, queue : Seq(Nodes)]
    /\ txq \in [holder : Req, waiting : Seq(Req)]
    /\ txList \in Seq(Stations) /\ txListNR \in Seq(Gnbs)
    /\ boList \in Seq(Stations) /\ boListNR \in Seq(Gnbs)
    /\ intrQ \in Seq(Nodes)
    /\ crash \in Crashes
    /\ heard \in [Nodes -> BOOLEAN]
    /\ result \in [Nodes -> {"none", "success", "failure"}]
    /\ airData \in [Nodes -> Nat] /\ airCtrl \in [Nodes -> Nat]
    /\ rsTime \in [Gnbs -> Nat] /\ busy \in 0 .. HORIZON

\* No exception escapes environment.run: no Interrupt reaches a send
\* process outside its `try`, no preemption targets a process that has
\* returned (RuntimeError), no drawn backoff misses channel.backoffs.
NoFatalError == crash = "none"

\* A node leaves wait_back_off* for send_frame / send_transmission only when
\* its countdown timeout fires: the interrupt handlers never charge more
\* time than was waited, so the residue never drops to -1 and the loop
\* `while back_off_time > -1` is never left with backoff slots unspent.
BackoffNeverSkipped ==
    [][\A n \in Nodes : pc[n] \in WaitPcs /\ pc'[n] = "bo_done"
                        => pc[n] = "bo_count" /\ wake[n] = now]_vars

\* Retry limit: a node that failed more than its retry limit in a row has
\* dropped the frame and restarted binary exponential backoff, so the
\* failures in a row never exceed r_limit (spec 4.3; 4.4 says NR-U applies
\* the same policy with limit 7: Gnb.sent_failed).
FailuresInRowBounded ==
    /\ \A n \in Stations : fir[n] <= R_LIMIT
    /\ \A g \in Gnbs : fir[g] <= NR_R_LIMIT

\* check_collision reports success only to a node whose transmission
\* overlapped no other transmission (spec P2: every participant of an
\* overlap records a failure).
CollisionAlwaysDetected == \A n \in Nodes : result[n] = "success" => ~heard[n]

\* tx_lock is only ever held or awaited by a process suspended on it or
\* inside the `with` that acquired it: every exit from a `with` block
\* (normal end, Interrupt, Preempted, return) releases or cancels.  A
\* leaked holder would block every other node's contention for good.
LockOwnedByWaiter ==
    /\ lock.holder # NoNode => pc[lock.holder] \in LockPcs \cup {"tx", "ack", "ackto"}
    /\ \A i \in DOMAIN lock.queue : pc[lock.queue[i]] \in LockPcs

\* Gap mode: every NR-U transmission starts on one of the gNB's sync slot
\* boundaries, desync + k * synchronization_slot_duration (spec P5).
GapTransmissionAligned ==
    [][GAP => \A g \in Gnbs : pc[g] = "bo_done" /\ pc'[g] = "race"
                              => (now - desync[g]) % SYNC_SLOT = 0]_vars

\* environment.run(until) returns: no cycle of zero-delay steps (lock
\* requests, grants, interrupts, resumptions at one instant) keeps the
\* simulated clock from reaching the horizon (or an exception from ending
\* the run).
RunReturns ==
    <>(crash # "none" \/ (Urgent /\ ~ZeroDelay /\ Timeouts # {} /\ Min(Timeouts) >= HORIZON))



\* No starvation by re-interruption: when a countdown is interrupted, the
\* residue the node resumes with is at most the one it started the
\* countdown with, and strictly less once a whole slot past DIFS / PP was
\* waited.  The time waited is read from the node's own timeout (started at
\* wake - back_off_time), not from the `start` attributes the handlers use.
ResidueProgress ==
    [][\A n \in Nodes :
         pc[n] = "bo_count" /\ pc'[n] \in {"bo_lock", "bo_done"} =>
           LET fixed  == IF n \in Stations THEN DIFS ELSE PP
               slot   == IF n \in Stations THEN T_SLOT ELSE OBS_SLOT
               prev   == IF n \in Gnbs /\ GAP THEN bo[n] ELSE bo[n] - fixed
               waited == now - (wake[n] - bo[n])
           IN  /\ bo'[n] <= prev
               /\ waited >= fixed + slot => bo'[n] < prev]_vars

\* RS mode keeps one module-global `start` for every Gnb.wait_back_off,
\* and an interrupted gNB charges its residue from it.  This is harmless
\* only if every gNB counting down started at the instant `start` holds:
\* countdowns begin together when tx_lock is released, and a gNB that lost
\* the tx_queue race is back no later than the winner, because the longest
\* frame wins.
SharedStartCurrent ==
    \A g \in Gnbs : pc[g] = "bo_count" => wake[g] - bo[g] = rsStart

\* Spec P4, airtime conservation: the data and control airtime that the
\* successes of both technologies credit (Station.sent_completed and the
\* ACK in send_frame, rs_time and airtime in Gnb.send_transmission) never
\* exceed the time the channel was occupied, counting the ACKs credited and
\* still being waited.  Crediting an overlapped frame, or a reservation
\* signal twice, makes run_simulation report more occupancy than there was.
AirtimeConserved ==
    LET ackDue == SumFunctionOnSet([n \in Stations |-> wake[n] - now],
                                   {n \in Stations : pc[n] = "ack"})
    IN  SumFunction(airData) + SumFunction(airCtrl) <= busy + ackDue

\* The tx lists hold each node at most once, and a node whose send has
\* returned (a loser, which never clears them) stays on them only while the
\* tx_lock holder is still transmitting or waiting its ACK, and will clear
\* both lists when it ends.  So len(tx_list) + len(tx_list_NR) in
\* check_collision counts distinct nodes, and a stale entry never outlives
\* the transmission it overlapped to make a later lone send a collision.
TxListsTrackSenders ==
    LET listed == Range(txList) \cup Range(txListNR)
    IN  /\ TxLen = Cardinality(listed)
        /\ \A m \in listed :
              \/ pc[m] \in SendPcs
              \/ lock.holder # NoNode /\ pc[lock.holder] \in {"tx", "ack"}

(* The channel's promise (module Medium): nodes in "tx" or "loser" are on  *)
(* air, `heard` flags the attempt's overlap, `result` is its outcome.      *)
Abstract == INSTANCE Medium WITH air <- OnAir, ovl <- heard, out <- result

\* Spec 4.2, P1 and P2: every Coexistence behaviour is a behaviour of the
\* Medium: send_frame / send_transmission reset the attempt, a node goes on
\* air by winning tx_lock or losing the tx_queue race, and check_collision
\* reports success exactly for the attempts that overlapped nothing.
ImplementsMedium == Abstract!Spec

=============================================================================
