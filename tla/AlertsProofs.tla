----------------------------- MODULE AlertsProofs -----------------------------
(***************************************************************************)
(* Proofs about what the server does by the clock: alerts, for any rules,  *)
(* issues and times (AlertRules), monitors, for any number of check-ins    *)
(* and clients (Monitors), and the processes that compete to do it, for    *)
(* any number of processes, leader keys, connections and requests          *)
(* (Leadership).                                                           *)
(***************************************************************************)
EXTENDS AlertRules, Monitors, Leadership, TLAPS

-----------------------------------------------------------------------------
(* AlertRules: the cooldown of a rule. *)

CallType == [pc : {"idle", "send", "unclaim", "done"}, at : Nat, previous : Nat,
             todo : SUBSET Channels, sent : BOOLEAN]

\* AlertsTypeOK, without the bound on the clock.
RuleTypes ==
  /\ clock \in Nat \ {0}
  /\ rule \in [enabled : BOOLEAN, last : Nat]
  /\ call \in [Calls -> CallType]
  /\ served \subseteq Nat \ {0}

Sending(d) == call[d].pc \in {"send", "unclaim"}

\* One delivery holds the rule, its claim is the last one, and its cooldown
\* still runs; what was served lies at the claim or a cooldown before it.
RuleHeld ==
  \A d \in Calls : Sending(d) =>
    /\ rule.last = call[d].at /\ call[d].at > 0
    /\ clock - call[d].at <= Cooldown
    /\ \A e \in Calls : Sending(e) => e = d
    /\ call[d].previous = 0 \/ call[d].at - call[d].previous > Cooldown
    /\ call[d].previous \in {0} \cup served \cup lost
    /\ \A a \in served : a = call[d].at \/ a <= call[d].previous
    /\ call[d].sent <=> call[d].at \in served
    /\ call[d].pc = "unclaim" => ~call[d].sent

\* The rule's time is that of a delivery that was sent, lost or is under way.
ServedKnown ==
  /\ \A a \in served : a <= rule.last
  /\ \A a, b \in served : a < b => b - a > Cooldown
  /\ rule.last \in {0} \cup served \cup lost \/ \E d \in Calls : Sending(d)

RuleInv == RuleTypes /\ RuleHeld /\ ServedKnown

LEMMA RuleInit == AlertsInit => RuleInv
<1> SUFFICES ASSUME AlertsInit PROVE RuleInv
  OBVIOUS
<1>1. RuleTypes
  BY DEF AlertsInit, RuleTypes, CallType, Idle
<1>2. RuleHeld /\ ServedKnown
  BY DEF AlertsInit, RuleHeld, ServedKnown, Sending, Idle
<1> QED BY <1>1, <1>2 DEF RuleInv

LEMMA RuleStep == ASSUME RuleInv, QuickSends, [AlertsNext]_alertVars PROVE RuleInv'
<1> USE AlertRulesAssumption DEF RuleInv
<1>1. CASE Minute
  <2>1. /\ clock' = clock + 1 /\ UNCHANGED <<rule, call, served, lost>>
        /\ \A d \in Calls : Sending(d) => clock + 1 - call[d].at <= Cooldown
    BY <1>1 DEF Minute, Claimed, Sending
  <2> QED BY <2>1 DEF RuleTypes, RuleHeld, ServedKnown, Sending
<1>2. CASE SetRule
  <2>1. rule' = [rule EXCEPT !.enabled = ~@] /\ UNCHANGED <<clock, call, served, lost>>
    BY <1>2 DEF SetRule
  <2>2. rule' \in [enabled : BOOLEAN, last : Nat] /\ rule'.last = rule.last
    BY <2>1 DEF RuleTypes
  <2> QED BY <2>1, <2>2 DEF RuleTypes, RuleHeld, ServedKnown, Sending
<1>3. ASSUME NEW d \in Calls, Claim(d) PROVE RuleInv'
  <2>1. PICK todo \in {{}, Channels} :
           call' = [call EXCEPT ![d] = [pc |-> "send", at |-> clock, previous |-> rule.last,
                                        todo |-> todo, sent |-> FALSE]]
    BY <1>3 DEF Claim
  <2>2. /\ rule' = [rule EXCEPT !.last = clock] /\ UNCHANGED <<clock, served, lost>>
        /\ rule.last = 0 \/ rule.last < clock - Cooldown
    BY <1>3 DEF Claim, Ready
  <2>3. \A e \in Calls : ~Sending(e)
    BY <2>2 DEF RuleTypes, CallType, RuleHeld
  <2>4. RuleTypes' /\ rule'.last = clock
    BY <2>1, <2>2 DEF RuleTypes, CallType
  <2>5. /\ \A e \in Calls : Sending(e)' <=> e = d
        /\ call'[d] = [pc |-> "send", at |-> clock, previous |-> rule.last, todo |-> todo, sent |-> FALSE]
    BY <2>1, <2>3 DEF RuleTypes, CallType, Sending
  <2>6. rule.last \in {0} \cup served \cup lost /\ \A a \in served : a <= rule.last
    BY <2>3 DEF ServedKnown
  <2>7. clock \notin served
    BY <2>2, <2>6 DEF RuleTypes
  <2>8. RuleHeld'
    BY <2>2, <2>4, <2>5, <2>6, <2>7 DEF RuleHeld, RuleTypes
  <2>9. ServedKnown'
    BY <2>2, <2>4, <2>5, <2>6 DEF ServedKnown, RuleTypes
  <2> QED BY <2>4, <2>8, <2>9
<1>4. ASSUME NEW d \in Calls, Refuse(d) \/ Again(d) PROVE RuleInv'
  <2>1. /\ ~Sending(d) /\ (call' = [call EXCEPT ![d] = Over] \/ call' = [call EXCEPT ![d] = Idle])
        /\ UNCHANGED <<clock, rule, served, lost>>
    BY <1>4 DEF Refuse, Again, Sending
  <2>2. Over \in CallType /\ Idle \in CallType /\ Over.pc = "done" /\ Idle.pc = "idle"
    BY DEF CallType, Over, Idle
  <2>3. RuleTypes' /\ \A e \in Calls : Sending(e)' => call'[e] = call[e] /\ Sending(e)
    BY <2>1, <2>2 DEF RuleTypes, Sending
  <2>4. \A e \in Calls : Sending(e) => Sending(e)'
    BY <2>1, <2>2 DEF RuleTypes, Sending
  <2> QED BY <2>1, <2>3, <2>4 DEF RuleHeld, ServedKnown
<1>5. ASSUME NEW d \in Calls, NEW c \in Channels, Send(d, c) PROVE RuleInv'
  <2>1. /\ Sending(d) /\ call[d].pc = "send"
        /\ call' = [call EXCEPT ![d].todo = @ \ {c}, ![d].sent = TRUE]
        /\ served' = served \cup {call[d].at} /\ UNCHANGED <<clock, rule, lost>>
    BY <1>5 DEF Send, Sending
  <2>2. RuleTypes'
    <3>1. call[d] \in CallType /\ call[d].at \in Nat \ {0}
      BY <2>1 DEF RuleTypes, RuleHeld, CallType
    <3>2. [call[d] EXCEPT !.todo = @ \ {c}, !.sent = TRUE] \in CallType
      BY <3>1 DEF CallType
    <3>3. call' = [call EXCEPT ![d] = [call[d] EXCEPT !.todo = @ \ {c}, !.sent = TRUE]]
      BY <2>1 DEF RuleTypes, CallType
    <3> QED BY <2>1, <3>1, <3>2, <3>3 DEF RuleTypes
  <2>3. \A e \in Calls : Sending(e)' <=> e = d
    BY <2>1 DEF RuleTypes, CallType, RuleHeld, Sending
  <2>4. /\ call'[d].pc = "send" /\ call'[d].at = call[d].at /\ call'[d].previous = call[d].previous
        /\ call'[d].sent = TRUE
    BY <2>1 DEF RuleTypes, CallType
  <2>5. RuleHeld'
    <3>1. /\ rule.last = call[d].at /\ call[d].at > 0 /\ clock - call[d].at <= Cooldown
          /\ call[d].previous = 0 \/ call[d].at - call[d].previous > Cooldown
          /\ call[d].previous \in {0} \cup served' \cup lost
          /\ \A a \in served' : a = call[d].at \/ a <= call[d].previous
          /\ call[d].at \in served'
      BY <2>1 DEF RuleHeld
    <3> QED BY <2>1, <2>3, <2>4, <3>1 DEF RuleHeld
  <2>6. ServedKnown'
    <3>1. \A a \in served : a = call[d].at \/ call[d].at - a > Cooldown
      BY <2>1 DEF RuleHeld, RuleTypes, CallType
    <3>2. \A a \in served' : a <= rule'.last
      BY <2>1 DEF RuleHeld, ServedKnown, RuleTypes, CallType
    <3>3. \A a, b \in served' : a < b => b - a > Cooldown
      BY <2>1, <3>1 DEF RuleHeld, ServedKnown, RuleTypes, CallType
    <3> QED BY <2>3, <3>2, <3>3 DEF ServedKnown
  <2> QED BY <2>2, <2>5, <2>6
<1>6. ASSUME NEW d \in Calls, NEW c \in Channels, SendFails(d, c) PROVE RuleInv'
  <2>1. /\ Sending(d) /\ call' = [call EXCEPT ![d].todo = @ \ {c}]
        /\ UNCHANGED <<clock, rule, served, lost>>
    BY <1>6 DEF SendFails, Sending
  <2> QED BY <2>1 DEF RuleTypes, CallType, RuleHeld, ServedKnown, Sending
<1>7. ASSUME NEW d \in Calls, Notified(d) PROVE RuleInv'
  <2>1. Sending(d) /\ call[d].pc = "send" /\ UNCHANGED <<clock, rule, served, lost>>
    BY <1>7 DEF Notified, Sending
  <2>2. CASE call[d].sent
    <3>1. call' = [call EXCEPT ![d] = Over] /\ Over \in CallType /\ Over.pc = "done"
      BY <1>7, <2>2 DEF Notified, RuleTypes, Over, CallType
    <3>2. RuleTypes' /\ \A e \in Calls : ~Sending(e)'
      BY <2>1, <3>1 DEF RuleTypes, RuleHeld, Sending
    <3> QED BY <2>1, <2>2, <3>2 DEF RuleHeld, ServedKnown
  <2>3. CASE ~call[d].sent
    <3>1. call' = [call EXCEPT ![d].pc = "unclaim"]
      BY <1>7, <2>3 DEF Notified, RuleTypes
    <3> QED BY <2>1, <2>3, <3>1 DEF RuleTypes, CallType, RuleHeld, ServedKnown, Sending
  <2> QED BY <2>2, <2>3
<1>8. ASSUME NEW d \in Calls, Unclaim(d) PROVE RuleInv'
  <2>1. /\ Sending(d) /\ call[d].pc = "unclaim" /\ call' = [call EXCEPT ![d] = Over]
        /\ rule' = [rule EXCEPT !.last = call[d].previous]
        /\ UNCHANGED <<clock, served, lost>>
    BY <1>8 DEF Unclaim, GivenBack, Sending
  <2>2. Over \in CallType /\ Over.pc = "done"
    BY DEF CallType, Over
  <2>3. call[d].previous \in Nat
    BY DEF RuleTypes, CallType
  <2>4. RuleTypes' /\ (\A e \in Calls : ~Sending(e)') /\ rule'.last = call[d].previous
    BY <2>1, <2>2, <2>3 DEF RuleTypes, RuleHeld, Sending
  <2>5. \A a \in served : a <= call[d].previous
    BY <2>1 DEF RuleHeld
  <2> QED BY <2>1, <2>4, <2>5 DEF RuleHeld, ServedKnown
<1>9. ASSUME NEW d \in Calls, AbandonClaim(d) PROVE RuleInv'
  <2>1. /\ Sending(d) /\ (call' = [call EXCEPT ![d] = Over] \/ call' = [call EXCEPT ![d] = Idle])
        /\ lost' = IF call[d].sent THEN lost ELSE lost \cup {call[d].at}
        /\ UNCHANGED <<clock, rule, served>>
    BY <1>9 DEF AbandonClaim, Abandoned, Claimed, Sending
  <2>2. Over \in CallType /\ Idle \in CallType /\ Over.pc = "done" /\ Idle.pc = "idle"
    BY DEF CallType, Over, Idle
  <2>3. RuleTypes' /\ \A e \in Calls : ~Sending(e)'
    BY <2>1, <2>2 DEF RuleTypes, RuleHeld, Sending
  <2> QED BY <2>1, <2>3 DEF RuleHeld, ServedKnown
<1>10. CASE UNCHANGED alertVars
  BY <1>10 DEF alertVars, RuleTypes, RuleHeld, ServedKnown, Sending
<1> QED
  BY <1>1, <1>2, <1>3, <1>4, <1>5, <1>6, <1>7, <1>8, <1>9, <1>10 DEF AlertsNext

\* OnePerCooldown: the cooldown is claimed first, so replicas cannot both send
\* (alerts.go:254-255), and a failed delivery gives it back (256-258, 267-269),
\* for any callers, channels and cooldown, when a delivery ends within the
\* cooldown it claimed.
THEOREM CooldownKept == QuickSends /\ AlertsSpec => []OnePerCooldown
<1> SUFFICES ASSUME QuickSends PROVE AlertsSpec => []OnePerCooldown
  OBVIOUS
<1>1. RuleInv => OnePerCooldown
  BY DEF RuleInv, RuleHeld, ServedKnown, OnePerCooldown, Claimed, Sending
<1>2. RuleInv /\ [AlertsNext]_alertVars => RuleInv'
  BY RuleStep
<1> QED BY RuleInit, <1>1, <1>2, PTL DEF AlertsSpec

-----------------------------------------------------------------------------
(* The counters of a monitor. *)

SenderType == [pc : {"idle", "read"}, r : Runs \cup {"none"}, status : Statuses \cup {"none"},
               config : BOOLEAN, seen : Rows_]
PassType   == [pc : {"idle", "miss", "list", "late", "record"}, seen : Rows_,
               late : SUBSET Runs, alert : {"none", "failed", "recovered"}]

\* The part of MonitorsTypeOK the counters rest on.
MonitorTypes ==
  /\ mon \in Rows_ /\ ideal \in Counters
  /\ sender \in [Senders -> SenderType] /\ pass \in PassType
  /\ told \in {"none", "failed", "recovered"}

\* What a check-in has read under the row's lock is what the row says, nobody
\* else has read it, and no pass is under way.
ReadUnderLock ==
  \A s \in Senders : sender[s].pc = "read" =>
    /\ sender[s].config /\ sender[s].seen.count = mon.count
    /\ \A t \in Senders : sender[t].pc = "read" => t = s
    /\ pass.pc = "idle"

\* What the pass has read is what the row says, and it tells each crossing
\* before it goes on.
PassKnown ==
  /\ pass.pc # "idle" => mon.there
  /\ pass.pc \in {"miss", "record"} => pass.seen.count = mon.count
  /\ pass.alert # "none" =>
       /\ pass.pc \in {"list", "late"}
       /\ mon.count.alerting <=> pass.alert = "failed"

MonitorInv == MonitorTypes /\ (apart => ReadUnderLock /\ PassKnown /\ CountersExact)

\* Recording keeps the counters in their range.
LEMMA RecordType == ASSUME NEW c \in Counters, NEW ok \in BOOLEAN PROVE Record(c, ok) \in Counters
<1>1. /\ c.fails \in 0..CountCap /\ c.succs \in 0..CountCap /\ 0 \in 0..CountCap
      /\ CountCap \in Nat /\ FailureThreshold \in Nat /\ RecoveryThreshold \in Nat
  BY MonitorsAssumption DEF Counters
<1>2. \A n \in 0..CountCap : Up1(n) \in 0..CountCap
  BY <1>1 DEF Up1
<1> DEFINE f == IF ok THEN 0 ELSE Up1(c.fails)
           g == IF ok THEN Up1(c.succs) ELSE 0
           a == IF c.alerting THEN g < RecoveryThreshold ELSE f >= FailureThreshold
<1>3. f \in 0..CountCap /\ g \in 0..CountCap
  BY <1>1, <1>2
<1>4. a \in BOOLEAN
  <2>1. c.alerting \in BOOLEAN /\ (g < RecoveryThreshold) \in BOOLEAN /\ (f >= FailureThreshold) \in BOOLEAN
    BY <1>1, <1>3 DEF Counters
  <2>2. a = (g < RecoveryThreshold) \/ a = (f >= FailureThreshold)
    BY <2>1
  <2> QED BY <2>1, <2>2
<1>5. Record(c, ok) = [fails |-> f, succs |-> g, alerting |-> a]
  BY DEF Record
<1> HIDE DEF f, g, a
<1> QED BY <1>3, <1>4, <1>5 DEF Counters

\* A crossing says where the monitor is now.
LEMMA CrossedSays ==
  ASSUME NEW c \in Counters, NEW d \in Counters
  PROVE  /\ Crossed(c, d) \in {"none", "failed", "recovered"}
         /\ Crossed(c, d) = "none" => d.alerting = c.alerting
         /\ Crossed(c, d) # "none" => (d.alerting <=> Crossed(c, d) = "failed")
  BY DEF Crossed, Counters

LEMMA MonitorInitInv == MonitorsInit => MonitorInv
<1> SUFFICES ASSUME MonitorsInit PROVE MonitorInv
  OBVIOUS
<1>1. Fresh \in Counters /\ NoRowYet \in Rows_
  BY MonitorsAssumption DEF Fresh, NoRowYet, Counters, Rows_
<1>2. MonitorTypes
  BY <1>1 DEF MonitorsInit, MonitorTypes, SenderType, PassType, Resting, Off
<1>3. ReadUnderLock /\ PassKnown /\ CountersExact
  BY DEF MonitorsInit, ReadUnderLock, PassKnown, CountersExact, Resting, Off, NoRowYet, Fresh
<1> QED BY <1>2, <1>3 DEF MonitorInv

\* A failure recorded by the pass over what it has read.
LEMMA WriteKeeps ==
  ASSUME MonitorInv, NEW next \in {"none", "later", "due"}, NEW after \in {"list", "late"},
         WriteFailure(next, after), pass.pc \in {"miss", "record"},
         UNCHANGED <<apart, run, overdue, sender, told>>
  PROVE  MonitorInv'
<1> USE DEF MonitorInv
<1> DEFINE count == Record(pass.seen.count, FALSE)
<1>1. pass.seen.count \in Counters /\ mon.count \in Counters /\ count \in Counters
  BY RecordType DEF MonitorTypes, PassType, Rows_
<1>2. NoRowYet \in Rows_
  BY MonitorsAssumption DEF Fresh, NoRowYet, Counters, Rows_
<1>3. CASE mon.there
  <2>1. /\ mon' = [there |-> TRUE, count |-> count, next |-> next]
        /\ ideal' = Kept(Record(ideal, FALSE), ideal)
        /\ pass' = [pass EXCEPT !.pc = after, !.seen = NoRowYet, !.alert = Crossed(pass.seen.count, count)]
    BY <1>3 DEF WriteFailure
  <2>2. Crossed(pass.seen.count, count) \in {"none", "failed", "recovered"}
    BY <1>1, CrossedSays
  <2>3. mon' \in Rows_
    BY <1>1, <2>1 DEF Rows_
  <2>4. pass' \in PassType /\ pass'.pc = after /\ pass'.alert = Crossed(pass.seen.count, count)
    BY <1>2, <2>1, <2>2 DEF MonitorTypes, PassType
  <2>5. ideal' \in Counters
    BY <2>1, RecordType DEF MonitorTypes, Kept
  <2>6. MonitorTypes'
    BY <2>3, <2>4, <2>5 DEF MonitorTypes
  <2>7. ASSUME apart PROVE (ReadUnderLock /\ PassKnown /\ CountersExact)'
    <3>1. pass.seen.count = mon.count /\ mon.count = ideal /\ mon'.count = count /\ ideal' = count
      BY <2>1, <2>7 DEF PassKnown, CountersExact, Kept
    <3>2. pass.alert = "none"
      BY <2>7 DEF PassKnown, MonitorTypes, PassType
    <3>3. \A s \in Senders : sender'[s].pc # "read"
      BY <2>7 DEF ReadUnderLock
    <3>4. ReadUnderLock' /\ PassKnown'
      <4>1. Crossed(pass.seen.count, count) # "none" =>
               (count.alerting <=> Crossed(pass.seen.count, count) = "failed")
        BY <1>1, CrossedSays
      <4>2. mon'.there
        BY <2>1
      <4> HIDE DEF count
      <4> QED BY <2>4, <3>1, <3>3, <4>1, <4>2 DEF ReadUnderLock, PassKnown
    <3>5. CountersExact'
      <4>1. pass.seen.count.alerting <=> told = "failed"
        BY <2>7, <3>1, <3>2 DEF CountersExact
      <4>2. Crossed(pass.seen.count, count) = "none" => (count.alerting <=> pass.seen.count.alerting)
        BY <1>1, CrossedSays
      <4> QED BY <2>4, <3>1, <4>1, <4>2 DEF CountersExact
    <3> QED BY <3>4, <3>5
  <2> QED BY <2>6, <2>7
<1>4. CASE ~mon.there
  <2>1. UNCHANGED <<mon, ideal>> /\ pass' = [pass EXCEPT !.pc = after, !.seen = NoRowYet]
    BY <1>4 DEF WriteFailure
  <2>2. pass' \in PassType
    BY <1>2, <2>1 DEF MonitorTypes, PassType
  <2>3. ~apart
    BY <1>4 DEF PassKnown
  <2> QED BY <2>1, <2>2, <2>3 DEF MonitorTypes
<1> QED BY <1>3, <1>4

LEMMA MonitorStep == ASSUME MonitorInv, [MonitorsNext]_monitorVars PROVE MonitorInv'
<1> USE DEF MonitorInv
<1>0. /\ NoRowYet \in Rows_ /\ Fresh \in Counters /\ Resting \in SenderType /\ Off \in PassType
      /\ NoRowYet.count = Fresh /\ ~Fresh.alerting /\ Resting.pc = "idle"
      /\ Off.pc = "idle" /\ Off.alert = "none"
  BY MonitorsAssumption DEF Fresh, NoRowYet, Resting, Off, Counters, Rows_, SenderType, PassType
<1>1. ASSUME NEW s \in Senders, BeginCheckIn(s) PROVE MonitorInv'
  <2>1. PICK r \in Runs, status \in Statuses, config \in BOOLEAN :
          /\ apart => config
          /\ NeedsLock(config) => ~Locked
          /\ sender' = [sender EXCEPT ![s] = [pc |-> "read", r |-> r, status |-> status,
                                             config |-> config, seen |-> mon]]
    BY <1>1 DEF BeginCheckIn
  <2>2. UNCHANGED <<apart, mon, ideal, run, overdue, pass, told>> /\ (apart => pass.pc = "idle")
    BY <1>1 DEF BeginCheckIn
  <2>3. MonitorTypes'
    BY <2>1, <2>2 DEF MonitorTypes, SenderType
  <2>4. ASSUME apart PROVE ReadUnderLock'
    <3>1. \A t \in Senders : sender[t].pc # "read"
      BY <2>1, <2>4 DEF ReadUnderLock, NeedsLock, Locked
    <3> QED BY <2>1, <2>2, <2>4, <3>1 DEF MonitorTypes, ReadUnderLock
  <2> QED BY <2>2, <2>3, <2>4 DEF PassKnown, CountersExact
<1>2. ASSUME NEW s \in Senders, CommitCheckIn(s) PROVE MonitorInv'
  <2> DEFINE t == sender[s]
             final == t.status # "in_progress"
             count == Record(t.seen.count, t.status = "ok")
             crossed == Crossed(t.seen.count, count)
  <2>1. /\ t.pc = "read" /\ sender' = [sender EXCEPT ![s] = Resting] /\ UNCHANGED <<apart, pass>>
    BY <1>2 DEF CommitCheckIn
  <2>2. t \in SenderType /\ t.seen.count \in Counters /\ mon.count \in Counters /\ t.config \in BOOLEAN
    BY DEF MonitorTypes, SenderType, Rows_
  <2>3. count \in Counters /\ Record(ideal, t.status = "ok") \in Counters
    BY <2>2, RecordType DEF MonitorTypes
  <2>4. crossed \in {"none", "failed", "recovered"}
    BY <2>2, <2>3, CrossedSays
  <2>5. sender' \in [Senders -> SenderType] /\ (\A u \in Senders : sender'[u].pc = "read" => u # s /\ sender'[u] = sender[u])
    BY <1>0, <2>1 DEF MonitorTypes
  <2>6. CASE final /\ (mon.there \/ t.config)
    <3>1. /\ mon' = [there |-> TRUE, count |-> count, next |-> "later"]
          /\ ideal' = Kept(Record(ideal, t.status = "ok"), ideal)
          /\ told' = Kept(IF crossed = "none" THEN told ELSE crossed, told)
      BY <1>2, <2>6 DEF CommitCheckIn
    <3>2. mon' \in Rows_ /\ mon'.count = count /\ mon'.there
      BY <2>3, <3>1 DEF Rows_
    <3>3. ideal' \in Counters /\ told' \in {"none", "failed", "recovered"}
      BY <2>3, <2>4, <3>1 DEF Kept, MonitorTypes
    <3>4. MonitorTypes'
      BY <2>1, <2>5, <3>2, <3>3 DEF MonitorTypes
    <3>5. ASSUME apart PROVE (ReadUnderLock /\ PassKnown /\ CountersExact)'
      <4>1. /\ t.seen.count = mon.count /\ mon.count = ideal /\ pass.pc = "idle" /\ pass.alert = "none"
            /\ mon.count.alerting <=> told = "failed"
        BY <2>1, <3>5 DEF ReadUnderLock, PassKnown, CountersExact
      <4>2. ReadUnderLock'
        BY <2>1, <2>5, <3>5 DEF ReadUnderLock
      <4>3. PassKnown'
        BY <2>1, <4>1 DEF PassKnown
      <4>4. ideal' = count /\ told' = IF crossed = "none" THEN told ELSE crossed
        BY <3>1, <3>5, <4>1 DEF Kept
      <4>5. crossed = "none" => count.alerting = mon.count.alerting
        BY <2>2, <2>3, <4>1, CrossedSays
      <4>6. crossed # "none" => (count.alerting <=> crossed = "failed")
        BY <2>2, <2>3, CrossedSays
      <4>7. CountersExact'
        BY <3>2, <4>1, <4>4, <4>5, <4>6 DEF CountersExact
      <4> QED BY <4>2, <4>3, <4>7
    <3> QED BY <2>1, <3>4, <3>5
  <2>7. CASE ~(final /\ (mon.there \/ t.config))
    <3>1. mon' = [mon EXCEPT !.there = @ \/ t.config] /\ UNCHANGED <<ideal, told>>
      BY <1>2, <2>7 DEF CommitCheckIn
    <3>2. mon' \in Rows_ /\ mon'.count = mon.count /\ (mon.there => mon'.there)
      BY <2>2, <3>1 DEF Rows_, MonitorTypes
    <3>3. MonitorTypes'
      BY <2>1, <2>5, <3>1, <3>2 DEF MonitorTypes
    <3> QED BY <2>1, <2>5, <3>1, <3>2, <3>3 DEF ReadUnderLock, PassKnown, CountersExact
  <2> QED BY <2>6, <2>7
<1>3. ASSUME NEW s \in Senders, RollBack(s) PROVE MonitorInv'
  <2>1. sender' = [sender EXCEPT ![s] = Resting] /\ UNCHANGED <<apart, mon, ideal, run, overdue, pass, told>>
    BY <1>3 DEF RollBack
  <2>2. MonitorTypes' /\ (\A u \in Senders : sender'[u].pc = "read" => sender'[u] = sender[u])
    BY <1>0, <2>1 DEF MonitorTypes
  <2> QED BY <2>1, <2>2 DEF ReadUnderLock, PassKnown, CountersExact
<1>4. CASE DeleteMonitor
  <2>1. /\ mon' = NoRowYet /\ ideal' = Fresh /\ told' = "none"
        /\ UNCHANGED <<apart, run, overdue, sender, pass>>
        /\ apart => pass.pc = "idle" /\ \A s \in Senders : sender[s].pc = "idle"
    BY <1>4 DEF DeleteMonitor, Busy
  <2>2. MonitorTypes'
    BY <1>0, <2>1 DEF MonitorTypes
  <2> QED BY <1>0, <2>1, <2>2 DEF ReadUnderLock, PassKnown, CountersExact
<1>5. CASE SlotPasses
  <2>1. mon' = [mon EXCEPT !.next = "due"] /\ UNCHANGED <<apart, ideal, run, overdue, sender, pass, told>>
    BY <1>5 DEF SlotPasses
  <2>2. mon' \in Rows_ /\ mon'.count = mon.count /\ mon'.there = mon.there
    BY <2>1 DEF MonitorTypes, Rows_
  <2> QED BY <2>1, <2>2 DEF MonitorTypes, ReadUnderLock, PassKnown, CountersExact
<1>6. CASE StartPass
  <2>1. /\ pass.pc = "idle" /\ mon.there /\ UNCHANGED <<apart, mon, ideal, run, overdue, sender, told>>
        /\ apart => \A s \in Senders : sender[s].pc = "idle"
        /\ \/ pass' = [Off EXCEPT !.pc = "miss", !.seen = mon]
           \/ pass' = [Off EXCEPT !.pc = "list"]
    BY <1>6 DEF StartPass, Busy
  <2>2. /\ pass' \in PassType /\ pass'.alert = "none"
        /\ pass'.pc \in {"miss", "list"} /\ (pass'.pc = "miss" => pass'.seen = mon)
    BY <1>0, <2>1 DEF PassType, MonitorTypes
  <2>3. apart => pass.alert = "none"
    BY <2>1 DEF PassKnown
  <2> QED BY <2>1, <2>2, <2>3 DEF MonitorTypes, ReadUnderLock, PassKnown, CountersExact
<1>7. CASE RecordMiss
  BY <1>7, WriteKeeps DEF RecordMiss
<1>8. CASE TellAlert
  <2>1. /\ pass.alert # "none" /\ told' = Kept(pass.alert, told)
        /\ pass' = [pass EXCEPT !.alert = "none"] /\ UNCHANGED <<apart, mon, ideal, run, overdue, sender>>
    BY <1>8 DEF TellAlert
  <2>2. /\ pass' \in PassType /\ pass'.alert = "none" /\ pass'.pc = pass.pc /\ pass'.seen = pass.seen
        /\ told' \in {"none", "failed", "recovered"}
    BY <2>1 DEF MonitorTypes, PassType, Kept
  <2> QED BY <2>1, <2>2 DEF MonitorTypes, ReadUnderLock, PassKnown, CountersExact, Kept
<1>9. CASE ListTimeouts
  <2>1. /\ pass.pc = "list" /\ pass.alert = "none" /\ UNCHANGED <<apart, mon, ideal, run, overdue, sender, told>>
        /\ pass' = Off \/ \E late \in SUBSET Runs : pass' = [pass EXCEPT !.pc = "late", !.late = late]
    BY <1>9 DEF ListTimeouts
  <2>2. pass' \in PassType /\ pass'.alert = "none" /\ pass'.pc \in {"idle", "late"}
    BY <1>0, <2>1 DEF MonitorTypes, PassType
  <2> QED BY <2>1, <2>2 DEF MonitorTypes, ReadUnderLock, PassKnown, CountersExact
<1>10. ASSUME NEW r \in Runs, MarkTimeout(r) PROVE MonitorInv'
  <2>1. /\ pass.pc = "late" /\ pass.alert = "none" /\ UNCHANGED <<apart, mon, ideal, overdue, sender, told>>
        /\ pass' = IF mon.there
                   THEN [pass EXCEPT !.pc = "record", !.seen = mon, !.late = @ \ {r}]
                   ELSE [pass EXCEPT !.pc = IF pass.late = {r} THEN "idle" ELSE "late", !.late = @ \ {r}]
    BY <1>10 DEF MarkTimeout
  <2>2. CASE mon.there
    <3>1. pass' = [pass EXCEPT !.pc = "record", !.seen = mon, !.late = @ \ {r}]
      BY <2>1, <2>2
    <3>2. pass' \in PassType /\ pass'.alert = "none" /\ pass'.seen = mon
      BY <2>1, <3>1 DEF MonitorTypes, PassType
    <3> QED BY <2>1, <2>2, <3>2 DEF MonitorTypes, ReadUnderLock, PassKnown, CountersExact
  <2>3. CASE ~mon.there
    <3>1. ~apart
      BY <2>1, <2>3 DEF PassKnown
    <3>2. pass' \in PassType
      BY <2>1, <2>3 DEF MonitorTypes, PassType
    <3> QED BY <2>1, <3>1, <3>2 DEF MonitorTypes
  <2> QED BY <2>2, <2>3
<1>11. CASE RecordTimeout
  <2>1. SlotAfterTimeout(pass.seen) \in {"none", "later", "due"}
    BY DEF SlotAfterTimeout, MonitorTypes, PassType, Rows_
  <2> QED BY <1>11, <2>1, WriteKeeps DEF RecordTimeout
<1>12. CASE CutShort
  BY <1>0, <1>12 DEF CutShort, MonitorTypes
<1>13. ASSUME NEW r \in Runs, RuntimePasses(r) PROVE MonitorInv'
  BY <1>13 DEF RuntimePasses, MonitorTypes, ReadUnderLock, PassKnown, CountersExact
<1>14. CASE UNCHANGED monitorVars
  BY <1>14 DEF monitorVars, MonitorTypes, ReadUnderLock, PassKnown, CountersExact
<1> QED
  BY <1>1, <1>2, <1>3, <1>4, <1>5, <1>6, <1>7, <1>8, <1>9, <1>10, <1>11, <1>12, <1>13, <1>14 DEF MonitorsNext

\* CountersExact: ingest and the scheduler agree on what one more failure means
\* (state.go:17-21) and each crossing is told (monitors.go:20-24), for any runs,
\* senders and thresholds, where check-ins lock the row and meet no pass.
THEOREM CountersAgree == MonitorsSpec => []CountersExact
<1>1. MonitorInv => CountersExact
  BY DEF MonitorInv, CountersExact
<1>2. MonitorInv /\ [MonitorsNext]_monitorVars => MonitorInv'
  BY MonitorStep
<1> QED BY MonitorInitInv, <1>1, <1>2, PTL DEF MonitorsSpec

-----------------------------------------------------------------------------
(* Leadership. *)

Guarded == {"locked", "querying", "releasing"}

\* What makes OneLeader inductive: whoever works under a key, or is about to
\* give it up, is the one its lock says.
LockGuards ==
  steady => \A k \in Ticks, i \in Processes : tick[i][k] \in Guarded => leader[k] = i

LeadInv == LeadTypeOK /\ LockGuards

LEMMA LeadInitInv == LeadInit => LeadInv
  BY DEF LeadInit, LeadInv, LeadTypeOK, LockGuards, Working, Guarded

\* A step that leaves the goroutines and the locks alone.
LEMMA OtherStep ==
  ASSUME LockGuards, UNCHANGED <<steady, tick, leader>>
  PROVE  LockGuards'
  BY DEF LockGuards

\* One goroutine moves on; its process is alive before and after.
LEMMA TickTypes ==
  ASSUME LeadTypeOK, NEW i \in Processes, NEW k \in Ticks, Alive(i),
         NEW pc \in {"idle", "asking", "locked", "querying", "releasing"}, Step(i, k, pc), phase' = phase
  PROVE  /\ tick' \in [Processes -> [Ticks -> {"idle", "asking", "locked", "querying", "releasing"}]]
         /\ tick'[i][k] = pc
         /\ \A j \in Processes, u \in Ticks : ~(j = i /\ u = k) => tick'[j][u] = tick[j][u]
         /\ \A j \in Processes : phase'[j] = "ended" => Working(j)' = {}
  BY DEF LeadTypeOK, Step, Working, Alive

\* Only the goroutines of a process that is alive work.
LEMMA WorkerAlive ==
  ASSUME LeadTypeOK, NEW i \in Processes, NEW k \in Ticks, tick[i][k] # "idle"
  PROVE  Alive(i)
  BY DEF LeadTypeOK, Working, Alive

LEMMA TypeStep ==
  ASSUME LeadTypeOK, [LeadNext]_leadVars
  PROVE  LeadTypeOK'
<1> USE DEF LeadTypeOK
<1>1. ASSUME NEW i \in Processes, Signal(i) \/ StopWork(i) \/ StartProcess(i) PROVE LeadTypeOK'
  <2>1. /\ phase' \in [Processes -> {"serving", "draining", "stopping", "ended"}]
        /\ \A j \in Processes : phase'[j] = "ended" => phase[j] = "ended"
        /\ UNCHANGED <<steady, tick, leader, query, request>>
    BY <1>1 DEF Signal, StopWork, StartProcess
  <2> QED BY <2>1 DEF Working
<1>2. ASSUME NEW i \in Processes, Kill(i) PROVE LeadTypeOK'
  <2>1. \A j \in Processes \ {i} : tick'[j] = tick[j] /\ phase'[j] = phase[j]
    BY <1>2 DEF Kill
  <2>2. leader' \in [Ticks -> Processes \cup {NoLeader}]
    BY <1>2 DEF Kill
  <2>3. \A k \in Ticks : tick'[i][k] = "idle"
    BY <1>2 DEF Kill
  <2>4. \A j \in Processes : phase'[j] = "ended" => Working(j)' = {}
    BY <2>1, <2>3 DEF Working
  <2> QED BY <1>2, <2>2, <2>4 DEF Kill
<1>3. ASSUME NEW i \in Processes, Exit(i) PROVE LeadTypeOK'
  BY <1>3 DEF Exit, Working
<1>4. ASSUME NEW i \in Processes, NEW q \in Requests, Accept(i, q) \/ Answer(i, q) PROVE LeadTypeOK'
  <2>1. CASE Accept(i, q)
    <3>1. query' \in [Processes -> SUBSET Works]
      BY <2>1 DEF Accept, Works
    <3>2. request' \in [Processes -> SUBSET Requests]
      BY <2>1 DEF Accept
    <3> QED BY <2>1, <3>1, <3>2 DEF Accept, Working
  <2>2. CASE Answer(i, q)
    <3>1. query' \in [Processes -> SUBSET Works]
      BY <2>2 DEF Answer
    <3>2. request' \in [Processes -> SUBSET Requests]
      BY <2>2 DEF Answer
    <3> QED BY <2>2, <3>1, <3>2 DEF Answer, Working
  <2> QED BY <1>4, <2>1, <2>2
<1>5. ASSUME NEW i \in Processes, NEW k \in Ticks, AskLock(i, k) PROVE LeadTypeOK'
  <2>1. Alive(i)
    BY <1>5 DEF AskLock, Alive
  <2> QED BY <1>5, <2>1, TickTypes DEF AskLock
<1>6. ASSUME NEW i \in Processes, NEW k \in Ticks, TryLock(i, k) PROVE LeadTypeOK'
  <2>1. Alive(i)
    BY <1>6, WorkerAlive DEF TryLock
  <2>2. leader' \in [Ticks -> Processes \cup {NoLeader}]
    BY <1>6 DEF TryLock
  <2>3. /\ \E pc \in {"locked", "idle"} : Step(i, k, pc)
        /\ UNCHANGED <<steady, phase, query, request>>
    BY <1>6 DEF TryLock
  <2> QED BY <2>1, <2>2, <2>3, TickTypes
<1>7. ASSUME NEW i \in Processes, NEW k \in Ticks, RunTick(i, k) \/ EndTick(i, k) PROVE LeadTypeOK'
  <2>1. Alive(i)
    BY <1>7, WorkerAlive DEF RunTick, EndTick
  <2>2. query' \in [Processes -> SUBSET Works] /\ \A j \in Processes \ {i} : query'[j] = query[j]
    BY <1>7 DEF RunTick, EndTick, Works
  <2>3. /\ \E pc \in {"querying", "releasing"} : Step(i, k, pc)
        /\ UNCHANGED <<steady, phase, leader, request>>
    BY <1>7 DEF RunTick, EndTick
  <2> QED BY <2>1, <2>2, <2>3, TickTypes
<1>8. ASSUME NEW i \in Processes, NEW k \in Ticks, Unlock(i, k) PROVE LeadTypeOK'
  <2>1. Alive(i)
    BY <1>8, WorkerAlive DEF Unlock
  <2> QED BY <1>8, <2>1, TickTypes DEF Unlock
<1>9. ASSUME NEW k \in Ticks, LoseLock(k) PROVE LeadTypeOK'
  BY <1>9 DEF LoseLock, Working
<1>10. CASE UNCHANGED leadVars
  BY <1>10 DEF leadVars, Working
<1> QED BY <1>1, <1>2, <1>3, <1>4, <1>5, <1>6, <1>7, <1>8, <1>9, <1>10 DEF LeadNext, TickStep

LEMMA GuardStep ==
  ASSUME LeadInv, [LeadNext]_leadVars
  PROVE  LockGuards'
<1> USE LeadershipAssumption DEF LeadInv, LockGuards, Guarded
<1>1. ASSUME NEW i \in Processes, Kill(i) PROVE LockGuards'
  BY <1>1 DEF Kill, LeadTypeOK
<1>2. ASSUME NEW i \in Processes, NEW k \in Ticks, AskLock(i, k) PROVE LockGuards'
  BY <1>2 DEF AskLock, Step, LeadTypeOK
<1>3. ASSUME NEW i \in Processes, NEW k \in Ticks, TryLock(i, k) PROVE LockGuards'
  <2>1. Alive(i)
    BY <1>3, WorkerAlive DEF TryLock
  <2>2. CASE MayRun(i, k)
    <3>1. steady => \A j \in Processes : tick[j][k] \notin Guarded
      BY <2>2 DEF MayRun
    <3>2. leader' = [leader EXCEPT ![k] = i] /\ Step(i, k, "locked") /\ phase' = phase /\ steady' = steady
      BY <1>3, <2>2 DEF TryLock
    <3>3. \A j \in Processes, u \in Ticks : ~(j = i /\ u = k) => tick'[j][u] = tick[j][u]
      BY <2>1, <3>2, TickTypes
    <3> QED BY <3>1, <3>2, <3>3 DEF LeadTypeOK
  <2>3. CASE ~MayRun(i, k)
    BY <1>3, <2>3 DEF TryLock, Step, LeadTypeOK
  <2> QED BY <2>2, <2>3
<1>4. ASSUME NEW i \in Processes, NEW k \in Ticks, RunTick(i, k) \/ EndTick(i, k) PROVE LockGuards'
  <2>1. /\ tick[i][k] \in Guarded /\ leader' = leader /\ steady' = steady /\ phase' = phase
        /\ \E pc \in {"querying", "releasing"} : Step(i, k, pc)
    BY <1>4 DEF RunTick, EndTick
  <2>2. \A j \in Processes, u \in Ticks : ~(j = i /\ u = k) => tick'[j][u] = tick[j][u]
    BY <2>1, WorkerAlive, TickTypes
  <2> QED BY <2>1, <2>2
<1>5. ASSUME NEW i \in Processes, NEW k \in Ticks, Unlock(i, k) PROVE LockGuards'
  <2>1. /\ tick[i][k] = "releasing" /\ steady' = steady /\ phase' = phase /\ Step(i, k, "idle")
        /\ leader' = [leader EXCEPT ![k] = IF @ = i THEN NoLeader ELSE @]
    BY <1>5 DEF Unlock
  <2>2. /\ tick'[i][k] = "idle"
        /\ \A j \in Processes, u \in Ticks : ~(j = i /\ u = k) => tick'[j][u] = tick[j][u]
    BY <2>1, WorkerAlive, TickTypes
  <2> QED BY <2>1, <2>2 DEF LeadTypeOK
<1>6. ASSUME NEW k \in Ticks, LoseLock(k) PROVE LockGuards'
  BY <1>6 DEF LoseLock
<1>7. ASSUME UNCHANGED <<steady, tick, leader>> PROVE LockGuards'
  BY <1>7, OtherStep
<1> QED
  BY <1>1, <1>2, <1>3, <1>4, <1>5, <1>6, <1>7
  DEF LeadNext, TickStep, Signal, StopWork, Exit, StartProcess, Accept, Answer, leadVars

\* Every variable keeps its type, and nothing runs in a process that ended.
THEOREM LeadTypeCorrect == LeadSpec => []LeadTypeOK
  BY LeadInitInv, TypeStep, PTL DEF LeadSpec, LeadInv

\* Scheduled work runs once per deployment, however many replicas start, crash
\* and shut down, while no session is lost under its work.
THEOREM OneLeaderPerKey == LeadSpec => []OneLeader
<1>1. LeadInv /\ [LeadNext]_leadVars => LeadInv'
  BY TypeStep, GuardStep DEF LeadInv
<1>2. LeadInv => OneLeader
  BY DEF LeadInv, LockGuards, OneLeader, Guarded
<1> QED BY <1>1, <1>2, LeadInitInv, PTL DEF LeadSpec
=============================================================================
