-------------------------------- MODULE Rtc ---------------------------------
(***************************************************************************)
(* The virtual real-time clock, devices/rtc.c: the device always runs at   *)
(* RTC_MAX_FREQ, and a read of a descriptor waits until the number of      *)
(* interrupts in that descriptor's file_position have been counted.        *)
(* Besides the periodic interrupt the kernel enables the one at the end of *)
(* each update of the date, which the handler counts as well.              *)
(*                                                                         *)
(* The counter has COUNT_MOD values (2^32 in the source, 97 days).  No     *)
(* read of the model waits while it wraps.                                 *)
(***************************************************************************)
EXTENDS Descriptors

CONSTANTS
  COUNT_MOD,
  INT_MIN,         \* the least int
  Frequencies      \* what programs write to the RTC

ASSUME RtcAssumption ==
  /\ COUNT_MOD \in Nat /\ COUNT_MOD > RTC_MAX_FREQ
  /\ RTC_MAX_FREQ % DEFAULT_RTC_FREQ = 0
  /\ \A f \in 1..RTC_MAX_FREQ : (\E k \in 0..30 : f = 2^k) => RTC_MAX_FREQ % f = 0
  /\ INT_MIN \in Int /\ INT_MIN < -RTC_MAX_FREQ
  /\ Frequencies \subseteq {f \in Int : f >= INT_MIN}

VARIABLES
  global_count,
  entered_count,   \* process -> local of rtc_read
  rtc_fd,          \* process -> descriptor it is reading
  since_update,    \* periods of the device since its last update, at most RTC_MAX_FREQ
  asked,           \* process -> descriptor -> frequency asked for since it was opened (history)
  ticks            \* process -> periods of the device in the read it is making (history)

rtcVars == <<global_count, entered_count, rtc_fd, since_update, asked, ticks>>

RtcInit ==
  /\ global_count = 0
  /\ entered_count = [p \in Procs |-> 0]
  /\ rtc_fd = [p \in Procs |-> FIRST_READABLE_FILE]
  /\ since_update = RTC_MAX_FREQ
  /\ asked = [p \in Procs |-> [fd \in Fds |-> DEFAULT_RTC_FREQ]]
  /\ ticks = [p \in Procs |-> 0]

\* A step of Descriptors: a new descriptor's frequency is the default one.
RtcUnused ==
  /\ asked' = [p \in Procs |-> [fd \in Fds |->
                 IF file'[p][fd].present THEN asked[p][fd] ELSE DEFAULT_RTC_FREQ]]
  /\ UNCHANGED <<global_count, entered_count, rtc_fd, since_update, ticks>>

\* Edits of the definitions below that a mistake could make (see PROJECT.json).
Accepted_AnyRate(freq) == freq # 0 /\ freq <= RTC_MAX_FREQ
WaitOver_SharedCount(p) ==
  \A q \in Procs : pc[q] = "rtc" =>
    entered_count[q] + file[p][rtc_fd[p]].file_position <= global_count

\* freq != 0 && (freq & (freq-1)) == 0 && freq <= RTC_MAX_FREQ: the least
\* int, of one bit like the powers of two, passes as well.
Accepted(freq) ==
  \/ freq \in 1..RTC_MAX_FREQ /\ \E k \in 0..30 : freq = 2^k
  \/ freq = INT_MIN

\* RTC_MAX_FREQ / freq, which C rounds towards zero.
PeriodOf(freq) == IF freq < 0 THEN 0 ELSE RTC_MAX_FREQ \div freq

\* The condition of rtc_read's loop has become false: it reads the period
\* again each time round.
WaitOver(p) ==
  (entered_count[p] + file[p][rtc_fd[p]].file_position) % COUNT_MOD <= global_count

\* The device: a period ends, an update of the date ends, or both at once.
\* Updates are a second apart, RTC_MAX_FREQ periods.
Signals == (SUBSET {"periodic", "update"}) \ {{}}

PeriodsAfter(signals) == IF "periodic" \in signals THEN since_update + 1 ELSE since_update

Device(signals) ==
  /\ "update" \in signals => PeriodsAfter(signals) >= RTC_MAX_FREQ
  /\ since_update' = IF "update" \in signals THEN 0
                     ELSE IF PeriodsAfter(signals) <= RTC_MAX_FREQ THEN PeriodsAfter(signals)
                     ELSE RTC_MAX_FREQ
  /\ ticks' = [p \in Procs |-> IF pc[p] = "rtc" /\ "periodic" \in signals
                               THEN ticks[p] + 1 ELSE ticks[p]]

\* rtc_handler: global_count += 1, whatever the device signals.  The counter of
\* the model does not wrap while a read is waiting; interrupts nobody can
\* observe are left out.
RtcHandler ==
  /\ \E signals \in Signals : Device(signals)
  /\ \E n \in workload.opens \cap Names : Matches(n) # {} /\ ReadDentryByName(n).file_type = FS_TYPE_RTC
  /\ (global_count + 1 < COUNT_MOD) \/ \A p \in Procs : pc[p] # "rtc"
  /\ global_count' = (global_count + 1) % COUNT_MOD
  /\ returned' = <<>>
  /\ UNCHANGED <<fsVars, file, localVars, workload, listed, entered_count, rtc_fd, asked>>

\* rtc_read until it waits.
RtcRead(p, fd) ==
  /\ Calls(p)
  /\ Has(p, fd, "rtc")
  /\ global_count + file[p][fd].file_position < COUNT_MOD
  /\ entered_count' = [entered_count EXCEPT ![p] = global_count]
  /\ rtc_fd' = [rtc_fd EXCEPT ![p] = fd]
  /\ pc' = [pc EXCEPT ![p] = "rtc"]
  /\ returned' = <<>>
  /\ UNCHANGED <<fsVars, file, opening, inode_idx, data_block_idx, new_dentry, workload,
                 listed, global_count, since_update, asked, ticks>>

\* The end of the wait.
RtcReadEnds(p) ==
  /\ pc[p] = "rtc"
  /\ WaitOver(p)
  /\ entered_count' = [entered_count EXCEPT ![p] = 0]
  /\ rtc_fd' = [rtc_fd EXCEPT ![p] = FIRST_READABLE_FILE]
  /\ pc' = [pc EXCEPT ![p] = "user"]
  /\ ticks' = [ticks EXCEPT ![p] = 0]
  /\ returned' = <<>>
  /\ UNCHANGED <<fsVars, file, opening, inode_idx, data_block_idx, new_dentry, workload,
                 listed, global_count, since_update, asked>>

\* rtc_write of a frequency it accepts; any other one changes nothing.
RtcWrite(p, fd, freq) ==
  /\ Calls(p)
  /\ Has(p, fd, "rtc")
  /\ Accepted(freq)
  /\ file' = [file EXCEPT ![p][fd].file_position = PeriodOf(freq)]
  /\ asked' = [asked EXCEPT ![p][fd] = freq]
  /\ returned' = <<>>
  /\ UNCHANGED <<fsVars, localVars, workload, listed, global_count, entered_count, rtc_fd,
                 since_update, ticks>>

RtcStep(p) ==
  \/ RtcReadEnds(p)
  \/ \E fd \in Fds : RtcRead(p, fd) \/ \E freq \in Frequencies : RtcWrite(p, fd, freq)
=============================================================================
