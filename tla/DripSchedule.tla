----------------------------- MODULE DripSchedule -----------------------------
(***************************************************************************)
(* When the nine reminders of a new file are sent (drip.schedule.ts): the  *)
(* grid of ideal times in the borrower's own time zone, and the rules that *)
(* push a reminder forward until none of them applies any more.            *)
(*                                                                         *)
(* An instant is a number of minutes since the start of a Sunday, UTC.     *)
(* Daylight saving is left out: a zone is one offset.                      *)
(***************************************************************************)
EXTENDS Integers, Sequences, FiniteSets

HOUR == 60
DAY  == 24 * HOUR

MIN_GAP             == 2 * HOUR
CONFLICT_WINDOW     == 90
TRANSACTIONAL_SHIFT == 2 * HOUR
QUIET_HOURS_START   == 21
QUIET_HOURS_END     == 8
LATE_SUBMISSION_HOUR  == 16
LATE_SUBMISSION_DELAY == 3 * HOUR

\* (Mutant: a single pass over the rules.)
OneRound   == 1
MAX_ROUNDS == 8

-----------------------------------------------------------------------------
(* Where the borrower lives.  Zones with one offset are one zone here. *)

OFFSET == [Eastern |-> -5 * HOUR, Central |-> -6 * HOUR, Mountain |-> -7 * HOUR,
           Pacific |-> -8 * HOUR, Alaska |-> -9 * HOUR, Hawaii |-> -10 * HOUR]

DEFAULT_TIMEZONE == "Pacific"

STATE_TIMEZONES ==
  [Eastern |-> {"CT", "DC", "DE", "FL", "GA", "IN", "KY", "MA", "MD", "ME",
                "MI", "NC", "NH", "NJ", "NY", "OH", "PA", "RI", "SC", "VA",
                "VT", "WV"},
   Central |-> {"AL", "AR", "IA", "IL", "KS", "LA", "MN", "MO", "MS", "ND",
                "NE", "OK", "SD", "TN", "TX", "WI"},
   Mountain |-> {"AZ", "CO", "ID", "MT", "NM", "UT", "WY"},
   Pacific |-> {"CA", "NV", "OR", "WA"},
   Alaska |-> {"AK"}, Hawaii |-> {"HI"}]

ZIP_PREFIX_TIMEZONES ==
  [Eastern |-> {373, 374, 377, 378, 379},
   Central |-> {324, 325, 3234, 498, 499, 463, 464} \cup 420..427,
   Mountain |-> {798, 799, 885, 677, 679, 691, 693, 576, 577, 586, 588, 979,
                 865, 864},
   Pacific |-> {838}]

\* The Indiana counties around Vincennes keep Eastern time all the same.
VINCENNES == {473, 476, 477}

Prefix(zip, length) == zip \div 10^(5 - length)

ZoneOfPrefix(prefix) ==
  {z \in DOMAIN ZIP_PREFIX_TIMEZONES : prefix \in ZIP_PREFIX_TIMEZONES[z]}
    \cup {z \in {"Eastern"} : prefix \in VINCENNES}

\* The state's zone, or the default.
ZoneOfState(state, zip) ==
  LET zones == {z \in DOMAIN STATE_TIMEZONES : state \in STATE_TIMEZONES[z]}
  IN  IF zones = {} THEN DEFAULT_TIMEZONE ELSE CHOOSE z \in zones : TRUE

\* The longest ZIP prefix that has an entry decides, then the state.
resolveTimezone(state, zip) ==
  LET known == {n \in 3..5 : ZoneOfPrefix(Prefix(zip, n)) # {}}
      longest == CHOOSE n \in known : \A m \in known : m <= n
  IN  IF known = {} THEN ZoneOfState(state, zip)
      ELSE CHOOSE z \in ZoneOfPrefix(Prefix(zip, longest)) : TRUE

-----------------------------------------------------------------------------
(* The grid *)

Slot(sequence, step, day, minute, final) ==
  [sequence |-> sequence, step |-> step, day |-> day, minute |-> minute,
   final |-> final]

\* No minute of the day: "day 0 immediate".
SPECIAL == -1

IDEAL_SLOTS ==
  << Slot("call_in", 1, 1, 10 * HOUR, FALSE),
     Slot("call_in", 2, 2, 10 * HOUR, FALSE),
     Slot("call_in", 3, 3, 10 * HOUR, TRUE),
     Slot("bank_verification", 1, 0, SPECIAL, FALSE),
     Slot("bank_verification", 2, 1, 14 * HOUR + 30, FALSE),
     Slot("bank_verification", 3, 1, 18 * HOUR, FALSE),
     Slot("bank_verification", 4, 2, 14 * HOUR + 30, FALSE),
     Slot("bank_verification", 5, 2, 18 * HOUR, FALSE),
     Slot("bank_verification", 6, 3, 14 * HOUR + 30, TRUE) >>

\* The wall clock of a zone.
Local(t, zone)    == t + OFFSET[zone]
Midnight(t, zone) == t - (Local(t, zone) % DAY)
LocalHour(t, zone) == (Local(t, zone) % DAY) \div HOUR
OnSunday(t, zone) == (Local(t, zone) \div DAY) % 7 = 0

atLocalTime(t, zone, day, minute) == Midnight(t, zone) + day * DAY + minute

IdealTime(slot, submitted, zone) ==
  IF slot.minute # SPECIAL
  THEN atLocalTime(submitted, zone, slot.day, slot.minute)
  ELSE IF LocalHour(submitted, zone) >= LATE_SUBMISSION_HOUR
  THEN submitted + LATE_SUBMISSION_DELAY
  ELSE atLocalTime(submitted, zone, 0, 18 * HOUR)

-----------------------------------------------------------------------------
(* The rules for one reminder, in their order *)

inQuietHours(t, zone) == \/ LocalHour(t, zone) >= QUIET_HOURS_START
                         \/ LocalHour(t, zone) < QUIET_HOURS_END

applyQuietHours(t, zone) ==
  IF LocalHour(t, zone) < QUIET_HOURS_END
  THEN atLocalTime(t, zone, 0, QUIET_HOURS_END * HOUR)
  ELSE IF LocalHour(t, zone) >= QUIET_HOURS_START
  THEN atLocalTime(t, zone, 1, QUIET_HOURS_END * HOUR)
  ELSE t

ShiftFinalOffSunday(send, zone) ==
  IF send.final /\ OnSunday(send.at, zone) THEN send.at + DAY ELSE send.at

conflictsWithTransactional(t, transactional) ==
  \E s \in transactional : /\ s - t <= CONFLICT_WINDOW
                           /\ t - s <= CONFLICT_WINDOW

Adjust(send, zone, transactional) ==
  LET t == applyQuietHours(ShiftFinalOffSunday(send, zone), zone)
  IN  [send EXCEPT !.at = IF conflictsWithTransactional(t, transactional)
                          THEN t + TRANSACTIONAL_SHIFT ELSE t]

-----------------------------------------------------------------------------
(* The rule between reminders, and the rounds *)

\* By time; the sort is stable.
NotAfter(sends, i) ==
  {j \in DOMAIN sends : \/ sends[j].at < sends[i].at
                        \/ sends[j].at = sends[i].at /\ j <= i}

Rank(sends, i) == Cardinality(NotAfter(sends, i))

Sorted(sends) ==
  [k \in DOMAIN sends |-> sends[CHOOSE i \in DOMAIN sends : Rank(sends, i) = k]]

\* Each reminder's time, two hours after the one before it at least.
SpreadTimes(sends) ==
  LET time[k \in DOMAIN sends] ==
        IF k > 1 /\ sends[k].at - time[k - 1] < MIN_GAP
        THEN time[k - 1] + MIN_GAP ELSE sends[k].at
  IN  time

Spread(sends) ==
  LET time == SpreadTimes(sends)
  IN  [k \in DOMAIN sends |-> [sends[k] EXCEPT !.at = time[k]]]

Round(sends, zone, transactional) ==
  Spread(Sorted([k \in DOMAIN sends |-> Adjust(sends[k], zone, transactional)]))

\* Every rule only moves a reminder forward, so the round that changes nothing,
\* where the code stops, is the round after which nothing changes.
Rounds(ideal, zone, transactional) ==
  LET after[n \in 0..MAX_ROUNDS] ==
        IF n = 0 THEN ideal ELSE Round(after[n - 1], zone, transactional)
  IN  after

Ideal(submitted, zone) ==
  [k \in DOMAIN IDEAL_SLOTS |->
     [sequence |-> IDEAL_SLOTS[k].sequence,
      step |-> IDEAL_SLOTS[k].step, final |-> IDEAL_SLOTS[k].final,
      at |-> IdealTime(IDEAL_SLOTS[k], submitted, zone)]]

buildDripSchedule(submitted, zone, transactional) ==
  Sorted(Rounds(Ideal(submitted, zone), zone, transactional)[MAX_ROUNDS])

-----------------------------------------------------------------------------
(* What is asked of a plan *)

\* No two reminders are closer than two hours.
WellSpaced(plan) ==
  \A k \in 2..Len(plan) : plan[k].at - plan[k - 1].at >= MIN_GAP

\* Nobody is written to at night.
LeavesTheNightAlone(plan, zone) ==
  \A k \in DOMAIN plan : ~inQuietHours(plan[k].at, zone)

\* The last reminder of a sequence is not for a Sunday.
FinalsOffSunday(plan, zone) ==
  \A k \in DOMAIN plan : plan[k].final => ~OnSunday(plan[k].at, zone)

\* No reminder lands on top of a mail the borrower gets anyway.
ClearOf(plan, transactional) ==
  \A k \in DOMAIN plan : ~conflictsWithTransactional(plan[k].at, transactional)

\* The reminders of a sequence come in the order of their numbers.
InStepOrder(plan) ==
  \A j, k \in DOMAIN plan : /\ plan[j].sequence = plan[k].sequence
                            /\ plan[j].step < plan[k].step
                            => j < k
=============================================================================
