------------------------------- MODULE Clock -------------------------------
(***************************************************************************)
(* The time of day: cmostime() (kernel/lapic.c) reads the registers of a   *)
(* clock chip that goes on counting, through an index port and a data      *)
(* port; unix_uptime() (kernel/time.c) keeps the result in one global      *)
(* rtcdate and converts it.  Of the six registers the three of the date    *)
(* are kept, and a tick of the chip is a day: hours, minutes and seconds   *)
(* are added to the same int.  That int holds seconds modulo 2^32; the     *)
(* model counts them in units of 128, which divide a day and 2^32.         *)
(***************************************************************************)
EXTENDS Integers, Sequences, FiniteSets, SequencesExt

CONSTANTS Cpus,        \* processors that ask for the time
          StartDates,  \* <<day, month, year of the century>>
          MaxTicks,    \* days the chip counts
          Beyond       \* words the memory after mdays[] may hold

VARIABLES rtc,         \* the date the chip stands for
          chip,        \* the chip: [reg |-> registers, bcd, uip |-> updating]
          ticks,       \* days counted so far
          index,       \* register selected by the last outb(CMOS_PORT, ..)
          date,        \* r, the global struct rtcdate of time.c
          cpu          \* per processor: [pc, bcd, t1, t2, from, result]

cvars == <<rtc, chip, ticks, index, date, cpu>>

(* a register of the chip, and the macro CONV                              *)
Coded(n, bcd) == IF bcd THEN (n \div 10) * 16 + (n % 10) ELSE n
Conv(x) == (x \div 16) * 10 + (x % 16)

CENTURY == 2000

-----------------------------------------------------------------------------
(* the calendar: day number of a date since 1970, by 400-year eras         *)
Civil(d, m, y) ==
  LET yy == IF m <= 2 THEN y - 1 ELSE y
      doy == ((153 * ((m + 9) % 12) + 2) \div 5) + d - 1
      yoe == yy % 400
  IN (yy \div 400) * 146097 + yoe * 365 + (yoe \div 4) - (yoe \div 100) + doy - 719468
DayNumber(t) == Civil(t[1], t[2], CENTURY + t[3])

(* the day after t, as the chip counts (external)                          *)
NextDay(t) ==
  LET month == IF t[2] = 12 THEN <<1, 1, t[3] + 1>> ELSE <<1, t[2] + 1, t[3]>>
  IN IF DayNumber(t) + 1 = DayNumber(month) THEN month ELSE [t EXCEPT ![1] = @ + 1]

(* leapyear, mdays and the two loops of unix_converttime                   *)
Leapyear(y) == y % 4 = 0 /\ (y % 100 # 0 \/ y % 400 = 0)
Mdays == <<31, 28, 31, 30, 31, 30, 31, 31, 30, 31, 30, 31>>

Days(d, m, y, beyond) ==
  LET Leaps == {i \in 1970..(y - 1) : Leapyear(i)}
      Length(i) == IF i > 12 THEN beyond ELSE Mdays[i] + IF i = 2 /\ Leapyear(y) THEN 1 ELSE 0
  IN (y - 1970) * 365 + Cardinality(Leaps)
       + FoldLeft(LAMBDA s, i : s + Length(i), 0, [i \in 1..(m - 1) |-> i]) + d - 1

(* days * 86400ULL, cut down to an int                                     *)
DAY == 675
INTRANGE == 2^25
Seconds(days) == ((days * DAY + INTRANGE \div 2) % INTRANGE) - INTRANGE \div 2

-----------------------------------------------------------------------------
Idle == [pc |-> 0, bcd |-> FALSE, t1 |-> <<0, 0, 0>>, t2 |-> <<0, 0, 0>>, from |-> 0, result |-> 0]

ClockInit == /\ rtc \in StartDates
             /\ \E bcd \in BOOLEAN :
                  chip = [reg |-> [i \in 1..3 |-> Coded(rtc[i], bcd)], bcd |-> bcd, uip |-> FALSE]
             /\ ticks = 0
             /\ index = 1
             /\ date = <<0, 0, 0>>
             /\ cpu = [c \in Cpus |-> Idle]

(* the chip (external): it announces an update, then changes its registers *)
(* one after the other                                                     *)
Stale == {i \in 1..3 : chip.reg[i] # Coded(NextDay(rtc)[i], chip.bcd)}
UpdateBegins == /\ ticks < MaxTicks /\ ~chip.uip
                /\ chip' = [chip EXCEPT !.uip = TRUE]
                /\ UNCHANGED <<rtc, ticks, index, date, cpu>>
UpdateRegister == /\ chip.uip
                  /\ \E i \in Stale :
                        /\ \A j \in Stale : i <= j
                        /\ chip' = [chip EXCEPT !.reg[i] = Coded(NextDay(rtc)[i], chip.bcd)]
                  /\ UNCHANGED <<rtc, ticks, index, date, cpu>>
UpdateEnds == /\ chip.uip /\ Stale = {}
              /\ chip' = [chip EXCEPT !.uip = FALSE]
              /\ rtc' = NextDay(rtc)
              /\ ticks' = ticks + 1
              /\ UNCHANGED <<index, date, cpu>>

-----------------------------------------------------------------------------
(* cmostime(): status register B, then rounds of fill_rtcdate(&t1), status *)
(* register A and fill_rtcdate(&t2); each cmos_read selects a register,    *)
(* then fetches it.                                                        *)
STATA == 4
STATB == 5
Regs == <<STATB, 1, 2, 3, STATA, 1, 2, 3>>
RoundStart == 3
Reading(c) == cpu[c].pc \in 1..(2 * Len(Regs))
Nth(c) == (cpu[c].pc + 1) \div 2

Start(c) == /\ cpu[c].pc = 0
            /\ cpu' = [cpu EXCEPT ![c].pc = 1, ![c].from = DayNumber(rtc)]
            /\ UNCHANGED <<rtc, chip, ticks, index, date>>

Select(c) == /\ Reading(c) /\ cpu[c].pc % 2 = 1
             /\ index' = Regs[Nth(c)]
             /\ cpu' = [cpu EXCEPT ![c].pc = @ + 1]
             /\ UNCHANGED <<rtc, chip, ticks, date>>

Same_Trust(a, b) == TRUE
Same(a, b) == a = b

(* what inb(CMOS_RETURN) gives: A carries the UIP bit, B the coding        *)
UIP == 128
BINARY == 4
Value == IF index = STATA THEN (IF chip.uip THEN UIP ELSE 0)
         ELSE IF index = STATB THEN (IF chip.bcd THEN 0 ELSE BINARY)
         ELSE chip.reg[index]
IsBcd(sb) == (sb \div BINARY) % 2 = 0

Fetch(c) ==
  LET n == Nth(c)
      x == [cpu[c] EXCEPT !.bcd = IF n = 1 THEN IsBcd(Value) ELSE @,
                          !.t1 = IF n \in 2..4 THEN [@ EXCEPT ![n - 1] = Value] ELSE @,
                          !.t2 = IF n \in 6..8 THEN [@ EXCEPT ![n - 5] = Value] ELSE @]
      again == (n = 5 /\ Value >= UIP) \/ (n = Len(Regs) /\ ~Same(x.t1, x.t2))
  IN /\ Reading(c) /\ cpu[c].pc % 2 = 0
     /\ cpu' = [cpu EXCEPT ![c] = [x EXCEPT !.pc = IF again THEN RoundStart ELSE @ + 1]]
     /\ UNCHANGED <<rtc, chip, ticks, index, date>>

(* the end of cmostime(), and unix_converttime() of the global r           *)
ReadDone == 2 * Len(Regs) + 1
SetR(c) == /\ cpu[c].pc = ReadDone
           /\ date' = [i \in 1..3 |-> IF cpu[c].bcd THEN Conv(cpu[c].t1[i]) ELSE cpu[c].t1[i]]
           /\ cpu' = [cpu EXCEPT ![c].pc = @ + 1]
           /\ UNCHANGED <<rtc, chip, ticks, index>>
AddCentury(c) == /\ cpu[c].pc = ReadDone + 1
                 /\ date' = [date EXCEPT ![3] = @ + CENTURY]
                 /\ cpu' = [cpu EXCEPT ![c].pc = @ + 1]
                 /\ UNCHANGED <<rtc, chip, ticks, index>>
Uptime(c) == /\ cpu[c].pc = ReadDone + 2
             /\ \E beyond \in Beyond :
                   cpu' = [cpu EXCEPT ![c].pc = @ + 1, ![c].result = Seconds(Days(date[1], date[2], date[3], beyond))]
             /\ UNCHANGED <<rtc, chip, ticks, index, date>>

ClockNext == \/ UpdateBegins \/ UpdateRegister \/ UpdateEnds
             \/ \E c \in Cpus : \/ Start(c) \/ Select(c) \/ Fetch(c)
                                \/ SetR(c) \/ AddCentury(c) \/ Uptime(c)
ClockSpec == ClockInit /\ [][ClockNext]_cvars

-----------------------------------------------------------------------------
(* "get current unix time" (time.c): unix_uptime() returns a time the      *)
(* clock stood for between its call and its return, whatever registers the *)
(* chip changes between two reads, over month ends, leap days and years;   *)
(* from 2038-01-19 03:14:08 on, the time modulo 2^32, as a negative int.   *)
UptimeRight == \A c \in Cpus : cpu[c].pc = ReadDone + 3 =>
  \E n \in cpu[c].from..DayNumber(IF chip.uip THEN NextDay(rtc) ELSE rtc) :
     /\ (cpu[c].result - n * DAY) % INTRANGE = 0
     /\ n * DAY < INTRANGE \div 2 => cpu[c].result = n * DAY
=============================================================================
