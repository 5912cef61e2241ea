------------------------------ MODULE Devices ------------------------------
(***************************************************************************)
(* The kernel's console output and its small devices: the console lock       *)
(* (lib/kernel/console.c), the VGA text screen (devices/vga.c), the PC        *)
(* speaker (speaker.c), the timer and its calibration (timer.c), the          *)
(* interval timer's counter (pit.c) and the real-time clock (rtc.c).          *)
(***************************************************************************)
EXTENDS Integers, Sequences, FiniteSets, SequencesExt

CONSTANTS Printers,     \* threads that print
          NoPrinter,
          MsgLen,       \* characters of a message
          MaxMsgs,      \* messages that a thread prints
          Cols, Rows,   \* COL_CNT, ROW_CNT
          Tab,          \* columns of a tab stop
          MaxText,      \* characters put on the screen
          Sleeps,       \* arguments of timer_sleep()
          MaxTicks,     \* bound on the timer
          ClockRadix,   \* values of the clock's seconds, minutes and hours
          MaxBeats      \* updates of the clock during one attempt to read it

BeatBound == MaxBeats < ClockRadix

---------------------------------------------------------------------------
(* console.c.  A frame is one call of vprintf(), puts() or putbuf(): who
   prints, in which context, how much is out.  A thread may print again in the
   middle of a message: the recursion that the depth counter is for. *)
VARIABLES conHolder,    \* console_lock's holder
          conDepth,     \* console_lock_depth
          useLock,      \* use_console_lock
          frames,       \* thread -> its stack of frames, innermost first
          conOut,       \* history: the characters written, [who, kind, msg]
          msgs          \* thread -> messages it has begun

consoleVars == <<conHolder, conDepth, useLock, frames, conOut, msgs>>

PrintInit ==
  /\ conHolder = NoPrinter /\ conDepth = 0 /\ useLock = TRUE
  /\ frames = [t \in Printers |-> <<>>] /\ conOut = <<>> /\ msgs = [t \in Printers |-> 0]

Frame(n) == [msg |-> n, out |-> 0]
(* acquire_console() in a thread: the lock, or one level more. *)
AcquireConsoleFlat(t) == conHolder \in {NoPrinter, t} /\ conHolder' = t /\ UNCHANGED conDepth
AcquireConsole(t) ==
  IF conHolder = t THEN conDepth' = conDepth + 1 /\ UNCHANGED conHolder
  ELSE conHolder = NoPrinter /\ conHolder' = t /\ UNCHANGED conDepth
ReleaseConsole(t) ==
  IF conDepth > 0 THEN conDepth' = conDepth - 1 /\ UNCHANGED conHolder
  ELSE conHolder' = NoPrinter /\ UNCHANGED conDepth

BeginPrint(t) ==
  /\ useLock /\ msgs[t] < MaxMsgs /\ Len(frames[t]) < 2
  /\ AcquireConsole(t)
  /\ msgs' = [msgs EXCEPT ![t] = @ + 1]
  /\ frames' = [frames EXCEPT ![t] = <<Frame(msgs[t] + 1)>> \o @]
  /\ UNCHANGED <<useLock, conOut>>

(* putchar_have_lock() *)
PutChar(t) ==
  /\ useLock /\ frames[t] # <<>> /\ Head(frames[t]).out < MsgLen
  /\ frames' = [frames EXCEPT ![t][1].out = @ + 1]
  /\ conOut' = Append(conOut, [who |-> t, kind |-> "thread", msg |-> Head(frames[t]).msg])
  /\ UNCHANGED <<conHolder, conDepth, useLock, msgs>>

EndPrint(t) ==
  /\ useLock /\ frames[t] # <<>> /\ Head(frames[t]).out = MsgLen
  /\ ReleaseConsole(t)
  /\ frames' = [frames EXCEPT ![t] = Tail(@)]
  /\ UNCHANGED <<useLock, conOut, msgs>>

(* An interrupt handler prints a character; a panic prints without the lock,
   with interrupts off, and nothing else runs any more. *)
IntrPrint(t) ==
  /\ useLock /\ \A i \in 1..Len(conOut) : conOut[i].kind # "intr"
  /\ conOut' = Append(conOut, [who |-> t, kind |-> "intr", msg |-> 0])
  /\ UNCHANGED <<conHolder, conDepth, useLock, frames, msgs>>

ConsolePanic(t) ==
  /\ useLock /\ useLock' = FALSE
  /\ conOut' = Append(conOut, [who |-> t, kind |-> "panic", msg |-> 0])
  /\ UNCHANGED <<conHolder, conDepth, frames, msgs>>

PrintNext == \E t \in Printers : \/ BeginPrint(t) \/ PutChar(t) \/ EndPrint(t)
                                 \/ IntrPrint(t) \/ ConsolePanic(t)
PrintSpec == PrintInit /\ [][PrintNext]_consoleVars

(* Threads' messages are never mixed: between two characters of a message
   there are only characters of the same thread and of interrupt handlers;
   and the lock is free, at depth 0, exactly when no thread prints. *)
ConsoleWhole ==
  /\ \A i, k \in 1..Len(conOut) :
       i < k /\ conOut[i].kind = "thread" /\ conOut[k] = conOut[i] =>
         \A j \in i..k : conOut[j].kind = "thread" => conOut[j].who = conOut[i].who
  /\ \A t \in Printers : (frames[t] # <<>>) = (conHolder = t)
  /\ conDepth = IF conHolder = NoPrinter THEN 0 ELSE Len(frames[conHolder]) - 1

---------------------------------------------------------------------------
(* vga.c.  A character is "x" or "y" or a control character; " " is blank. *)
VARIABLES fb,           \* the framebuffer: row -> column -> character
          cx, cy,
          hwCursor,     \* the position in the hardware
          typed         \* history: the characters since the last form feed

screenVars == <<fb, cx, cy, hwCursor, typed>>

BlankRow == [x \in 0..(Cols - 1) |-> " "]
Cls == [y \in 0..(Rows - 1) |-> BlankRow]

(* Mutant: the bottom row keeps its characters. *)
ScrollNoClear(screen) == [y \in 0..(Rows - 1) |-> IF y = Rows - 1 THEN screen[y] ELSE screen[y + 1]]

Scroll(screen) == [y \in 0..(Rows - 1) |-> IF y = Rows - 1 THEN BlankRow ELSE screen[y + 1]]

(* newline(), on a screen: [fb, cx, cy]. *)
Newline(s) ==
  IF s.cy + 1 >= Rows THEN [fb |-> Scroll(s.fb), cx |-> 0, cy |-> Rows - 1]
  ELSE [s EXCEPT !.cx = 0, !.cy = @ + 1]
RoundUp(n, k) == ((n + k - 1) \div k) * k
Wrapped(s) == IF s.cx >= Cols THEN Newline(s) ELSE s
Put(s, c) ==
  CASE c = "nl" -> Newline(s)
    [] c = "ff" -> [fb |-> Cls, cx |-> 0, cy |-> 0]
    [] c = "bs" -> [s EXCEPT !.cx = IF @ > 0 THEN @ - 1 ELSE @]
    [] c = "cr" -> [s EXCEPT !.cx = 0]
    [] c = "ht" -> Wrapped([s EXCEPT !.cx = RoundUp(@ + 1, Tab)])
    [] OTHER -> Wrapped([s EXCEPT !.fb[s.cy][s.cx] = c, !.cx = @ + 1])

MoveCursor(x, y) == x + Cols * y
FindCursor(cp) == <<cp % Cols, cp \div Cols>>

(* init(): the cursor is where the BIOS left it. *)
ScreenInit ==
  /\ fb = Cls /\ hwCursor = 0 /\ typed = <<>>
  /\ cx = FindCursor(hwCursor)[1] /\ cy = FindCursor(hwCursor)[2]

VgaPutc(c) ==
  LET s == Put([fb |-> fb, cx |-> cx, cy |-> cy], c)
  IN /\ Len(typed) < MaxText
     /\ fb' = s.fb /\ cx' = s.cx /\ cy' = s.cy
     /\ hwCursor' = MoveCursor(s.cx, s.cy)
     /\ typed' = IF c = "ff" THEN <<>> ELSE Append(typed, c)

ScreenNext == \E c \in {"x", "y", "nl", "ff", "bs", "cr", "ht"} : VgaPutc(c)

(* The rows of a text of plain characters and newlines, wrapped at Cols. *)
TextRows(text) ==
  FoldLeft(LAMBDA rows, c :
             LET n == Len(rows)
             IN IF c = "nl" THEN Append(rows, <<>>)
                ELSE LET row == Append(rows[n], c)
                     IN IF Len(row) = Cols THEN Append([rows EXCEPT ![n] = row], <<>>)
                        ELSE [rows EXCEPT ![n] = row],
           << <<>> >>, text)

(* The cursor stays on the screen, the hardware's with it; and after plain
   text the screen shows its last rows (vga_putc(), newline()). *)
ScreenShows ==
  /\ cx \in 0..(Cols - 1) /\ cy \in 0..(Rows - 1) /\ FindCursor(hwCursor) = <<cx, cy>>
  /\ ToSet(typed) \subseteq {"x", "y", "nl"} =>
       LET rows == TextRows(typed)
           first == IF Len(rows) > Rows THEN Len(rows) - Rows ELSE 0
       IN \A y \in 0..(Rows - 1), x \in 0..(Cols - 1) :
            fb[y][x] = IF first + y + 1 <= Len(rows) /\ x + 1 <= Len(rows[first + y + 1])
                       THEN rows[first + y + 1][x + 1] ELSE " "

---------------------------------------------------------------------------
(* timer.c and speaker.c: threads sleep for some ticks, or beep, which is
   the speaker's gate open during a sleep. *)
VARIABLES ticks,
          sleeper,      \* thread -> [at, start, for]
          gate          \* SPEAKER_GATE_ENABLE

timerVars == <<ticks, sleeper, gate>>

Awake == [at |-> "awake", start |-> 0, for |-> 0]
TimerInit == ticks = 0 /\ sleeper = [t \in Printers |-> Awake] /\ gate = FALSE

TimerInterrupt == ticks < MaxTicks /\ ticks' = ticks + 1 /\ UNCHANGED <<sleeper, gate>>

(* timer_ticks() with interrupts off; timer_elapsed() < ticks is tested again
   after every thread_yield(). *)
Elapsed(t) == ticks - sleeper[t].start
TimerSleep(t, n) ==
  /\ sleeper[t].at = "awake"
  /\ sleeper' = [sleeper EXCEPT ![t] = [at |-> "sleep", start |-> ticks, for |-> n]]
  /\ UNCHANGED <<ticks, gate>>

SleepOverEarly(t) == Elapsed(t) + 1 >= sleeper[t].for
SleepOver(t) == Elapsed(t) >= sleeper[t].for
SleepReturns(t) ==
  /\ sleeper[t].at = "sleep" /\ SleepOver(t)
  /\ sleeper' = [sleeper EXCEPT ![t].at = "slept"]
  /\ UNCHANGED <<ticks, gate>>

SpeakerBeep(t, n) ==
  /\ sleeper[t].at = "awake" /\ gate' = TRUE
  /\ sleeper' = [sleeper EXCEPT ![t] = [at |-> "beep", start |-> ticks, for |-> n]]
  /\ UNCHANGED ticks

SpeakerOff(t) ==
  /\ sleeper[t].at = "beep" /\ SleepOver(t)
  /\ gate' = FALSE
  /\ sleeper' = [sleeper EXCEPT ![t].at = "slept"]
  /\ UNCHANGED ticks

WakeUp(t) ==
  /\ sleeper[t].at = "slept" /\ sleeper' = [sleeper EXCEPT ![t] = Awake]
  /\ UNCHANGED <<ticks, gate>>

TimerNext ==
  \/ TimerInterrupt
  \/ \E t \in Printers : \/ \E n \in Sleeps : TimerSleep(t, n) \/ SpeakerBeep(t, n)
                         \/ SleepReturns(t) \/ SpeakerOff(t) \/ WakeUp(t)
TimerSpec == TimerInit /\ [][TimerNext]_timerVars

(* Who has slept has slept long enough; and the speaker is off once nobody
   beeps, however the beeps overlap. *)
SleepsRight ==
  /\ \A t \in Printers : sleeper[t].at = "slept" => Elapsed(t) >= sleeper[t].for
  /\ gate => \E t \in Printers : sleeper[t].at = "beep"

---------------------------------------------------------------------------
(* timer_calibrate() with a 2^8 unsigned, a first guess of 2^2 and 3 more
   bits, on a machine that runs `speed' loops in a tick; real_time_sleep();
   pit_configure_channel()'s counter with its real values. *)
UWidth == 256
TooManyLoops(loops, speed) == loops > speed
Doubled[loops \in 0..(UWidth - 1), speed \in 0..(UWidth - 1)] ==
  IF TooManyLoops((loops * 2) % UWidth, speed) \/ loops = 0 THEN loops
  ELSE Doubled[(loops * 2) % UWidth, speed]
TimerCalibrate(speed) ==
  LET high == Doubled[4, speed]
      refine == [i \in 1..3 |-> high \div 2 ^ i]
  IN FoldLeft(LAMBDA loops, bit : IF TooManyLoops(loops + bit, speed) THEN loops ELSE loops + bit,
              high, refine)

RealTimeTicks(num, denom, freq) == (num * freq) \div denom
RealTimeDelay(loops, num, denom, freq) ==
  (((loops * num) \div 1000) * freq) \div (denom \div 1000)

PIT_HZ == 1193180
PitCountDown(frequency) ==
  CASE frequency < 19 -> 0 [] frequency > PIT_HZ -> 2 [] OTHER -> PIT_HZ \div frequency
PitCount(frequency) ==
  CASE frequency < 19 -> 0
    [] frequency > PIT_HZ -> 2
    [] OTHER -> (PIT_HZ + frequency \div 2) \div frequency
(* rtc_get_time()'s arithmetic, in days, on a date whose year counts from
   1900 without its century.  The month's own days are added too, and the
   leap years are not those of the calendar, so the sum is not the number of
   days since the epoch that the comment of rtc_get_time() promises: it is
   about a month ahead, and falls where a month is shorter than the one before. *)
BcdToBin(x) == (x % 16) + 10 * (x \div 16)
DaysPerMonth == <<31, 28, 31, 30, 31, 30, 31, 31, 30, 31, 30, 31>>
MonthDays(n) == FoldLeft(LAMBDA a, b : a + b, 0, SubSeq(DaysPerMonth, 1, n))
RtcYear(year) == (IF year < 70 THEN year + 100 ELSE year) - 70
RtcDays(year, mon, mday) ==
  LET y == RtcYear(year)
  IN y * 365 + (IF y = 0 THEN 0 ELSE (y - 1) \div 4) + MonthDays(mon)
       + (IF mon > 2 /\ y % 4 = 0 THEN 1 ELSE 0) + mday - 1
Bcd(n) == 16 * (n \div 10) + (n % 10)       \* how the clock holds a number

VARIABLE timing         \* history: what was computed, <<>> at first
TimingInit == timing = <<>>
Calibrate(speed) == timing = <<>> /\ timing' = [kind |-> "calibrate", speed |-> speed, got |-> TimerCalibrate(speed)]
RealTimeSleep(num, denom, freq, loops) ==
  /\ timing = <<>>
  /\ timing' = [kind |-> "sleep", num |-> num, denom |-> denom, freq |-> freq, loops |-> loops,
                ticks |-> RealTimeTicks(num, denom, freq),
                delay |-> IF RealTimeTicks(num, denom, freq) > 0 THEN 0
                          ELSE RealTimeDelay(loops, num, denom, freq)]
ConfigureChannel(frequency) ==
  timing = <<>> /\ timing' = [kind |-> "pit", freq |-> frequency, got |-> PitCount(frequency)]
RtcGetTime(year, mon, mday) ==
  LET read(day) == RtcDays(BcdToBin(Bcd(year)), BcdToBin(Bcd(mon)), BcdToBin(Bcd(day)))
  IN /\ timing = <<>>
     /\ timing' = [kind |-> "rtc", day |-> mday, got |-> read(mday), first |-> read(1)]

TimingNext ==
  \/ \E year \in {10, 24, 70, 71, 73, 99}, mon \in 1..12, mday \in {9, 10, 28} :
       RtcGetTime(year, mon, mday)
  \/ \E speed \in 4..127 : Calibrate(speed)
  \/ \E num \in {0, 1, 9, 10, 11, 250, 999}, denom \in {1000, 1000000}, freq \in {19, 100, 1000},
        loops \in {1024, 1500} : RealTimeSleep(num, denom, freq, loops)
  \/ \E frequency \in {19, 20, 100, 440, 1000, 20000} : ConfigureChannel(frequency)

(* Calibration keeps within an eighth below the machine's speed, a sleep is
   never longer than asked and shorter by less than a tick, a delay loses
   less than one unit of its rounding, and the counter fits 16 bits and is the
   nearest to the frequency that was asked for.  Two dates of one month are as
   many days apart as the real-time clock says. *)
TimingRight ==
  /\ (timing # <<>> /\ timing.kind = "rtc") => timing.got - timing.first = timing.day - 1
  /\ (timing # <<>> /\ timing.kind = "calibrate") =>
       /\ timing.got <= timing.speed
       /\ (timing.speed - timing.got) * 8 <= timing.speed
  /\ (timing # <<>> /\ timing.kind = "sleep") =>
       /\ timing.ticks * timing.denom <= timing.num * timing.freq
       /\ (timing.ticks + 1) * timing.denom > timing.num * timing.freq
       /\ timing.ticks = 0 =>
            LET units == timing.denom \div 1000
                exact == timing.loops * timing.num * timing.freq
            IN /\ timing.delay * units * 1000 <= exact
               /\ exact - timing.delay * units * 1000 < 1000 * (timing.freq + units)
  /\ (timing # <<>> /\ timing.kind = "pit") =>
       /\ timing.got \in 2..65535
       /\ 2 * timing.got * timing.freq <= 2 * PIT_HZ + timing.freq
       /\ 2 * timing.got * timing.freq >= 2 * PIT_HZ - timing.freq

---------------------------------------------------------------------------
(* rtc.c: the components are read one after the other, seconds first, while
   the clock runs, and again if the seconds have changed. *)
VARIABLES rtcClock,     \* the clock: [sec, min, hour]
          rtcRead,      \* [at, sec, min, hour, beats]
          rtcSeen       \* history: the clock's values during the attempt

rtcVars == <<rtcClock, rtcRead, rtcSeen>>

RtcInit ==
  /\ rtcClock = [sec |-> 0, min |-> ClockRadix - 1, hour |-> 0]
  /\ rtcRead = [at |-> "sec", sec |-> 0, min |-> 0, hour |-> 0, beats |-> 0]
  /\ rtcSeen = {}

Beat(c) ==
  IF c.sec + 1 < ClockRadix THEN [c EXCEPT !.sec = @ + 1]
  ELSE IF c.min + 1 < ClockRadix THEN [c EXCEPT !.sec = 0, !.min = @ + 1]
  ELSE [c EXCEPT !.sec = 0, !.min = 0, !.hour = (@ + 1) % ClockRadix]

RtcUpdate ==
  /\ rtcRead.beats < MaxBeats /\ rtcRead.at # "done"
  /\ rtcClock' = Beat(rtcClock)
  /\ rtcRead' = [rtcRead EXCEPT !.beats = @ + 1]
  /\ rtcSeen' = rtcSeen \cup {rtcClock'}

RtcReads(field, next) ==
  /\ rtcRead.at = field
  /\ rtcRead' = [rtcRead EXCEPT ![field] = rtcClock[field], !.at = next,
                                !.beats = IF field = "sec" THEN 0 ELSE @]
  /\ rtcSeen' = IF field = "sec" THEN {rtcClock} ELSE rtcSeen
  /\ UNCHANGED rtcClock

RtcStableNot == rtcRead.min = rtcClock.min
RtcStable == rtcRead.sec = rtcClock.sec
RtcCheck ==
  /\ rtcRead.at = "check"
  /\ rtcRead' = [rtcRead EXCEPT !.at = IF RtcStable THEN "done" ELSE "sec"]
  /\ UNCHANGED <<rtcClock, rtcSeen>>

RtcNext == \/ RtcUpdate \/ RtcReads("sec", "min") \/ RtcReads("min", "hour")
           \/ RtcReads("hour", "check") \/ RtcCheck
RtcSpec == RtcInit /\ [][RtcNext]_rtcVars

(* The time that rtc_get_time() goes on with is one that the clock showed
   while it was read, never parts of two. *)
RtcSnapshot ==
  rtcRead.at = "done" =>
    [sec |-> rtcRead.sec, min |-> rtcRead.min, hour |-> rtcRead.hour] \in rtcSeen
=============================================================================
