------------------------------- MODULE Termios ------------------------------
(***************************************************************************)
(* reconfigurePort of the serial library (unix.cc:159-452): how the        *)
(* settings of a port become the options of its device.  The options are   *)
(* read from the device, changed and written back, so what the code does   *)
(* not touch stays as an earlier user of the device has left it.           *)
(***************************************************************************)
EXTENDS Integers, FiniteSets

(* The cases of switch (baudrate_) that Linux has a constant for. *)
StandardBauds == {0, 50, 75, 110, 134, 150, 200, 300, 600, 1200, 1800, 2400, 4800, 9600,
    19200, 38400, 57600, 115200, 230400, 460800, 576000, 921600, 1000000, 1152000,
    1500000, 2000000, 2500000, 3000000, 3500000, 4000000}

(* The flags whose bits the driver interprets the bytes by: all are cleared. *)
Raw == {"ICANON", "ECHO", "ECHOE", "ECHOK", "ECHONL", "ISIG", "IEXTEN", "OPOST",
        "INLCR", "IGNCR", "ICRNL", "IGNBRK", "IUCLC", "PARMRK"}

SetRaw(flags) == (flags \cup {"CLOCAL", "CREAD"}) \ Raw

(* A rate without a constant goes to the driver as a divisor of its base. *)
SetBaud(opt, baudrate) ==
    IF baudrate \in StandardBauds THEN [opt EXCEPT !.speed = baudrate]
    ELSE [opt EXCEPT !.custom = TRUE, !.divisor = opt.base \div baudrate]

SetStopbits(flags, stopbits) ==
    IF stopbits = "one" THEN flags \ {"CSTOPB"} ELSE flags \cup {"CSTOPB"}

(* (Mutant: space does not clear what odd has set.) *)
SetParityKeepOdd(flags, parity) ==
    LET f == flags \ {"INPCK", "ISTRIP"}
    IN  CASE parity = "none" -> f \ {"PARENB", "PARODD"}
          [] parity = "even" -> (f \ {"PARODD"}) \cup {"PARENB"}
          [] parity = "odd" -> f \cup {"PARENB", "PARODD"}
          [] parity = "mark" -> f \cup {"PARENB", "CMSPAR", "PARODD"}
          [] parity = "space" -> f \cup {"PARENB", "CMSPAR"}
SetParity(flags, parity) ==
    LET f == flags \ {"INPCK", "ISTRIP"}
    IN  CASE parity = "none" -> f \ {"PARENB", "PARODD"}
          [] parity = "even" -> (f \ {"PARODD"}) \cup {"PARENB"}
          [] parity = "odd" -> f \cup {"PARENB", "PARODD"}
          [] parity = "mark" -> f \cup {"PARENB", "CMSPAR", "PARODD"}
          [] parity = "space" -> (f \cup {"PARENB", "CMSPAR"}) \ {"PARODD"}

SetFlowcontrol(flags, flowcontrol) ==
    LET xonxoff == IF flowcontrol = "software" THEN flags \cup {"IXON", "IXOFF"}
                   ELSE flags \ {"IXON", "IXOFF", "IXANY"}
    IN  IF flowcontrol = "hardware" THEN xonxoff \cup {"CRTSCTS"} ELSE xonxoff \ {"CRTSCTS"}

(* The device after reconfigurePort, from the options opt before. *)
Reconfigured(opt, m) ==
    LET baud == SetBaud(opt, m.baudrate)
        char == SetParity(SetStopbits(SetRaw(opt.flags), m.stopbits), m.parity)
    IN  [baud EXCEPT !.flags = SetFlowcontrol(char, m.flowcontrol), !.csize = m.bytesize]

(* The enumerations' numbers, as byte_time_ns_ is computed from them. *)
ParityNumber == [none |-> 0, odd |-> 1, even |-> 2, mark |-> 3, space |-> 4]
StopbitsNumber == [one |-> 1, two |-> 2, one_point_five |-> 3]

(* byte_time_ns_, whose bit_time_ns loses a fraction and whose one and a half *)
(* stop bits lose half a nanosecond more. (A uint32_t holds it from 4 baud on.) *)
ByteTimeNs(m) ==
    LET bit_time_ns == 1000000000 \div m.baudrate
        bits == 1 + m.bytesize + ParityNumber[m.parity] + StopbitsNumber[m.stopbits]
    IN  IF m.stopbits = "one_point_five" THEN (2 * bit_time_ns * bits - 3 * bit_time_ns) \div 2
        ELSE bit_time_ns * bits

-----------------------------------------------------------------------------
(* What the driver makes of its options.  A custom divisor counts only     *)
(* while the speed is 38400.                                               *)

LineParity(flags) ==
    CASE "PARENB" \notin flags -> "none"
      [] {"PARENB", "CMSPAR"} \subseteq flags -> IF "PARODD" \in flags THEN "mark" ELSE "space"
      [] OTHER -> IF "PARODD" \in flags THEN "odd" ELSE "even"

LineRate(opt) == IF opt.custom /\ opt.speed = 38400 THEN opt.base \div opt.divisor ELSE opt.speed

(* The bits that a byte takes on the line, in halves. *)
HalfBits(m) == 2 * (1 + m.bytesize + (IF m.parity = "none" THEN 0 ELSE 1))
               + (CASE m.stopbits = "one" -> 2 [] m.stopbits = "two" -> 4 [] OTHER -> 3)

(* A rate with a constant reaches the line, but for 38400 on a device that *)
(* an earlier user left with a divisor of its own.  A rate without one      *)
(* reaches it by the divisor nearest above the rate, but only on a device   *)
(* whose speed was 38400; the line of every other keeps the speed it had.  *)
RateAsAsked(opt, m) ==
    LET new == Reconfigured(opt, m)
        rate == m.baudrate
    IN  /\ rate \in StandardBauds /\ ~ (rate = 38400 /\ opt.custom) => LineRate(new) = rate
        /\ rate \notin StandardBauds /\ opt.speed = 38400 /\ rate <= opt.base
               => rate <= LineRate(new) /\ opt.base \div (new.divisor + 1) < rate
        /\ rate \notin StandardBauds /\ opt.speed # 38400 => LineRate(new) = opt.speed

(* From 4 baud on, the time that a read waits for a byte falls short of    *)
(* the byte's own by no more than a nanosecond for each bit begun.  (The    *)
(* byte's time, twice over, is HalfBits * 10^9 / baudrate.)                *)
TimeOfByte(m) ==
    LET halves == HalfBits(m)
        rate == m.baudrate
        twice == halves * (1000000000 \div rate)
                 + (halves * (1000000000 % rate) + rate - 1) \div rate
    IN  rate >= 4 => 2 * (ByteTimeNs(m) + (halves + 1) \div 2) >= twice

(* Whatever flags, character size and speed a device had before: nothing   *)
(* of its bytes is interpreted, its line has the settings asked for, but    *)
(* for the parity of a device left with a mark or space bit and for the     *)
(* rates that RateAsAsked excepts, and reads wait for a byte's time.       *)
LineAsAsked(opt, m) ==
    LET new == Reconfigured(opt, m)
    IN  /\ new.flags \cap Raw = {} /\ new.csize = m.bytesize
        /\ ("CSTOPB" \in new.flags) = (m.stopbits # "one")
        /\ ("IXON" \in new.flags) = (m.flowcontrol = "software")
        /\ ("CRTSCTS" \in new.flags) = (m.flowcontrol = "hardware")
        /\ "CMSPAR" \notin opt.flags \/ m.parity \in {"mark", "space", "none"}
               => LineParity(new.flags) = m.parity
        /\ RateAsAsked(opt, m)
        /\ TimeOfByte(m)
=============================================================================
