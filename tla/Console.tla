------------------------------ MODULE Console ------------------------------
(***************************************************************************)
(* The kernel's console: KPRINT, KPANIC and the write system call          *)
(* (print.h, print.cc, debug.cc, syscall.cc).  KPRINT holds say_lock for   *)
(* the whole text; the other two take only putch_spin, for one character,  *)
(* so what they print may fall between the characters of a KPRINT.         *)
(*                                                                         *)
(* A text is a sequence of pieces, a character or an argument that stands  *)
(* for its "?": [kind, v], with kind "dec", "hex", "bool", "str" or        *)
(* "char".  The locks are those of module BlockingLock.                    *)
(***************************************************************************)
EXTENDS Integers, Sequences, SequencesExt, FiniteSets

CONSTANTS
  Writer,        \* threads that print
  NoWriter,      \* no thread
  KText,         \* the texts of KPRINT and of KPANIC
  UserText,      \* what processes write: sequences of characters
  ConsoleByte,   \* values of a byte, 256 in the code
  MaxTexts       \* bound on the texts that are printed

VARIABLES
  say_lock,      \* its holder
  putch_spin,    \* its holder
  printing,      \* what each thread still has to print: [mode, left]
  serial,        \* what went to the port: [mode, ch]
  texts,         \* how many texts were begun
  printed,       \* history: the KPRINTs, in the order in which they took say_lock
  stopped        \* the machine is shut down

conVars == <<say_lock, putch_spin, printing, serial, texts, printed, stopped>>

Quiet == [mode |-> "none", left |-> <<>>]

ConInit ==
  /\ say_lock = NoWriter
  /\ putch_spin = NoWriter
  /\ printing = [t \in Writer |-> Quiet]
  /\ serial = <<>>
  /\ texts = 0
  /\ printed = <<>>
  /\ stopped = FALSE

-----------------------------------------------------------------------------
\* do_print.  A value of b bytes wraps at ConsoleByte ^ b.
HexDigit == <<"0", "1", "2", "3", "4", "5", "6", "7", "8", "9", "a", "b", "c", "d", "e", "f">>

\* Dec, for the magnitude: what is left of the value is printed before its last digit.
Decimal(value) ==
  LET dec[n \in 0..value] ==
        (IF n \div 10 > 0 THEN dec[n \div 10] ELSE <<>>) \o <<HexDigit[(n % 10) + 1]>>
  IN  dec[value]

DoDec(v, size) == IF v < 0 THEN <<"-">> \o Decimal((-v) % (ConsoleByte ^ size)) ELSE Decimal(v)

\* A byte is two digits, a longer value its upper and then its lower half.
HexByte(v) == <<HexDigit[(v \div 16) + 1], HexDigit[(v % 16) + 1]>>

DoHex(v, size) ==
  LET hex[n \in {1, 2, 4, 8}, w \in 0..(v % (ConsoleByte ^ size))] ==
        LET half == ConsoleByte ^ (n \div 2)
        IN  IF n = 1 THEN HexByte(w) ELSE hex[n \div 2, w \div half] \o hex[n \div 2, w % half]
  IN  hex[size, v % (ConsoleByte ^ size)]

DoPrint(arg) ==
  CASE arg.kind = "dec"  -> DoDec(arg.v, arg.size)
    [] arg.kind = "hex"  -> DoHex(arg.v, arg.size)
    [] arg.kind = "bool" -> IF arg.v THEN <<"t", "r", "u", "e">> ELSE <<"f", "a", "l", "s", "e">>
    [] arg.kind = "str"  -> arg.v
    [] arg.kind = "char" -> <<arg.v>>

\* xprint: the characters of the text, each argument in the place of its "?".
XPrint(text) == FlattenSeq([i \in DOMAIN text |-> DoPrint(text[i])])

-----------------------------------------------------------------------------
MayBegin(t) == ~stopped /\ printing[t] = Quiet /\ texts < MaxTexts

Begins(t, mode, chars) ==
  /\ texts' = texts + 1
  /\ printing' = [printing EXCEPT ![t] = [mode |-> mode, left |-> chars]]

\* Seeded fault: the text is printed without print_lock.
KPrintUnlocked(t, text) ==
  /\ MayBegin(t)
  /\ say_lock' = t
  /\ Begins(t, "kprint", XPrint(text))
  /\ printed' = Append(printed, text)
  /\ UNCHANGED <<putch_spin, serial, stopped>>

\* kprint: print_lock, then the characters, then print_unlock.
KPrint(t, text) ==
  /\ MayBegin(t)
  /\ say_lock = NoWriter
  /\ say_lock' = t
  /\ Begins(t, "kprint", XPrint(text))
  /\ printed' = Append(printed, text)
  /\ UNCHANGED <<putch_spin, serial, stopped>>

\* KPANIC prints without the lock, and then shuts the machine down.
KPanic(t, text) ==
  /\ MayBegin(t)
  /\ Begins(t, "panic", XPrint(text))
  /\ UNCHANGED <<say_lock, putch_spin, serial, printed, stopped>>

\* write: a buffer of the user, character by character.
SysWrite(t, chars) ==
  /\ MayBegin(t)
  /\ Begins(t, "write", chars)
  /\ UNCHANGED <<say_lock, putch_spin, serial, printed, stopped>>

\* putch takes putch_spin, ...
PutchLock(t) ==
  /\ ~stopped
  /\ printing[t].left # <<>> /\ putch_spin = NoWriter
  /\ putch_spin' = t
  /\ UNCHANGED <<say_lock, printing, serial, texts, printed, stopped>>

\* ... lets it go and tries again while the port is not ready, ...
PutchBusy(t) ==
  /\ ~stopped
  /\ putch_spin = t
  /\ putch_spin' = NoWriter
  /\ UNCHANGED <<say_lock, printing, serial, texts, printed, stopped>>

\* ... and sends the character.
PutchSend(t) ==
  /\ ~stopped
  /\ putch_spin = t
  /\ serial' = Append(serial, [mode |-> printing[t].mode, ch |-> Head(printing[t].left)])
  /\ printing' = [printing EXCEPT ![t].left = Tail(@)]
  /\ putch_spin' = NoWriter
  /\ UNCHANGED <<say_lock, texts, printed, stopped>>

\* The text is out: KPRINT unlocks, KPANIC shuts down, write returns.
PrintEnd(t) ==
  /\ ~stopped
  /\ printing[t] # Quiet /\ printing[t].left = <<>>
  /\ printing' = [printing EXCEPT ![t] = Quiet]
  /\ say_lock' = IF printing[t].mode = "kprint" THEN NoWriter ELSE say_lock
  /\ stopped' = (printing[t].mode = "panic")
  /\ UNCHANGED <<putch_spin, serial, texts, printed>>

ConNext ==
  \E t \in Writer :
    \/ \E text \in KText : KPrint(t, text) \/ KPanic(t, text)
    \/ \E chars \in UserText : SysWrite(t, chars)
    \/ PutchLock(t) \/ PutchBusy(t) \/ PutchSend(t) \/ PrintEnd(t)

-----------------------------------------------------------------------------
\* The number that a string of digits in a base stands for.
Reads(s, base) ==
  LET val[i \in 0..Len(s)] ==
        IF i = 0 THEN 0
        ELSE val[i - 1] * base + (CHOOSE d \in 0..15 : HexDigit[d + 1] = s[i])
  IN  val[Len(s)]

\* Whether chars is what a reader expects of a piece.
Says(chars, arg) ==
  CASE arg.kind = "dec" -> IF arg.v < 0 THEN chars[1] = "-" /\ Reads(Tail(chars), 10) = -arg.v
                           ELSE Reads(chars, 10) = arg.v /\ (Len(chars) > 1 => chars[1] # "0")
    [] arg.kind = "hex" -> Len(chars) = 2 * arg.size /\ Reads(chars, 16) % (ConsoleByte ^ arg.size)
                                                          = arg.v % (ConsoleByte ^ arg.size)
    [] OTHER -> chars = DoPrint(arg)

\* What KPRINTs have sent, without what was written by others between the characters,
\* is their texts one after the other in the order of say_lock, the last perhaps not
\* yet complete: two KPRINTs never mix, however their threads are interleaved.  And
\* every number in them reads as its value.
TextsWhole ==
  LET sent == SelectSeq(serial, LAMBDA x : x.mode = "kprint")
      want == FlattenSeq([i \in DOMAIN printed |-> XPrint(printed[i])])
  IN  /\ Len(sent) <= Len(want)
      /\ \A i \in DOMAIN sent : sent[i].ch = want[i]
      /\ \A i \in DOMAIN printed : \A j \in DOMAIN printed[i] :
           Says(DoPrint(printed[i][j]), printed[i][j])
=============================================================================
