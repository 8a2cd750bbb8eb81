------------------------------ MODULE Snprintf ------------------------------
(***************************************************************************)
(* vsnprintf of rtl/snprintf.c, called by vkprintf and vpanic with a stack *)
(* buffer that holds nothing yet.                                          *)
(*                                                                         *)
(* A step handles one item of the format: a character, or a directive with *)
(* its flags, width, length modifier and conversion.  The format and the   *)
(* arguments are chosen item by item, so a behavior is a call with some    *)
(* format of at most MaxItems items.  The caller passes the argument that  *)
(* each directive calls for; va_arg reads them in the order they were      *)
(* passed.  Addresses count from the start of the buffer; memory on both   *)
(* sides of it belongs to somebody else.                                   *)
(* A format does not end inside a directive: the callers' formats are      *)
(* constants, and the code would read on behind the format's terminator.   *)
(*                                                                         *)
(* The limits of int and long long are constants: the code's 32 and 64     *)
(* bits are only scaled, the conversions between them are the code's.  A   *)
(* NUL passed to %c is not modelled: the output would end there.           *)
(***************************************************************************)
EXTENDS Integers, SequencesExt

CONSTANTS
  Lengths,     \* lengths a caller passes; none passes 0
  Widths,      \* widths a format gives, as the unsigned int they are parsed to
  LenMods,     \* length modifiers a format uses
  IntArgs,     \* arguments of type int
  LongArgs,    \* arguments of type long long, and pointers as integers
  Letters,     \* the characters of string arguments
  Strings,     \* arguments of %s
  INT_MAX, LLONG_MAX,
  MaxItems     \* bound: items of a format

Unset == "unset"        \* a byte nobody has written in this call
NUL == "NUL"

UINT_MAX == 2 * INT_MAX + 1

ASSUME SnprintfAssumption ==
  /\ Lengths \subseteq Nat \ {0}
  /\ Widths \subseteq 0 .. UINT_MAX
  /\ LenMods \subseteq {"LEN_HH", "LEN_H", "LEN_DEFAULT", "LEN_L", "LEN_LL"}
  /\ INT_MAX \in Nat /\ LLONG_MAX \in Nat /\ INT_MAX <= LLONG_MAX
  /\ IntArgs \subseteq -INT_MAX - 1 .. INT_MAX
  /\ LongArgs \subseteq -LLONG_MAX - 1 .. LLONG_MAX
  /\ NUL \notin Letters /\ Strings \subseteq Seq(Letters)
  /\ MaxItems \in Nat

VARIABLES
  memory,      \* the bytes of the buffer and of its surroundings
  buffer,      \* the code's running pointer; base is 0
  limit,
  items,       \* items of the format handled so far
  late,        \* arguments passed for these items that va_arg has not read
  returned,
  full,        \* history: what an unlimited buffer would hold
  field        \* history: the last number and where it went

vars == <<memory, buffer, limit, items, late, returned, full, field>>

Bases == [d |-> 10, u |-> 10, x |-> 16, X |-> 16, o |-> 8, b |-> 2, p |-> 16]
NoField == [base |-> 10]

Lower == <<"0", "1", "2", "3", "4", "5", "6", "7",
           "8", "9", "a", "b", "c", "d", "e", "f">>
Upper == <<"0", "1", "2", "3", "4", "5", "6", "7",
           "8", "9", "A", "B", "C", "D", "E", "F">>

\* The characters of digits, fields, strings and of the format; "blank" is the space.
Chars == Range(Lower) \cup Range(Upper) \cup {"-", "blank", "t", "c", "%", "?", "x"}
           \cup Letters

\* The bytes of s stored from address at on.
Put(mem, at, s) ==
  [a \in DOMAIN mem |->
     IF at <= a /\ a < at + Len(s) THEN s[a - at + 1] ELSE mem[a]]

Copies(ch, n) == [i \in 1 .. n |-> ch]
-----------------------------------------------------------------------------
(* print_number *)

Numbers == 2 * (LLONG_MAX + 1)   \* the values of uint64_t are 0 .. Numbers - 1

\* The digits in tmp, last digit first, and the string made by reversing them.
Remainders(base) ==
  LET rest[n \in 0 .. Numbers - 1] ==
        IF n = 0 THEN <<>> ELSE <<n % base>> \o rest[n \div base]
  IN  rest

Digits(n, base, digits) ==
  LET tmp == IF n = 0 THEN <<0>> ELSE Remainders(base)[n]
  IN  [i \in 1 .. Len(tmp) |-> digits[Reverse(tmp)[i] + 1]]

\* tmp[66] has room for the digits of every uint64_t; their number, with a sign, is
\* far from the largest unsigned int.
ASSUME DigitsAssumption ==
  \A n \in 0 .. Numbers - 1, base \in {2, 8, 10, 16}, digits \in {Lower, Upper} :
    Len(Digits(n, base, digits)) + 1 < UINT_MAX

\* Conversion of an int or a long long to uint64_t.
Unsigned(arg) == arg % Numbers

Magnitude(sign, arg) ==
  IF sign /\ arg < 0 THEN Unsigned(-arg) ELSE Unsigned(arg)

\* Mutant: zeros before the sign.
NumberText_ZeroFirst(flags, width, conv, arg) ==
  LET number == Digits(Magnitude(conv = "d", arg), Bases[conv], Lower)
      minus == IF conv = "d" /\ arg < 0 THEN <<"-">> ELSE <<>>
      total == Len(number) + Len(minus)
      pad == IF width > total THEN width - total ELSE 0
  IN  Copies(IF "ZEROPAD" \in flags THEN "0" ELSE "blank", pad) \o minus \o number

\* What print_number writes where there is room: sign, digits and padding.
NumberText(flags, width, conv, arg) ==
  LET sign == conv = "d"
      minus == IF sign /\ arg < 0 THEN <<"-">> ELSE <<>>
      number == Digits(Magnitude(sign, arg), Bases[conv],
                       IF conv = "x" THEN Lower ELSE Upper)
      total == Len(number) + Len(minus)
      pad == IF width > total THEN width - total ELSE 0
      zero == "ZEROPAD" \in flags /\ "LEFTALIGN" \notin flags
      fill == Copies(IF zero THEN "0" ELSE "blank", pad)
  IN  IF "LEFTALIGN" \in flags THEN minus \o number \o fill
      ELSE IF zero THEN minus \o fill \o number
      ELSE fill \o minus \o number

\* Mutant: one byte more than the number and its terminator need.
Fits_Strict(text, at) ==
  at < limit /\ (Len(text) + 1) % (UINT_MAX + 1) < limit - at

\* All of the number or nothing of it; the pointer moves past it either way.  The
\* length with the terminator, pad + total + 1, is an unsigned int.
Fits(text, at) ==
  at < limit /\ (Len(text) + 1) % (UINT_MAX + 1) <= limit - at

\* Mutant: the pointer stays where the number does not fit.
print_number_Stays(mem, at, text) ==
  IF Fits(text, at)
  THEN /\ memory' = Put(mem, at, text \o <<NUL>>)
       /\ buffer' = at + Len(text)
  ELSE memory' = mem /\ buffer' = at

\* print_number called with the memory and the pointer the caller has reached.
print_number(mem, at, text) ==
  LET end == at + Len(text)
      written == IF Fits(text, at) THEN Put(mem, at, text) ELSE mem
  IN  /\ memory' = IF end < limit THEN Put(written, end, <<NUL>>) ELSE written
      /\ buffer' = end

-----------------------------------------------------------------------------
(* vsnprintf *)

\* What parsing a directive yields: the loops over flags and digits and the
\* choice of the length modifier.
Directives == [flags : SUBSET {"ZEROPAD", "LEFTALIGN"}, width : Widths, len : LenMods]

\* The values an argument of each type can have; a pointer given to %p is a long.
Values == [int |-> IntArgs, long |-> LongArgs, str |-> Strings]

ArgType(len) == IF len \in {"LEN_L", "LEN_LL"} THEN "long" ELSE "int"

\* The arguments not read yet when the caller passes one more.
Pass(type, value) == Append(late, [type |-> type, value |-> value])

\* What va_arg(args, type) can deliver: the next argument, or, when that one has
\* another type, any value of the type (a fault on a bad string is not modelled).
\* An int, a long long and a pointer take one place each.
Delivered(args, type) ==
  IF Head(args).type = type THEN {Head(args).value} ELSE Values[type]

\* The call: an automatic buffer of that length, untouched.
Init ==
  /\ limit \in Lengths
  /\ memory = [a \in -1 .. limit + 2 |-> Unset]
  /\ buffer = 0 /\ items = 0 /\ late = <<>> /\ returned = FALSE
  /\ full = <<>> /\ field = NoField

Item == ~returned /\ items < MaxItems /\ items' = items + 1 /\ UNCHANGED <<limit, returned>>

\* Mutant: no test of the limit.
Literal_NoLimit ==
  /\ Item
  /\ full' = Append(full, "t")
  /\ memory' = Put(memory, buffer, <<"t">>) /\ buffer' = buffer + 1
  /\ UNCHANGED <<late, field>>

Literal ==
  /\ Item
  /\ full' = Append(full, "t")
  /\ IF buffer + 1 < limit
     THEN memory' = Put(memory, buffer, <<"t">>) /\ buffer' = buffer + 1
     ELSE UNCHANGED <<memory, buffer>>
  /\ UNCHANGED <<late, field>>

\* %s: each character that leaves room for the terminator, the pointer over all.
String ==
  /\ Item
  /\ \E own \in Strings : \E str \in Delivered(Pass("str", own), "str") :
       LET room == limit - 1 - buffer
           kept == IF room < 0 THEN 0 ELSE IF room < Len(str) THEN room ELSE Len(str)
       IN  /\ memory' = Put(memory, buffer, SubSeq(str, 1, kept))
           /\ buffer' = buffer + Len(str)
           /\ full' = full \o own
           /\ late' = Tail(Pass("str", own))
  /\ UNCHANGED field

\* %c and %%: one character.
OneChar(ch) ==
  /\ memory' = IF buffer + 1 < limit THEN Put(memory, buffer, <<ch>>) ELSE memory
  /\ buffer' = buffer + 1
  /\ full' = Append(full, ch)

\* %c: va_arg is called only where the character fits, so the argument of one that
\* does not is left to the next directive that reads one.
Char ==
  /\ Item
  /\ OneChar("c")
  /\ \E own \in IntArgs :
       late' = IF buffer + 1 < limit THEN Tail(Pass("int", own)) ELSE Pass("int", own)
  /\ UNCHANGED field

Percent == Item /\ OneChar("%") /\ UNCHANGED <<late, field>>

\* %d, %u, %x, %X, %o and %b.
Number ==
  /\ Item
  /\ \E f \in Directives, conv \in DOMAIN Bases \ {"p"} :
     LET type == ArgType(f.len)
     IN  \E own \in Values[type] : \E arg \in Delivered(Pass(type, own), type) :
           /\ print_number(memory, buffer, NumberText(f.flags, f.width, conv, arg))
           /\ full' = full \o NumberText(f.flags, f.width, conv, own)
           /\ late' = Tail(Pass(type, own))
           /\ field' = [base |-> Bases[conv], sign |-> conv = "d", arg |-> own,
                        width |-> f.width, at |-> buffer, end |-> buffer']

\* %p: the prefix if it fits, then the number in upper case.
Pointer ==
  /\ Item
  /\ \E f \in Directives, own \in LongArgs : \E arg \in Delivered(Pass("long", own), "long") :
       LET fits == buffer + 2 < limit
           at == IF fits THEN buffer + 2 ELSE buffer
           mem == IF fits THEN Put(memory, buffer, <<"0", "x">>) ELSE memory
       IN  /\ print_number(mem, at, NumberText(f.flags, f.width, "p", arg))
           /\ full' = full \o <<"0", "x">> \o NumberText(f.flags, f.width, "p", own)
           /\ late' = Tail(Pass("long", own))
  /\ UNCHANGED field

\* An unknown conversion is copied with its per cent sign.
Unknown ==
  /\ Item
  /\ memory' = IF buffer + 3 < limit THEN Put(memory, buffer, <<"%", "?">>) ELSE memory
  /\ buffer' = buffer + 2
  /\ full' = full \o <<"%", "?">>
  /\ UNCHANGED <<late, field>>

\* The end of the format: the terminator, and the count in buffer - base.
Return ==
  /\ ~returned
  /\ returned' = TRUE
  /\ memory' = Put(memory, IF buffer < limit THEN buffer ELSE limit - 1, <<NUL>>)
  /\ UNCHANGED <<buffer, limit, items, late, full, field>>

Next == \/ Literal \/ String \/ Char \/ Percent \/ Number \/ Pointer \/ Unknown
        \/ Return

Spec == Init /\ [][Next]_vars
-----------------------------------------------------------------------------
\* The buffer's bytes from its start up to a.
Bytes(from, end) == [i \in 1 .. end - from |-> memory[from + i - 1]]

\* The bytes before the first terminator: what uart_write_str and fbcon_write print.
Printed == Bytes(0, CHOOSE a \in 0 .. limit - 1 :
                      memory[a] = NUL /\ \A c \in 0 .. a - 1 : memory[c] # NUL)

Args == UNION {[type : {type}, value : Values[type]] : type \in DOMAIN Values}

\* Types; every byte holds a character, a terminator or nothing yet.
TypeOK ==
  /\ limit \in Lengths
  /\ memory \in [-1 .. limit + 2 -> Chars \cup {NUL, Unset}]
  /\ buffer \in Nat /\ items \in 0 .. MaxItems /\ returned \in BOOLEAN
  /\ late \in Seq(Args)

\* Whatever the format, if its widths are below the largest unsigned int, and the
\* length, no byte outside the caller's buffer is written, although the running
\* pointer itself goes past limit, and on return the string is terminated inside
\* the buffer: uart_write_str and fbcon_write stop.
Contained ==
  /\ TypeOK
  /\ \A a \in DOMAIN memory : a \notin 0 .. limit - 1 => memory[a] = Unset
  /\ returned => \E a \in 0 .. limit - 1 : memory[a] = NUL

\* Output that fits is complete: the buffer holds it with its terminator and
\* nothing of the uninitialized buffer, and the count is its length.  An unknown
\* conversion asks for one byte more than it needs.
Exact ==
  /\ returned
  /\ Len(full) + (IF Contains(full, "?") THEN 1 ELSE 0) < limit
  => Printed = full /\ buffer = Len(full)

\* Truncation is visible: when the output does not fit, the count is at least
\* the length of the longest string the buffer can hold; and it exceeds the length
\* needed only where a %c that did not fit left its argument to a later directive.
TruncationShows ==
  returned => /\ Len(full) >= limit => buffer >= limit - 1
              /\ late = <<>> => buffer <= Len(full)

\* The value of a digit of either case, and what Horner's rule makes of the digits
\* of a text.
IsDigit(c) == \E i \in 0 .. 15 : c \in {Lower[i + 1], Upper[i + 1]}

Value(c) == CHOOSE i \in 0 .. 15 : c \in {Lower[i + 1], Upper[i + 1]}

Horner(text, base) ==
  LET acc[i \in 0 .. Len(text)] ==
        IF i = 0 THEN 0
        ELSE IF IsDigit(text[i]) THEN acc[i - 1] * base + Value(text[i])
        ELSE acc[i - 1]
  IN  acc[Len(text)]

\* A number that fits reads back as its argument: Horner's rule over its digits
\* gives the argument (an unsigned conversion widens it to 64 bits with its sign
\* first), with one sign, before every digit, no blank inside, and at least the
\* field width.
ReadsBack ==
  field # NoField /\ field.end < limit =>
    LET text == Bytes(field.at, field.end)
        negative == field.sign /\ field.arg < 0
    IN  /\ Len(text) >= field.width
        /\ Horner(text, field.base) =
             IF ~field.sign THEN field.arg % Numbers
             ELSE IF negative THEN -field.arg ELSE field.arg
        /\ \E i, j \in 1 .. Len(text) :   \* the number, with blanks around it
             /\ IF negative THEN i < j ELSE i <= j
             /\ \A k \in 1 .. Len(text) :
                  IF k \notin i .. j THEN text[k] = "blank"
                  ELSE IF negative /\ k = i THEN text[k] = "-"
                  ELSE IsDigit(text[k]) /\ Value(text[k]) < field.base

\* The length needed "no matter what": the count that print_number's comment says
\* snprintf must return.
ReturnsNeeded == returned => buffer = Len(full)
=============================================================================
