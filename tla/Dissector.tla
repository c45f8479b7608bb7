----------------------------- MODULE Dissector -----------------------------
(***************************************************************************)
(* Reading octets by the grammar of MmsGrammar.  The BER walk itself       *)
(* (dissect_ber_sequence, dissect_ber_choice and the primitives) is        *)
(* Wireshark's library, outside this repository; here it is strict: a      *)
(* missing or unknown field is an error where Wireshark adds a remark.     *)
(***************************************************************************)
EXTENDS MmsGrammar

CONSTANT Grammar        \* the types by name; WiresharkGrammar holds those of packet-mms.c

Octets(b, p, n) == [i \in 1..n |-> b[p + i - 1]]

RECURSIVE BigEndian(_)
BigEndian(o) == IF o = <<>> THEN 0
                ELSE BigEndian(SubSeq(o, 1, Len(o) - 1)) * 256 + o[Len(o)]

\* Tag numbers above 30 take further octets, seven bits each
TagOctets(b, p) ==
    IF b[p] % 32 # 31 THEN 1
    ELSE 1 + CHOOSE n \in 1..4 : b[p + n] < 128 /\ \A i \in 1..(n - 1) : b[p + i] >= 128

TagAt(b, p) ==
    LET n == TagOctets(b, p)
        high == [i \in 1..(n - 1) |-> b[p + i] % 128]
        number == IF n = 1 THEN b[p] % 32 ELSE IF n = 2 THEN high[1] ELSE high[1] * 128 + high[2]
    IN  4 * number + b[p] \div 64

\* Where the contents of the value at p start and end
Contents(b, p) ==
    LET q == p + TagOctets(b, p)
        long == b[q] - 128
        start == IF b[q] < 128 THEN q + 1 ELSE q + 1 + long
    IN  [first |-> start,
         end |-> start + (IF b[q] < 128 THEN b[q] ELSE BigEndian(Octets(b, q + 1, long)))]

Bad == 0

\* Where the value of `type' in b[p..end-1] ends, or Bad.  implicit: its own tag has been
\* replaced by one already read.
RECURSIVE Dissect(_, _, _, _, _)

\* The value of one field
dissect_field(b, p, end, f) ==
    LET c == Contents(b, p)
    IN  IF f.how = "own" THEN Dissect(b, p, end, f.type, FALSE)
        ELSE IF c.end > end THEN Bad
        ELSE Dissect(b, c.first, c.end, f.type, f.how = "implicit")

RECURSIVE Tags(_)
Tags(f) ==                      \* the tags a field may start with
    IF f.tag # -1 THEN {f.tag}
    ELSE LET g == Grammar[f.type]
         IN  IF g.kind = "same" THEN Tags(AnyTag(g.fields[1].type))
             ELSE UNION {Tags(g.fields[i]) : i \in DOMAIN g.fields}

RECURSIVE dissect_ber_sequence(_, _, _, _)
dissect_ber_sequence(b, p, end, fields) ==
    LET f == Head(fields)
        here == p < end /\ TagAt(b, p) \in Tags(f)
        q == dissect_field(b, p, end, f)
    IN  CASE fields = <<>> -> IF p = end THEN p ELSE Bad
          [] fields # <<>> /\ ~here ->
               IF f.optional THEN dissect_ber_sequence(b, p, end, Tail(fields)) ELSE Bad
          [] OTHER -> IF q = Bad THEN Bad ELSE dissect_ber_sequence(b, q, end, Tail(fields))

RECURSIVE dissect_ber_sequence_of(_, _, _, _)
dissect_ber_sequence_of(b, p, end, f) ==
    LET q == dissect_field(b, p, end, f)
    IN  IF p = end THEN p
        ELSE IF TagAt(b, p) \notin Tags(f) THEN Bad
        ELSE IF q = Bad THEN Bad ELSE dissect_ber_sequence_of(b, q, end, f)

dissect_ber_choice(b, p, end, fields) ==
    LET hit == {i \in DOMAIN fields : TagAt(b, p) \in Tags(fields[i])}
        i == CHOOSE j \in hit : \A k \in hit : j <= k
    IN  IF p >= end \/ hit = {} THEN Bad ELSE dissect_field(b, p, end, fields[i])

Dissect(b, p, end, type, implicit) ==
    LET g == Grammar[type]
        c == Contents(b, p)
        Inside(first, last) ==
            CASE g.kind = "sequence" -> dissect_ber_sequence(b, first, last, g.fields)
              [] g.kind = "sequence_of" -> dissect_ber_sequence_of(b, first, last, g.fields[1])
              [] g.kind = "null" -> IF first = last THEN last ELSE Bad
              [] g.kind = "sized" -> IF last - first \in g.sizes THEN last ELSE Bad
              [] OTHER -> last
    IN  CASE type \notin DOMAIN Grammar -> end      \* a type of the ACSE dissector
          [] type \in DOMAIN Grammar /\ g.kind = "same" -> Dissect(b, p, end, g.fields[1].type, implicit)
          [] type \in DOMAIN Grammar /\ g.kind = "choice" -> dissect_ber_choice(b, p, end, g.fields)
          [] OTHER -> IF implicit THEN Inside(p, end)
                      ELSE IF p >= end THEN Bad
                      ELSE IF TagAt(b, p) # g.tag \/ c.end > end THEN Bad
                      ELSE Inside(c.first, c.end)

\* PDUs follow one another to the end of the buffer
RECURSIVE dissect_from(_, _)
dissect_from(b, p) ==
    LET GoOn(q) == q # Bad /\ dissect_from(b, q)
    IN  p = Len(b) + 1 \/ GoOn(Dissect(b, p, Len(b) + 1, "MMSpdu", FALSE))

dissect_mms(b) == dissect_from(b, 1)
=============================================================================
