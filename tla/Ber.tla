-------------------------------- MODULE Ber --------------------------------
(***************************************************************************)
(* The BER runtime of the MMS stack (src/sources/mms/iso_mms/asn1c): the   *)
(* DER encoder, and the restartable decoder, which may be given a message  *)
(* in pieces.  Each type's codec is an operator over the octets and the    *)
(* type's descriptor; Descriptors in AsnTypes holds those of the stack.    *)
(*                                                                         *)
(* A structure being decoded keeps its own progress (asn_struct_ctx_t):    *)
(* phase, step and the octets left.  A decoder called again with the same  *)
(* structure and the octets not yet consumed goes on from there.           *)
(*                                                                         *)
(* ssize_t and ber_tlv_len_t have 32 bits here.  Strings in constructed    *)
(* form and XER are left out; there are no extensible types.               *)
(***************************************************************************)
EXTENDS AsnTypes, SequencesExt

CONSTANT asn_DEF        \* the descriptor of each type

\* A decoded structure: the codec's context, and the value: n holds numbers (the
\* octets of a string, the number, the index of the present alternative), c the members.
\* ptr is the list element under construction.
Node(n, c) == [phase |-> 0, step |-> 0, left |-> 0, n |-> n, c |-> c, ptr |-> <<>>]
Absent == [Node(<<>>, <<>>) EXCEPT !.phase = -1]

\* What CALLOC gives a type's decoder
Fresh(td) ==
    IF td.kind = "SEQUENCE" THEN Node(<<>>, [i \in DOMAIN td.elements |-> Absent])
    ELSE Node(<<>>, <<>>)

Ensure(st, td) == IF st = Absent THEN Fresh(td) ELSE st

\* The reader's place: octets b from p on, of which size are there; used were consumed.
\* A decoder goes on ("GO") until it returns.
Cursor(b, p, size, st) == [code |-> "GO", b |-> b, p |-> p, size |-> size, used |-> 0, st |-> st]

Advance_Mutant(c, k) == [c EXCEPT !.p = @ + k, !.size = @ - k, !.used = @ + k]

Advance(c, k) ==
    [c EXCEPT !.p = @ + k, !.size = @ - k, !.used = @ + k,
              !.st.left = IF @ >= 0 THEN @ - k ELSE @]

\* LEFT: the octets that are there and belong to this structure
Left(c) == IF c.st.left < 0 \/ c.size < c.st.left THEN c.size ELSE c.st.left

\* SIZE_VIOLATION: the structure ends within the octets that are there
SizeViolation_Mutant(c) == c.st.left >= 0
SizeViolation(c) == c.st.left >= 0 /\ c.st.left <= c.size

Return(code, c) == [code |-> code, used |-> c.used, st |-> c.st]
PhaseOut(c) == [c EXCEPT !.st.phase = 10]
NextPhase(c) == [c EXCEPT !.st.phase = @ + 1, !.st.step = 0]
-----------------------------------------------------------------------------
(* Tags and lengths.  n is the number of octets, 0 for "want more", -1 for *)
(* an error.                                                               *)

RECURSIVE LongTag(_, _, _, _, _)
LongTag(b, p, size, skipped, val) ==
    LET oct == b[p + skipped - 1]
        more == val * 128 + (oct % 128)
    IN  CASE skipped > size -> [n |-> 0, tag |-> 0]
          [] skipped <= size /\ oct < 128 -> [n |-> skipped, tag |-> 4 * more + b[p] \div 64]
          [] skipped <= size /\ oct >= 128 /\ more >= 2^23 -> [n |-> -1, tag |-> 0]
          [] OTHER -> LongTag(b, p, size, skipped + 1, more)

ber_fetch_tag(b, p, size) ==
    CASE size <= 0 -> [n |-> 0, tag |-> 0]
      [] size > 0 /\ b[p] % 32 # 31 -> [n |-> 1, tag |-> 4 * (b[p] % 32) + b[p] \div 64]
      [] OTHER -> LongTag(b, p, size, 2, 0)

Constructed(oct) == (oct \div 32) % 2 = 1

RECURSIVE LongLength(_, _, _, _, _)
LongLength(b, p, size, skipped, len) ==
    LET octs == b[p] % 128 IN
    CASE skipped = octs + 1 -> [n |-> IF len > MaxLong - 1024 THEN -1 ELSE skipped, len |-> len]
      [] skipped # octs + 1 /\ skipped >= size -> [n |-> 0, len |-> 0]
      [] skipped # octs + 1 /\ skipped < size
         /\ (len >= 2^23 \/ (len >= 2^16 /\ skipped < octs)) -> [n |-> -1, len |-> 0]
      [] OTHER -> LongLength(b, p, size, skipped + 1, len * 256 + b[p + skipped])

ber_fetch_length(constructed, b, p, size) ==
    CASE size <= 0 -> [n |-> 0, len |-> 0]
      [] size > 0 /\ b[p] < 128 -> [n |-> 1, len |-> b[p]]
      [] size > 0 /\ b[p] = 128 /\ constructed -> [n |-> 1, len |-> -1]
      [] size > 0 /\ b[p] = 255 -> [n |-> -1, len |-> 0]
      [] OTHER -> LongLength(b, p, size, 1, 0)

RECURSIVE Base(_, _, _)
Base(n, radix, first) ==        \* the digits of n; all but the last have `first' added
    IF n < radix THEN <<n>>
    ELSE LET front == Base(n \div radix, radix, first)
         IN  [front EXCEPT ![Len(front)] = @ + first] \o <<n % radix>>

ber_tlv_tag_serialize_Mutant(tag) ==
    LET class == (tag % 4) * 32
        val == tag \div 4
    IN  IF val <= 30 THEN <<class + val>> ELSE <<class + 31>> \o Base(val, 128, 128)

ber_tlv_tag_serialize(tag) ==
    LET class == (tag % 4) * 64
        val == tag \div 4
    IN  IF val <= 30 THEN <<class + val>> ELSE <<class + 31>> \o Base(val, 128, 128)

der_tlv_length_serialize(len) ==
    IF len <= 127 THEN <<len>>
    ELSE LET digits == Base(len, 256, 0) IN <<128 + Len(digits)>> \o digits
-----------------------------------------------------------------------------
(* ber_check_tags: read the chain of tags in front of a type's contents.   *)
(* Yields the length of the contents, or minus the number of end-of-       *)
(* contents marks to come, and remembers in step how far it got.           *)

\* k: the cursor, and what the chain has fixed so far
TagReturn(code, k) ==
    [code |-> code, used |-> IF code # "OK" /\ ~k.ctx THEN 0 ELSE k.used,
     step |-> k.step, constr |-> k.constr,
     length |-> IF k.terminators > 0 THEN -k.terminators ELSE k.len]

RECURSIVE TagChain(_, _, _, _, _)

\* The length l of the element, after its tag and length of tl octets
TagLength(b, td, mode, form, k, tl, l) ==
    LET limit == IF k.limit = -1 THEN l.len ELSE k.limit - tl
        next == [k EXCEPT !.p = @ + tl, !.used = @ + tl, !.step = @ + 1,
                          !.constr = Constructed(b[k.p]), !.len = l.len]
    IN  IF l.n < 1 THEN TagReturn(IF l.n = 0 THEN "WMORE" ELSE "FAIL", k)
        ELSE IF l.len = -1
             THEN IF k.limit # -1 THEN TagReturn("FAIL", k)
                  ELSE TagChain(b, td, mode, form, [next EXCEPT !.size = @ - tl, !.terminators = @ + 1])
        ELSE IF k.terminators > 0 \/ limit # l.len THEN TagReturn("FAIL", k)
        ELSE TagChain(b, td, mode, form,
               [next EXCEPT !.limit = limit, !.size = IF @ - tl > limit THEN limit ELSE @ - tl])

\* The tag t, where the type's tag number tagno is due, and then the length
TagMatch(b, td, mode, form, k, tagno, t) ==
    LET constr == Constructed(b[k.p])
        Then(l) == TagLength(b, td, mode, form, k, t.n + l.n, l)
    IN  CASE t.n < 1 -> TagReturn(IF t.n = 0 THEN "WMORE" ELSE "FAIL", k)
          [] t.n > 0 /\ \/ ~(mode # 0 /\ k.step = 0) /\ t.tag # td.tags[tagno + 1]
                        \/ tagno < Len(td.tags) - 1 /\ ~constr
                        \/ tagno = Len(td.tags) - 1 /\ form # "any" /\ (form = "constructed") # constr ->
               TagReturn("FAIL", k)
          [] OTHER -> Then(ber_fetch_length(constr, b, k.p + t.n, k.size - t.n))

TagChain(b, td, mode, form, k) ==
    LET tagno == k.step + (IF mode = 1 THEN -1 ELSE 0)
    IN  IF tagno >= Len(td.tags) THEN TagReturn("OK", k)
        ELSE TagMatch(b, td, mode, form, k, tagno, ber_fetch_tag(b, k.p, k.size))

\* ctx: whether the caller has a context that keeps the step between calls
ber_check_tags(td, c, ctx, mode, form) ==
    TagChain(c.b, td, mode, form,
             [p |-> c.p, size |-> c.size, used |-> 0, ctx |-> ctx,
              step |-> IF ctx THEN c.st.step ELSE 0, constr |-> FALSE,
              len |-> -1, limit |-> -1, terminators |-> 0])

\* Phase 0 of a structured type: goes on after the tags
CheckTags(td, c, mode, form) ==
    LET After(r) ==
            LET st == [c.st EXCEPT !.step = r.step]
                left == IF r.length >= 0 THEN r.length + r.used ELSE r.length
            IN  IF r.code # "OK" THEN [code |-> r.code, used |-> r.used, st |-> st]
                ELSE NextPhase(Advance([c EXCEPT !.st = [st EXCEPT !.left = left]], r.used))
    IN  After(ber_check_tags(td, c, TRUE, mode, form))

\* A tag is missing: wait for it, unless the structure ends here
Short(c) == Return(IF SizeViolation(c) THEN "FAIL" ELSE "WMORE", c)

\* The next tag of an indefinite-length structure, when its first octet is zero
ZeroTag(c) == c.st.left < 0 /\ c.b[c.p] = 0
EndMark(c) == ZeroTag(c) /\ Left(c) >= 2 /\ c.b[c.p + 1] = 0

\* The next tag; a lone or a bad zero octet returns
NextTag(c) ==
    LET t == ber_fetch_tag(c.b, c.p, Left(c))
    IN  CASE t.n = 0 -> Short(c)
          [] t.n = -1 -> Return("FAIL", c)
          [] t.n > 0 /\ ZeroTag(c) /\ Left(c) < 2 -> Short(c)
          [] t.n > 0 /\ ZeroTag(c) /\ Left(c) >= 2 /\ ~EndMark(c) -> Return("FAIL", c)
          [] OTHER -> [code |-> "GO", tag |-> t.tag]
-----------------------------------------------------------------------------
(* Primitive types                                                         *)

\* Two's complement, most significant octet first
RECURSIVE asn_long2INTEGER(_)
asn_long2INTEGER(v) ==
    IF v \in -128..127 THEN <<v % 256>>
    ELSE asn_long2INTEGER(v \div 256) \o <<v % 256>>

Superfluous(o) == Len(o) > 1 /\ \/ o[1] = 0 /\ o[2] < 128
                                \/ o[1] = 255 /\ o[2] >= 128

RECURSIVE Canonical(_)
Canonical(o) == IF Superfluous(o) THEN Canonical(Tail(o)) ELSE o

Signed(o) == FoldLeft(LAMBDA l, d : 256 * l + d,
                      IF o # <<>> /\ o[1] >= 128 THEN -1 ELSE 0, o)

\* <<the long>>, or <<>> when it does not fit
asn_INTEGER2long(o) ==
    LET r == IF Len(o) > 4 THEN Canonical(o) ELSE o
    IN  IF Len(r) > 4 THEN <<>> ELSE <<Signed(r)>>

\* All or nothing: the contents are only taken when all of them are there
PrimitiveContents(td, c, mode) ==
    LET Without(code, used) == [code |-> code, used |-> used, octets |-> <<>>]
        After(r) ==
            IF r.code # "OK" THEN Without(r.code, r.used)
            ELSE IF r.length > c.size - r.used THEN Without("WMORE", 0)
            ELSE [code |-> "OK", used |-> r.used + r.length,
                  octets |-> SubSeq(c.b, c.p + r.used, c.p + r.used + r.length - 1)]
    IN  After(ber_check_tags(td, c, FALSE, mode, "primitive"))

\* The contents as <<the value>> they stand for, <<>> when they stand for none
Taken(c, contents, value) ==
    IF contents.code # "OK" THEN [code |-> contents.code, used |-> contents.used, st |-> c.st]
    ELSE IF value = <<>> THEN [code |-> "FAIL", used |-> 0, st |-> c.st]
    ELSE [code |-> "OK", used |-> contents.used, st |-> [c.st EXCEPT !.n = value[1]]]

ber_decode_primitive(td, c, mode) ==
    LET contents == PrimitiveContents(td, c, mode)
    IN  Taken(c, contents, <<contents.octets>>)

NativeInteger_decode_ber(td, c, mode) ==
    LET contents == PrimitiveContents(td, c, mode)
        l == asn_INTEGER2long(contents.octets)
    IN  Taken(c, contents, IF l = <<>> THEN <<>> ELSE <<l>>)

\* The first octet that is not zero; NULL is decoded by the same function
BOOLEAN_decode_ber(td, c, mode) ==
    LET contents == PrimitiveContents(td, c, mode)
        first == FoldLeft(LAMBDA v, d : IF v = 0 THEN d ELSE v, 0, contents.octets)
    IN  Taken(c, contents, <<<<first>>>>)

\* Zero the low `unused' bits of the last octet
ClearUnused(o) ==
    IF Len(o) < 2 THEN o ELSE [o EXCEPT ![Len(o)] = (@ \div 2^o[1]) * 2^o[1]]

\* Contents are taken as they come.  A BIT STRING's first octet, the number of unused
\* bits, is n[1] here.
OCTET_STRING_contents(td, c) ==
    LET k == IF c.size < c.st.left THEN c.size ELSE c.st.left
        d == [Advance(c, k) EXCEPT !.st.n = @ \o SubSeq(c.b, c.p, c.p + k - 1)]
    IN  IF c.size < c.st.left THEN Return("WMORE", d)
        ELSE Return("OK", PhaseOut([d EXCEPT !.st.n =
                                      IF td.kind = "BIT_STRING" THEN ClearUnused(@) ELSE @]))

OCTET_STRING_decode_ber(td, c, mode) ==
    LET r == ber_check_tags(td, c, TRUE, mode, "any")
        st == [c.st EXCEPT !.step = r.step, !.left = r.length + r.used, !.phase = 3]
    IN  CASE c.st.phase = 3 -> OCTET_STRING_contents(td, c)
          [] c.st.phase = 0 /\ r.code # "OK" ->
               [code |-> r.code, used |-> r.used, st |-> [c.st EXCEPT !.step = r.step]]
          [] OTHER -> OCTET_STRING_contents(td, Advance([c EXCEPT !.st = st], r.used))
-----------------------------------------------------------------------------
(* Structured types                                                        *)

Sign(x, y) == CASE x < y -> -1 [] x > y -> 1 [] OTHER -> 0

\* By class, then by number
Search4tag(tag, e) ==
    IF tag % 4 # e.tag % 4 THEN Sign(tag % 4, e.tag % 4) ELSE Sign(tag \div 4, e.tag \div 4)

T2e_cmp(tag, edx, e) ==
    IF tag = e.tag THEN IF edx > e.el_no THEN 1 ELSE 0 ELSE Search4tag(tag, e)

\* bsearch(3) over map[lo+1..hi]: an index, or 0.  A CHOICE searches by tag alone, which
\* is the search from edx = 0.
RECURSIVE Bsearch(_, _, _, _, _)
Bsearch(map, tag, edx, lo, hi) ==
    LET mid == (lo + hi) \div 2
        d == T2e_cmp(tag, edx, map[mid + 1])
    IN  CASE lo >= hi -> 0
          [] lo < hi /\ d = 0 -> mid + 1
          [] lo < hi /\ d < 0 -> Bsearch(map, tag, edx, lo, mid)
          [] OTHER -> Bsearch(map, tag, edx, mid + 1, hi)

\* The member a tag stands for, from member edx on: the search over the next few
\* members, then, when one of them has no tag of its own, over the map.  -1: none.
MapSearch(td, edx, tag) ==
    LET Near(i) == {j \in (i + td.tag2el[i].toff_first)..(i + td.tag2el[i].toff_last) :
                       td.tag2el[j].el_no \in edx..(edx + td.elements[edx + 1].optional)}
        Best(near) == IF near = {} THEN -1
                      ELSE td.tag2el[CHOOSE j \in near : \A k \in near : k <= j].el_no
        At(i) == IF i = 0 THEN -1 ELSE Best(Near(i))
    IN  At(Bsearch(td.tag2el, tag, edx, 0, Len(td.tag2el)))

MemberFor(td, edx, tag) ==
    LET end == edx + td.elements[edx + 1].optional + 1
        cap == IF end > Len(td.elements) THEN Len(td.elements)
               ELSE IF end - edx > 8 THEN edx + 8 ELSE end
        stop == {n \in edx..(cap - 1) : td.elements[n + 1].tag \in {tag, Amb}}
        n == CHOOSE m \in stop : \A k \in stop : m <= k
    IN  IF stop # {} /\ td.elements[n + 1].tag = tag THEN n
        ELSE IF stop # {} \/ (end <= Len(td.elements) /\ end - edx > 8)
        THEN MapSearch(td, edx, tag) ELSE -1

RECURSIVE Decode(_, _, _, _, _, _)

\* The end-of-contents marks after a structure's last member.  (Without extensions
\* phase 4 of a SEQUENCE is its phase 3.)
RECURSIVE EndMarks(_)
EndMarks(c) ==
    IF c.st.left = 0 THEN Return("OK", PhaseOut(c))
    ELSE IF NextTag(c).code # "GO" THEN NextTag(c)
    ELSE IF EndMark(c) THEN EndMarks([Advance(c, 2) EXCEPT !.st.left = @ + 1])
    ELSE Return("FAIL", c)

\* A member was decoded with result r, not to its end, and stored in d
Unfinished(c, d, r) ==
    IF r.code = "WMORE" /\ ~SizeViolation(c) THEN Return("WMORE", Advance(d, r.used)) ELSE Return("FAIL", d)

\* step = 2 * member + microphase
SEQUENCE_member(td, c) ==
    LET edx == c.st.step \div 2
        m == td.elements[edx + 1]
        r == Decode(c.b, c.p, Left(c), m.type, c.st.c[edx + 1], m.mode)
        d == [c EXCEPT !.st.c[edx + 1] = r.st]
    IN  CASE c.code # "GO" -> c
          [] c.code = "GO" /\ r.code = "OK" -> [Advance(d, r.used) EXCEPT !.st.step = 2 * edx + 2]
          [] OTHER -> Unfinished(c, d, r)

SEQUENCE_tag(td, c) ==
    LET edx == c.st.step \div 2
        t == NextTag(c)
        n == MemberFor(td, edx, t.tag)
        mayEnd == edx + td.elements[edx + 1].optional = Len(td.elements)
    IN  IF c.st.left = 0 /\ mayEnd THEN Return("OK", PhaseOut(c))
        ELSE IF t.code # "GO" THEN t
        ELSE IF EndMark(c) /\ mayEnd THEN EndMarks([c EXCEPT !.st.phase = 3])
        ELSE IF n = -1 THEN Return("FAIL", c)
        ELSE [c EXCEPT !.st.step = 1 + 2 * n]

RECURSIVE SEQUENCE_members(_, _)
SEQUENCE_members(td, c) ==
    IF c.code # "GO" THEN c
    ELSE IF c.st.step \div 2 >= Len(td.elements) THEN EndMarks([c EXCEPT !.st.phase = 3])
    ELSE SEQUENCE_members(td, SEQUENCE_member(td, IF c.st.step % 2 = 0 THEN SEQUENCE_tag(td, c) ELSE c))

SEQUENCE_decode_ber(td, c, mode) ==
    CASE c.st.phase = 0 -> SEQUENCE_members(td, CheckTags(td, c, mode, "constructed"))
      [] c.st.phase = 1 -> SEQUENCE_members(td, c)
      [] OTHER -> EndMarks(c)

CHOICE_end(td, c, mode) ==
    CASE c.st.left > 0 -> Return("FAIL", c)
      [] c.st.left = -1 /\ mode = 0 /\ td.tags = <<>> -> Return("OK", NextPhase(c))
      [] OTHER -> EndMarks(c)

CHOICE_member(td, c, mode) ==
    LET m == td.elements[c.st.step + 1]
        r == Decode(c.b, c.p, Left(c), m.type, IF c.st.c = <<>> THEN Absent ELSE c.st.c[1], m.mode)
        d == [c EXCEPT !.st.n = <<c.st.step + 1>>, !.st.c = <<r.st>>]
    IN  IF r.code = "OK" THEN CHOICE_end(td, NextPhase(Advance(d, r.used)), mode) ELSE Unfinished(c, d, r)

CHOICE_tag(td, c, mode) ==
    LET t == ber_fetch_tag(c.b, c.p, Left(c))
        i == Bsearch(td.tag2el, t.tag, 0, 0, Len(td.tag2el))
    IN  CASE c.code # "GO" -> c
          [] c.code = "GO" /\ t.n = 0 -> Short(c)
          [] c.code = "GO" /\ (t.n = -1 \/ (t.n > 0 /\ i = 0)) -> Return("FAIL", c)
          [] OTHER -> CHOICE_member(td, [NextPhase(c) EXCEPT !.st.step = td.tag2el[i].el_no], mode)

CHOICE_decode_ber(td, c, mode) ==
    CASE c.st.phase = 0 ->
           CHOICE_tag(td, IF mode # 0 \/ td.tags # <<>> THEN CheckTags(td, c, mode, "any")
                          ELSE NextPhase([c EXCEPT !.st.left = -1]), mode)
      [] c.st.phase = 1 -> CHOICE_tag(td, c, mode)
      [] c.st.phase = 2 -> CHOICE_member(td, c, mode)
      [] c.st.phase = 3 -> CHOICE_end(td, c, mode)
      [] OTHER -> Return("OK", c)

RECURSIVE SET_OF_end(_)
SET_OF_end(c) ==
    CASE c.st.left >= 0 -> Return("OK", PhaseOut(c))
      [] c.st.left < 0 /\ Left(c) < 2 ->
           Return(IF Left(c) > 0 /\ c.b[c.p] # 0 THEN "FAIL" ELSE "WMORE", c)
      [] OTHER -> IF EndMark(c) THEN SET_OF_end([Advance(c, 2) EXCEPT !.st.left = @ + 1])
                  ELSE Return("FAIL", c)

SET_OF_item(td, c) ==
    LET r == Decode(c.b, c.p, Left(c), td.elements[1].type, IF c.st.ptr = <<>> THEN Absent ELSE c.st.ptr[1], 0)
        d == [c EXCEPT !.st.ptr = <<r.st>>]
    IN  CASE c.code # "GO" -> c
          [] c.code = "GO" /\ r.code = "OK" ->
               [Advance(d, r.used) EXCEPT !.st.c = @ \o d.st.ptr, !.st.ptr = <<>>, !.st.step = 0]
          [] OTHER -> Unfinished(c, d, r)

SET_OF_tag(td, c) ==
    LET t == NextTag(c)
    IN  IF c.st.left = 0 THEN Return("OK", PhaseOut(c))
        ELSE IF t.code # "GO" THEN t
        ELSE IF EndMark(c) THEN SET_OF_end(NextPhase(c))
        ELSE IF td.elements[1].tag \notin {Amb, t.tag} THEN Return("FAIL", c)
        ELSE [c EXCEPT !.st.step = 1]

RECURSIVE SET_OF_items(_, _)
SET_OF_items(td, c) ==
    IF c.code # "GO" THEN c
    ELSE SET_OF_items(td, SET_OF_item(td, IF c.st.step = 0 THEN SET_OF_tag(td, c) ELSE c))

SET_OF_decode_ber(td, c, mode) ==
    CASE c.st.phase = 0 -> SET_OF_items(td, CheckTags(td, c, mode, "constructed"))
      [] c.st.phase = 1 -> SET_OF_items(td, c)
      [] OTHER -> SET_OF_end(c)

DecodeAs(td, c, mode) ==
    CASE td.kind = "SEQUENCE" -> SEQUENCE_decode_ber(td, c, mode)
      [] td.kind = "CHOICE" -> CHOICE_decode_ber(td, c, mode)
      [] td.kind = "SEQUENCE_OF" -> SET_OF_decode_ber(td, c, mode)
      [] td.kind = "INTEGER" -> ber_decode_primitive(td, c, mode)
      [] td.kind = "NativeInteger" -> NativeInteger_decode_ber(td, c, mode)
      [] td.kind \in {"BOOLEAN", "NULL"} -> BOOLEAN_decode_ber(td, c, mode)
      [] td.kind \in {"OCTET_STRING", "BIT_STRING"} -> OCTET_STRING_decode_ber(td, c, mode)

Decode(b, p, size, type, old, mode) ==
    DecodeAs(asn_DEF[type], Cursor(b, p, size, Ensure(old, asn_DEF[type])), mode)
-----------------------------------------------------------------------------
(* The DER encoder.  `indefinite' is not the stack's: it is the other form *)
(* a peer may send, with end-of-contents marks instead of lengths.         *)

der_write_TL(tag, body, constructed, indefinite) ==
    LET t == ber_tlv_tag_serialize(tag)
        head == IF constructed THEN [t EXCEPT ![1] = @ + 32] ELSE t
    IN  IF constructed /\ indefinite THEN head \o <<128>> \o body \o <<0, 0>>
        ELSE head \o der_tlv_length_serialize(Len(body)) \o body

\* The tags of a type under a member's tag: the member's comes first and, when it is
\* IMPLICIT, replaces the type's first
TagsFor(td, mode, tag) ==
    IF mode = 0 THEN td.tags
    ELSE <<tag>> \o (IF mode = -1 /\ td.tags # <<>> THEN Tail(td.tags) ELSE td.tags)

RECURSIVE der_write_tags(_, _, _, _)
der_write_tags(tags, body, constructed, indefinite) ==
    IF tags = <<>> THEN body
    ELSE der_write_TL(tags[1], der_write_tags(Tail(tags), body, constructed, indefinite),
                      constructed \/ Len(tags) > 1, indefinite)

RECURSIVE Encode(_, _, _, _, _)

\* The encodings of the members from the first to the last one, in their order; a
\* SEQUENCE OF has one type of member.
RECURSIVE Members(_, _, _, _, _)
Members(td, v, first, last, indefinite) ==
    LET middle == (first + last) \div 2
        m == td.elements[IF td.kind = "SEQUENCE" THEN first ELSE 1]
    IN  IF first > last THEN <<>>
        ELSE IF first < last
             THEN Members(td, v, first, middle, indefinite) \o Members(td, v, middle + 1, last, indefinite)
        ELSE IF v.c[first] = Absent THEN <<>>
        ELSE Encode(m.type, v.c[first], IF td.kind = "SEQUENCE" THEN m.mode ELSE 0, m.tag, indefinite)

SEQUENCE_encode_der(td, v, indefinite) == Members(td, v, 1, Len(v.c), indefinite)
SEQUENCE_OF_encode_der(td, v, indefinite) == Members(td, v, 1, Len(v.c), indefinite)

CHOICE_encode_der(td, v, indefinite) ==
    LET chosen == td.elements[v.n[1]]
    IN  Encode(chosen.type, v.c[1], chosen.mode, chosen.tag, indefinite)

\* The contents of the primitive types
INTEGER_encode_der(v) == Canonical(v.n)
NativeInteger_encode_der(v) == asn_long2INTEGER(v.n[1])
BOOLEAN_encode_der(v) == <<IF v.n[1] = 0 THEN 0 ELSE 1>>
NULL_encode_der(v) == <<>>
\* Of a BIT STRING's number of unused bits only the low three bits count: a caller that says
\* eight means none.
OCTET_STRING_encode_der(td, v) ==
    IF td.kind = "BIT_STRING" THEN ClearUnused([v.n EXCEPT ![1] = @ % 8]) ELSE v.n

Contents(td, v, indefinite) ==
    CASE td.kind = "SEQUENCE" -> SEQUENCE_encode_der(td, v, indefinite)
      [] td.kind = "CHOICE" -> CHOICE_encode_der(td, v, indefinite)
      [] td.kind = "SEQUENCE_OF" -> SEQUENCE_OF_encode_der(td, v, indefinite)
      [] td.kind = "INTEGER" -> INTEGER_encode_der(v)
      [] td.kind = "NativeInteger" -> NativeInteger_encode_der(v)
      [] td.kind = "BOOLEAN" -> BOOLEAN_encode_der(v)
      [] td.kind = "NULL" -> NULL_encode_der(v)
      [] td.kind \in {"OCTET_STRING", "BIT_STRING"} -> OCTET_STRING_encode_der(td, v)

\* A CHOICE that is not tagged has no tags of its own.  (The contents are bound first, so that
\* they are evaluated once.)
Encode(type, v, mode, tag, indefinite) ==
    LET td == asn_DEF[type]
        constructed == td.kind \in {"SEQUENCE", "CHOICE", "SEQUENCE_OF"}
    IN  CHOOSE octets \in {der_write_tags(TagsFor(td, mode, tag), body, constructed, indefinite) :
                              body \in {Contents(td, v, indefinite)}} : TRUE

\* The value of a structure, without the decoder's context
RECURSIVE ValueOf(_)
ValueOf(st) == IF st = Absent THEN Absent
               ELSE Node(st.n, [i \in DOMAIN st.c |-> ValueOf(st.c[i])])
-----------------------------------------------------------------------------
(* The decoder when the whole message is there: nothing is wanted more, so *)
(* that each element can be taken by itself.  (Lengths are definite.)      *)

NoElement == [tag |-> 0, p |-> 0, end |-> 0]

\* The element at p, before end
ElementAt(b, p, end) ==
    LET Of(tag, at, l) == IF l.n < 1 \/ l.len < 0 \/ at + l.n + l.len > end THEN NoElement
                          ELSE [tag |-> tag, p |-> p, end |-> at + l.n + l.len]
        After(t) == IF t.n < 1 THEN NoElement
                    ELSE Of(t.tag, p + t.n, ber_fetch_length(Constructed(b[p]), b, p + t.n, end - p - t.n))
    IN  After(ber_fetch_tag(b, p, end - p))

RECURSIVE ElementsOf(_, _, _)
ElementsOf(b, p, end) ==
    LET e == ElementAt(b, p, end)
    IN  IF p >= end THEN <<>> ELSE IF e = NoElement THEN <<e>> ELSE <<e>> \o ElementsOf(b, e.end, end)

\* The members of a SEQUENCE that the elements from i on are; -1: not its members
RECURSIVE Places(_, _, _, _)
Places(td, es, i, edx) ==
    LET n == MemberFor(td, edx, es[i].tag)
    IN  IF edx >= Len(td.elements) THEN IF i > Len(es) THEN <<>> ELSE <<-1>>
        ELSE IF i > Len(es) THEN IF edx + td.elements[edx + 1].optional = Len(td.elements) THEN <<>> ELSE <<-1>>
        ELSE IF n = -1 THEN <<-1>>
        ELSE <<n + 1>> \o Places(td, es, i + 1, n + 1)

Garbled == [Absent EXCEPT !.phase = -2]

\* A part of a structure: an element and the member it stands for; a member may have none
Part(m, mode, e) == [type |-> m.type, mode |-> mode, e |-> e]
NoPart == [type |-> "", mode |-> 0, e |-> NoElement]

Unsplit == [ok |-> FALSE, n |-> <<>>, parts |-> <<>>]

\* The elements es inside a value of the structured type td: the index of the alternative of a
\* CHOICE, and the parts
SplitSequence(td, es, places) ==
    LET Of(k) == IF k \notin Range(places) THEN NoPart
                 ELSE Part(td.elements[k], td.elements[k].mode, es[CHOOSE j \in DOMAIN places : places[j] = k])
    IN  [ok |-> -1 \notin Range(places), n |-> <<>>, parts |-> [k \in DOMAIN td.elements |-> Of(k)]]

SplitChoice(td, es, i) ==
    LET n == td.tag2el[i].el_no + 1
    IN  IF Len(es) # 1 \/ i = 0 THEN Unsplit
        ELSE [ok |-> TRUE, n |-> <<n>>, parts |-> <<Part(td.elements[n], td.elements[n].mode, es[1])>>]

SplitElements(td, es) ==
    CASE NoElement \in Range(es) -> Unsplit
      [] NoElement \notin Range(es) /\ td.kind = "SEQUENCE" -> SplitSequence(td, es, Places(td, es, 1, 0))
      [] NoElement \notin Range(es) /\ td.kind = "SEQUENCE_OF" ->
           [ok |-> td.elements[1].tag = Amb \/ \A k \in DOMAIN es : es[k].tag = td.elements[1].tag,
            n |-> <<>>, parts |-> [k \in DOMAIN es |-> Part(td.elements[1], 0, es[k])]]
      [] NoElement \notin Range(es) /\ td.kind = "CHOICE" ->
           SplitChoice(td, es, Bsearch(td.tag2el, es[1].tag, 0, 0, Len(td.tag2el)))

\* The element e, read as the structured type td; a CHOICE without tags is the element itself
Split(td, b, e, mode) ==
    LET Inside(inner) == IF inner.code = "GO" THEN SplitElements(td, ElementsOf(b, inner.p, e.end)) ELSE Unsplit
    IN  IF td.kind = "CHOICE" /\ mode = 0 /\ td.tags = <<>> THEN SplitElements(td, <<e>>)
        ELSE Inside(CheckTags(td, Cursor(b, e.p, e.end - e.p, Fresh(td)), mode,
                              IF td.kind = "CHOICE" THEN "any" ELSE "constructed"))

\* What the element e is, read as `type'
RECURSIVE Whole(_, _, _, _)

Assembled(b, s) ==
    LET c == [k \in DOMAIN s.parts |->
                IF s.parts[k] = NoPart THEN Absent
                ELSE Whole(s.parts[k].type, b, s.parts[k].e, s.parts[k].mode)] \o <<>>
    IN  IF s.ok /\ \A k \in DOMAIN s.parts : c[k] # Garbled THEN Node(s.n, c) ELSE Garbled

WholeLeaf(r) == IF r.code = "OK" THEN ValueOf(r.st) ELSE Garbled

Whole(type, b, e, mode) ==
    IF asn_DEF[type].kind \in {"CHOICE", "SEQUENCE", "SEQUENCE_OF"}
    THEN Assembled(b, Split(asn_DEF[type], b, e, mode))
    ELSE WholeLeaf(Decode(b, e.p, e.end - e.p, type, Absent, mode))

\* What ber_decode makes of a message that is there at once; Absent when it does not accept it
Message(type, b) ==
    LET e == ElementAt(b, 1, Len(b) + 1)
        Accepted(st) == IF st = Garbled THEN Absent ELSE st
    IN  IF e = NoElement THEN Absent ELSE Accepted(Whole(type, b, e, 0))
-----------------------------------------------------------------------------
\* Alternatives the stack's tables have and the dissector's grammar lacks: generalizedtime
\* of Data, and floatingpoint, mMSString and utctime of TypeSpecification
Undissected == {<<"Data", Ctx(11)>>, <<"AccessResult", Ctx(11)>>} \cup
               {<<"TypeSpecification", Ctx(n)>> : n \in {7, 16, 17}}

\* The value of `type' uses one of them
RECURSIVE Uses(_, _)
Uses(type, v) ==
    LET td == asn_DEF[type]
        m(i) == IF td.kind = "SEQUENCE" THEN td.elements[i]
                ELSE IF td.kind = "CHOICE" THEN td.elements[v.n[1]] ELSE td.elements[1]
    IN  /\ v # Absent
        /\ \E i \in DOMAIN v.c : <<type, m(i).tag>> \in Undissected \/ Uses(m(i).type, v.c[i])
=============================================================================
