--------------------------- MODULE ApacheRequest ----------------------------
(***************************************************************************)
(* What mod_pcc reads of a request (apache1/apache_request.c, and          *)
(* apache_multipart_buffer.c; apache2 has the same code): the parameters   *)
(* of the query, then those of the body, as a urlencoded string or as      *)
(* multipart/form-data.  A multipart body passes through a buffer that     *)
(* moves along it, so a boundary may lie across its end; and a read gives  *)
(* what has arrived, which may be less than what was asked for.            *)
(*                                                                         *)
(* The text of a form is made of "x", "cr", "lf", the dashes "-" and the   *)
(* boundary "b"; the header of a part is one token, its name.  Escapes of  *)
(* urlencoded text are left out.                                           *)
(***************************************************************************)
EXTENDS Integers, Sequences
LOCAL INSTANCE SequencesExt

CONSTANTS
    FillUnit,       \* FILLUNIT: what a read of a body asks for
    Forms,          \* forms: sequences of [name, kind, value]
    Queries         \* queries: sequences of [name, value]

Boundary == <<"-", "b">>
Delimiter == <<"lf">> \o Boundary
CrLf == <<"cr", "lf">>
NoLine == <<"none">>

ASSUME RequestAssumption ==
    /\ FillUnit \in Nat \ {0, 1}
    /\ \A form \in Forms : \A i \in DOMAIN form : form[i].kind \in {"field", "file", "bare"}

VARIABLES
    posted,     \* the form as it was sent: encoding, query, fields
    input,      \* the buffer, what is still on the wire, r->remaining, and
                \* whether reads are whole, short, or the client is gone
    parsing,    \* where ApacheRequest_parse is, and the name of the part
    parms       \* req->parms and the uploads, in order: names and values

asked == <<posted, input, parsing, parms>>

(* minsize of multipart_buffer_new, without the dashes.                     *)
BufSize == IF Len(Boundary) + 5 > FillUnit THEN Len(Boundary) + 5 ELSE FillUnit

-----------------------------------------------------------------------------
(* A browser.  Mozilla leaves out the line end of an empty file ("bare").   *)
PartText(f) ==
    Boundary \o CrLf \o <<f.name>> \o CrLf \o CrLf
        \o (IF f.kind = "bare" THEN <<>> ELSE f.value \o CrLf)

BodyText(enc, form) ==
    IF enc = "multipart"
    THEN FlattenSeq([i \in DOMAIN form |-> PartText(form[i])]) \o Boundary \o <<"-">> \o CrLf
    ELSE FlattenSeq([i \in DOMAIN form |->
            (IF i = 1 THEN <<>> ELSE <<"&">>) \o <<form[i].name, "=">> \o form[i].value])

RequestInit ==
    \E form \in Forms, query \in Queries, net \in {"whole", "short"},
       enc \in {"multipart", "urlencoded", "other", "none"} :
        /\ posted = [enc |-> enc, query |-> query, form |-> form]
        /\ input = [buf |-> <<>>, wire |-> BodyText(enc, form),
                    remaining |-> Len(BodyText(enc, form)), net |-> net]
        /\ parsing = [at |-> "start", name |-> "none"]
        /\ parms = <<>>

Where(here) == parsing.at = here
Go(there) == parsing' = [parsing EXCEPT !.at = there]
Add(name) == parms' = Append(parms, [name |-> name, value |-> <<>>])

-----------------------------------------------------------------------------
(* ap_get_client_block: as much as was asked for, less, or nothing more.    *)
Received(i, want) ==
    LET sizes == IF want <= 0 \/ i.net = "gone" THEN {0}
                 ELSE IF i.net = "whole" THEN {want} ELSE 0..want
    IN {[buf |-> i.buf \o SubSeq(i.wire, 1, n),
         wire |-> SubSeq(i.wire, n + 1, Len(i.wire)),
         remaining |-> i.remaining - n,
         net |-> IF n = 0 /\ want > 0 THEN "gone" ELSE i.net] : n \in sizes}

(* At the end of the data it leaves out as many bytes as the boundary has.  *)
fill_buffer(i) ==
    LET space == BufSize - Len(i.buf)
    IN Received(i, IF space >= i.remaining THEN i.remaining - Len(Boundary) ELSE space)

(* A line without its end; all of a full buffer; or none.                   *)
next_line(i) ==
    LET ends == {k \in DOMAIN i.buf : i.buf[k] = "lf"}
        k == CHOOSE n \in ends : \A m \in ends : n <= m
        line == SubSeq(i.buf, 1, IF k > 1 /\ i.buf[k - 1] = "cr" THEN k - 2 ELSE k - 1)
    IN IF ends # {}
       THEN [line |-> line, input |-> [i EXCEPT !.buf = SubSeq(@, k + 1, Len(@))]]
       ELSE IF Len(i.buf) < BufSize THEN [line |-> NoLine, input |-> i]
       ELSE [line |-> i.buf, input |-> [i EXCEPT !.buf = <<>>]]

(* One more read, and no line if that did not bring its end.                *)
get_line(i) ==
    IF next_line(i).line # NoLine THEN {next_line(i)}
    ELSE {next_line(more) : more \in fill_buffer(i)}

(* The first place of a word, at the end also of its beginning; 0 for none. *)
my_memstr(text, word) ==
    LET places == {k \in DOMAIN text :
                     \A n \in DOMAIN word :
                        k + n - 1 <= Len(text) => text[k + n - 1] = word[n]}
    IN IF places = {} THEN 0 ELSE CHOOSE k \in places : \A m \in places : k <= m

-----------------------------------------------------------------------------
(* ApacheRequest_parse: the query, then the body by its type; too large a   *)
(* body and a type that is not known are errors.                            *)
StartParse ==
    /\ Where("start")
    /\ parms' = posted.query
    /\ \/ Go(IF posted.enc = "other" THEN "failed"
             ELSE IF posted.enc = "none" THEN "done"
             ELSE IF posted.enc = "multipart" THEN "parts" ELSE "string")
       \/ posted.enc \in {"multipart", "urlencoded"} /\ Go("failed")
    /\ UNCHANGED <<posted, input>>

(* util_read, until nothing comes.                                          *)
ReadString ==
    /\ Where("string")
    /\ \E i \in Received(input, input.remaining) :
          /\ input' = i
          /\ IF i.buf = input.buf THEN Go("split") ELSE UNCHANGED parsing
    /\ UNCHANGED <<posted, parms>>

(* split_to_parms, one word at a time: a name, and what comes after the =.  *)
SplitWord ==
    /\ Where("split")
    /\ LET ends == {k \in DOMAIN input.buf : input.buf[k] = "&"} \cup {Len(input.buf) + 1}
           k == CHOOSE n \in ends : \A m \in ends : n <= m
       IN IF input.buf = <<>> THEN Go("done") /\ UNCHANGED <<input, parms>>
          ELSE /\ parms' = Append(parms, [name |-> Head(input.buf),
                                          value |-> SubSeq(input.buf, 3, k - 1)])
               /\ input' = [input EXCEPT !.buf = SubSeq(@, k + 1, Len(@))]
               /\ UNCHANGED parsing
    /\ UNCHANGED posted

-----------------------------------------------------------------------------
(* ApacheRequest_parse_multipart.  multipart_buffer_eof: no data any more.  *)
NextPart ==
    /\ Where("parts")
    /\ \E i \in (IF input.buf = <<>> THEN fill_buffer(input) ELSE {input}) :
          /\ input' = i
          /\ Go(IF i.buf = <<>> THEN "done" ELSE "boundary")
    /\ UNCHANGED <<posted, parms>>

(* Lines up to the boundary; without one the rest is dropped.               *)
FindBoundary ==
    /\ Where("boundary")
    /\ \E got \in get_line(input) :
          /\ input' = got.input
          /\ Go(IF got.line = NoLine THEN "done"
                ELSE IF got.line = Boundary THEN "headers" ELSE "boundary")
    /\ UNCHANGED <<posted, parms>>

KindOf(name) == (CHOOSE i \in DOMAIN posted.form : posted.form[i].name = name)

(* multipart_buffer_headers: up to an empty line, or to no line.            *)
ReadHeader ==
    /\ Where("headers")
    /\ \E got \in get_line(input) :
          /\ input' = got.input
          /\ parsing' = IF got.line \in {NoLine, <<>>} THEN [parsing EXCEPT !.at = "part"]
                        ELSE [parsing EXCEPT !.name = got.line[1]]
    /\ UNCHANGED <<posted, parms>>

(* A part without a name is passed over.  A file needs the permission of    *)
(* the configuration and a temporary file; without one the request fails.   *)
BeginPart ==
    /\ Where("part")
    /\ LET name == parsing.name
       IN IF name = "none" THEN Go("parts") /\ UNCHANGED parms
          ELSE IF posted.form[KindOf(name)].kind = "field" THEN Go("read") /\ Add(name)
          ELSE \/ Go("file") /\ Add(name)
               \/ Go("failed") /\ UNCHANGED parms
    /\ UNCHANGED <<posted, input>>

(* The hack for the bare file: the boundary is there already.  What lies    *)
(* behind the data in the buffer is old, and may look like the rest of it.  *)
CheckBareFile ==
    /\ Where("file")
    /\ \E i \in fill_buffer(input) :
          \/ /\ my_memstr(i.buf, Boundary) = 1 \/ i.buf = <<>>
             /\ input' = [i EXCEPT !.remaining = @ - 2]
             /\ parsing' = [at |-> "parts", name |-> "none"]
          \/ /\ ~IsPrefix(Boundary, i.buf)
             /\ input' = i /\ Go("read")
    /\ UNCHANGED <<posted, parms>>

(* multipart_buffer_read up to what may be the beginning of a boundary, and *)
(* what is done with it; the body ends when there is nothing to read.  The  *)
(* carriage return before the boundary stays in the buffer.                 *)
ReadUpTo(most) ==
    /\ Where("read")
    /\ \E i \in (IF FillUnit > Len(input.buf) THEN fill_buffer(input) ELSE {input}) :
        LET bound == my_memstr(i.buf, Delimiter)
            all == IF bound # 0 THEN bound - 1 ELSE Len(i.buf)
            len == IF all < most THEN all ELSE most
            n == IF bound # 0 /\ len > 0 /\ i.buf[len] = "cr" THEN len - 1 ELSE len
        IN /\ input' = [i EXCEPT !.buf = SubSeq(@, n + 1, Len(@))]
           /\ IF n = 0
              THEN parsing' = [at |-> "parts", name |-> "none"] /\ UNCHANGED parms
              ELSE /\ parms' = [parms EXCEPT ![Len(parms)].value = @ \o SubSeq(i.buf, 1, n)]
                   /\ UNCHANGED parsing
    /\ UNCHANGED posted

(* Mutant: no room is kept for the byte that ends the string.               *)
ReadBodyFull == ReadUpTo(FillUnit)

ReadBody == ReadUpTo(FillUnit - 1)

(* fwrite takes less than it was given.                                     *)
DiskFull ==
    /\ Where("read") /\ posted.form[KindOf(parsing.name)].kind # "field"
    /\ Go("failed")
    /\ UNCHANGED <<posted, input, parms>>

-----------------------------------------------------------------------------
RequestNext ==
    \/ StartParse \/ ReadString \/ SplitWord
    \/ NextPart \/ FindBoundary \/ ReadHeader \/ BeginPart \/ CheckBareFile
    \/ ReadBody \/ DiskFull

RequestSpec == RequestInit /\ [][RequestNext]_asked

-----------------------------------------------------------------------------
(* However the body lies in the buffer and however it arrives, the          *)
(* parameters are those of the query and then those of the form, in their   *)
(* order.  A client that is gone and short reads may cost parts, or ends of *)
(* their values.  All they ever add to a value are line ends: the empty     *)
(* line after the headers, when it did not come with them, and the carriage *)
(* return before the boundary, when a read ends behind it; but a bare file  *)
(* whose boundary did not come at once swallows the next part.  With whole  *)
(* reads nothing differs.                                                   *)
AsSent(i) == [name |-> posted.form[i].name, value |-> posted.form[i].value]
Shortened(value, whole) ==
    IsPrefix(value, whole \o <<"cr">>) \/ IsPrefix(value, CrLf \o whole \o <<"cr">>)

FormAsSent ==
    Where("start") \/
    LET nargs == Len(posted.query)
        form == SubSeq(parms, nargs + 1, Len(parms))
    IN /\ SubSeq(parms, 1, nargs) = posted.query
       /\ \A k \in DOMAIN form : \E i \in DOMAIN posted.form :
            /\ form[k].name = posted.form[i].name
            /\ \/ Shortened(form[k].value, posted.form[i].value)
               \/ posted.form[i].kind = "bare" /\ input.net # "whole"
            /\ \A j \in 1..(k - 1) : \E m \in 1..(i - 1) :
                  form[j].name = posted.form[m].name
       /\ Where("done") /\ input.net = "whole" /\ posted.enc \in {"multipart", "urlencoded"}
            => form = [i \in DOMAIN posted.form |-> AsSent(i)]
=============================================================================
