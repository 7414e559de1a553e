-------------------------------- MODULE Http --------------------------------
(***************************************************************************)
(* The arithmetic of one exchange: http_request_new and                    *)
(* http_request_get_string (core/http-request.c) put a request of known    *)
(* length into a string, http_request (core/http.c) reads the header of    *)
(* the answer byte by byte into a buffer that grows.  Texts are known by   *)
(* their lengths, bytes by what the loop tells apart.  What follows, the   *)
(* body and the file, is in Downloads.                                     *)
(***************************************************************************)
EXTENDS HttpHeaders, Sequences

CONSTANTS
  Names,     (* the names http_request_new sets, that of the host first *)
  Hosts,     (* the hosts of URIs, values of the first name *)
  Fixed,     (* the value of the others *)
  Length,    (* characters of a name or a value *)
  Paths,     (* characters of the paths of URIs *)
  BufInit,   (* the first length of headerBuf: 1024 *)
  BufStep,   (* what it grows by, times a counter: 512 *)
  MaxInt,    (* the largest int *)
  MaxBytes   (* bound: bytes a server sends before the body *)

ASSUME HttpConstants ==
  /\ Names \in Seq(Keys)
  /\ Hosts \subseteq Values /\ Fixed \in Values
  /\ Length \in [Keys \cup Values -> Nat]
  /\ Paths \subseteq Nat
  /\ BufInit \in Nat /\ BufInit > 11
  /\ BufStep \in Nat \ {0}
  /\ MaxInt \in Nat

VARIABLES
  phase,    (* how far the exchange is *)
  slot,     (* the name to set next, or the slot to print next *)
  path,     (* characters of the resource *)
  reqLen,   (* characters reqStr has room for, one byte for the end aside *)
  reqCur,   (* characters in it *)
  buf,      (* headerBuf up to headerBufCurLen *)
  bufLen,   (* headerBufLen *)
  step,     (* the counter it grows by *)
  seen      (* history: the bytes tcp_read gave *)

request == <<path, reqLen, reqCur>>
answer  == <<buf, bufLen, step, seen>>
vars    == <<list, phase, slot, request, answer>>

Bytes == {"cr", "nl", "other"}

Init ==
  /\ ListInit
  /\ phase = "new"
  /\ slot = 1
  /\ path = 0 /\ reqLen = 0 /\ reqCur = 0
  /\ buf = <<>> /\ bufLen = BufInit /\ step = 1 /\ seen = <<>>
-----------------------------------------------------------------------------
(* http_request_new: the names it sets; nobody looks at the results.       *)
SetDefault ==
  /\ phase = "new"
  /\ slot <= Len(Names)
  /\ \/ \E val \in IF slot = 1 THEN Hosts ELSE {Fixed} : SetValue(Names[slot], val)
     \/ SetValueFails(Names[slot])
  /\ slot' = slot + 1
  /\ UNCHANGED <<phase, request, answer>>

(* A caller that uses the list for something else, as none does yet.       *)
UseList ==
  /\ phase \in {"new", "list"}
  /\ slot > Len(Names)
  /\ ListNext
  /\ phase' = "list"
  /\ UNCHANGED <<slot, request, answer>>

(* Mutant: the string has room for the resource only. *)
StartRequestTight(n) ==
  /\ phase = "new"
  /\ slot > Len(Names)
  /\ path' = n
  /\ reqLen' = 32 + n
  /\ reqCur' = n + 15
  /\ slot' = 1
  /\ phase' = "lines"
  /\ UNCHANGED <<list, answer>>

(* http_request_get_string: room, and "GET <resource> HTTP/1.1\r\n".       *)
StartRequest(n) ==
  /\ phase = "new"
  /\ slot > Len(Names)
  /\ path' = n
  /\ reqLen' = IF 32 + n > 1024 THEN 1024 + 32 + n ELSE 1024
  /\ reqCur' = n + 15
  /\ slot' = 1
  /\ phase' = "lines"
  /\ UNCHANGED <<list, answer>>

(* The slots that become a line, and the characters of "name: value\r\n".  *)
Printed == {i \in Used : Length[header[i]] > 0 /\ Length[value[i]] > 0}
LineLength(i) == Length[header[i]] + Length[value[i]] + 4

Room == reqLen - reqCur - 10
TooLong(i) == LineLength(i) + 2 > Room

SkipLine ==
  /\ phase = "lines"
  /\ slot \in Slots \ Printed
  /\ slot' = slot + 1
  /\ UNCHANGED <<list, phase, request, answer>>

(* Mutant: the line is added whatever its length. *)
AddLineUnchecked ==
  /\ phase = "lines"
  /\ slot \in Printed
  /\ reqCur' = reqCur + LineLength(slot)
  /\ slot' = slot + 1
  /\ UNCHANGED <<list, phase, path, reqLen, answer>>

AddLine ==
  /\ phase = "lines"
  /\ slot \in Printed
  /\ ~TooLong(slot)
  /\ reqCur' = reqCur + LineLength(slot)
  /\ slot' = slot + 1
  /\ UNCHANGED <<list, phase, path, reqLen, answer>>

(* g_realloc gives more room, and `if (reqStr) goto error' gives it up.    *)
RefuseLine ==
  /\ phase = "lines"
  /\ slot \in Printed
  /\ TooLong(slot)
  /\ phase' = "refused"
  /\ UNCHANGED <<list, slot, request, answer>>

(* The empty line at the end. *)
EndRequest ==
  /\ phase = "lines"
  /\ slot > MaxHeaders
  /\ reqCur' = reqCur + 2
  /\ phase' = "connect"
  /\ UNCHANGED <<list, slot, path, reqLen, answer>>

(* tcp_connect and tcp_write: an early return, or an answer to read.       *)
SendRequest ==
  /\ phase = "connect"
  /\ phase' \in {"failed", "header"}
  /\ UNCHANGED <<list, slot, request, answer>>
-----------------------------------------------------------------------------
Reads(b) ==
  /\ phase = "header"
  /\ Len(seen) < MaxBytes
  /\ seen' = Append(seen, b)

(* The byte is a line end behind a line end. *)
Ends(b) == b = "nl" /\ buf # <<>> /\ buf[Len(buf)] = "nl"

(* Mutant: '\r' is kept like any other byte. *)
KeptWithReturns(b) == ~Ends(b)

(* Every byte but '\r' and the last of an empty line is kept. *)
Kept(b) == b # "cr" /\ ~Ends(b)

SkipReturn(b) ==
  /\ Reads(b)
  /\ b = "cr"
  /\ UNCHANGED <<list, phase, slot, request, buf, bufLen, step>>

EndHeader(b) ==
  /\ Reads(b)
  /\ Ends(b)
  /\ phase' = "body"
  /\ UNCHANGED <<list, slot, request, buf, bufLen, step>>

(* Mutant: the step replaces the length. *)
NewLengthOfStep == step * BufStep

(* Mutant: every step doubles. *)
NewLengthDoubled == bufLen + 2 * step * BufStep

(* The test before g_realloc is turned round: the buffer grows when there  *)
(* is room, which is to say with every byte.  A length beyond an int is a  *)
(* negative one (g_realloc takes it for one beyond all memory and aborts). *)
NewLength == bufLen + step * BufStep
Grows(n) == n + 10 < bufLen

KeepByte(b) ==
  /\ Reads(b)
  /\ Kept(b)
  /\ buf' = Append(buf, b)
  /\ \/ /\ Grows(Len(buf) + 1) /\ NewLength <= MaxInt
        /\ bufLen' = NewLength /\ step' = step + 1
        /\ UNCHANGED phase
     \/ /\ Grows(Len(buf) + 1) /\ NewLength > MaxInt
        /\ phase' = "aborted"
        /\ UNCHANGED <<bufLen, step>>
     \/ /\ ~Grows(Len(buf) + 1)
        /\ UNCHANGED <<phase, bufLen, step>>
  /\ UNCHANGED <<list, slot, request>>

(* tcp_read gives nothing: taken for the end of the header. *)
CutHeader ==
  /\ phase = "header"
  /\ phase' = "cut"
  /\ UNCHANGED <<list, slot, request, answer>>

(* http_destroy behind an answer, or http_request_destroy of a request that *)
(* is never sent.  A request that was refused or failed is left as it is:  *)
(* download_worker returns and frees nothing.                              *)
DestroyRequest ==
  /\ phase \in {"new", "list", "body", "cut"}
  /\ slot > Len(Names) \/ phase # "new"
  /\ ListDestroy
  /\ phase' = "end"
  /\ UNCHANGED <<slot, request, answer>>

Next ==
  \/ SetDefault \/ UseList
  \/ \E n \in Paths : StartRequest(n)
  \/ SkipLine \/ AddLine \/ RefuseLine \/ EndRequest \/ SendRequest
  \/ \E b \in Bytes : SkipReturn(b) \/ EndHeader(b) \/ KeepByte(b)
  \/ CutHeader \/ DestroyRequest

Spec == Init /\ [][Next]_vars
-----------------------------------------------------------------------------
(* The request is inside its string and whole: the empty line and the byte *)
(* that ends it have room wherever the lines stop, since a line that would *)
(* not leave it is refused and the path alone never takes it.              *)
RequestFits == phase \in {"lines", "connect", "header"} =>
                 IF phase = "lines" THEN reqCur + 2 <= reqLen ELSE reqCur <= reqLen

(* The characters of the lines of slots, each known by its slot and place, *)
(* and the length of the request, were it all printed.                     *)
Text(S) == UNION {{i} \X (1..LineLength(i)) : i \in S}
WholeLength == path + 15 + Cardinality(Text(Printed)) + 2

(* A request of at most 1014 characters is never refused, although the     *)
(* string never gets longer once it is there.                              *)
ShortIsSent == phase = "refused" => WholeLength > 1014

(* The next byte, and the zero behind the last, are inside headerBuf, in   *)
(* spite of the test that is turned round.                                 *)
HeaderFits == phase \in {"header", "body", "cut"} => Len(buf) < bufLen

(* A header aborts the service only when it is long: the length that k     *)
(* bytes need, BufInit + BufStep * k (k + 1) / 2, is beyond an int.        *)
LateAbort ==
  phase = "aborted" => 2 * BufInit + BufStep * (Len(buf) * (Len(buf) + 1)) > 2 * MaxInt

(* The body begins right behind the first empty line, whatever '\r' are in *)
(* between, and not before, unless the answer ends in its header.          *)
EmptyLine(n) ==
  /\ seen[n] = "nl"
  /\ \E m \in 1..(n - 1) : seen[m] = "nl" /\ \A k \in (m + 1)..(n - 1) : seen[k] = "cr"
HeaderEndsRight ==
  /\ phase \in {"header", "cut"} => \A n \in 1..Len(seen) : ~EmptyLine(n)
  /\ phase = "body" => \A n \in 1..Len(seen) : EmptyLine(n) <=> n = Len(seen)
=============================================================================
