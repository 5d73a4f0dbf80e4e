----------------------------- MODULE HttpRequest -----------------------------
(***************************************************************************)
(* lib_http's HttpRequest: read_from hands the data that arrived, however  *)
(* it was cut, to http_parser (vendored), which calls back with pieces of  *)
(* the url, of the headers' names and values and of the body.              *)
(*                                                                         *)
(* A message is a sequence of elements, and an element's text a sequence   *)
(* of units: "=", "&" and "?" count in a url, "%26" is an escaped "&", the *)
(* rest are letters.  The parser calls back once for what a piece of data  *)
(* has of an element, and for an empty value too.  A client sends its next *)
(* request when it has the response to this one.                           *)
(***************************************************************************)
EXTENDS Naturals, Sequences, SequencesExt, FiniteSets, FiniteSetsExt

CONSTANTS QueryUnits,  \* units of the text behind the "?" of a url
          Pieces,      \* lengths of the data given to one call of read_from
          MaxQuery,    \* bound: units of that text
          MaxHeaders,  \* bound: headers of a request
          MaxText      \* bound: units of a name, a value and the body

ASSUME RequestAssumption ==
    /\ Pieces \subseteq Nat \ {0}
    /\ MaxQuery \in Nat /\ MaxHeaders \in Nat /\ MaxText \in Nat

VARIABLES sent,   \* the request of the client
          rest,   \* the elements the parser has not finished
          piece,  \* units left of the data given to read_from
          req,    \* the HttpRequest
          result  \* what read_from returned last

requestVars == <<sent, rest, piece, req, result>>

Header(name, value) == [name |-> name, value |-> value]

(* Without a "?" there is no query, and http_parser finds none behind it   *)
(* when the url ends there.                                                *)
Url(query) == IF query = <<>> THEN <<"/">> ELSE <<"/", "?">> \o query

Request(query, headers, body, bad) ==
    [query |-> query, headers |-> headers, body |-> body, bad |-> bad]

Headers == {Header(n, v) : n \in BoundedSeq({"n"}, MaxText) \ {<<>>},
                           v \in BoundedSeq({"v"}, MaxText)}

(* A request has a query, or headers and a body; in some the parser finds  *)
(* an error.                                                               *)
Requests ==
    {Request(query, <<>>, <<>>, FALSE) : query \in BoundedSeq(QueryUnits, MaxQuery)}
    \cup {Request(<<>>, headers, body, bad) :
             headers \in BoundedSeq(Headers, MaxHeaders),
             body \in BoundedSeq({"b"}, MaxText), bad \in BOOLEAN}

Element(kind, text) == [kind |-> kind, text |-> text]

Elements(r) ==
    <<Element("url", Url(r.query))>>
    \o [i \in 1 .. 2 * Len(r.headers) |->
           IF i % 2 = 1 THEN Element("name", r.headers[(i + 1) \div 2].name)
           ELSE Element("value", r.headers[i \div 2].value)]
    \o (IF r.bad THEN <<Element("bad", <<>>)>> ELSE <<>>)
    \o <<Element("end", <<>>)>>
    \o (IF r.body = <<>> THEN <<>> ELSE <<Element("body", r.body)>>)

NewRequest == [url |-> <<>>, path |-> <<>>, query_parameters |-> <<>>,
               header_fields |-> <<>>, body |-> <<>>, state |-> "incomplete"]

RequestInit == /\ sent \in Requests
               /\ rest = Elements(sent)
               /\ piece = 0
               /\ req = NewRequest
               /\ result = "incomplete"

-----------------------------------------------------------------------------
(* read_from                                                               *)

(* The server calls it again until it answers complete, or an error.       *)
ReadFrom(n) ==
    /\ piece = 0 /\ result = "incomplete"
    /\ piece' = n
    /\ UNCHANGED <<sent, rest, req, result>>

Current == Head(rest).text

(* What the data has of the current element.                               *)
Part == SubSeq(Current, 1, Min({piece, Len(Current)}))

(* What ends an element is a unit of its own, but for the body.            *)
Delimiter == IF Head(rest).kind = "body" THEN 0 ELSE 1

(* The parser has called back for the current element, and goes on in the  *)
(* same data; the end of the message completes the request, and read_from  *)
(* returns when the data is used up.                                       *)
Parsed(kind, changed) ==
    /\ piece > 0 /\ rest # <<>> /\ Head(rest).kind = kind
    /\ LET whole == piece >= Len(Current) + Delimiter
       IN /\ rest' = IF whole THEN Tail(rest)
                     ELSE [rest EXCEPT ![1].text = SubSeq(@, Len(Part) + 1, Len(@))]
          /\ piece' = IF rest' = <<>> THEN 0
                      ELSE piece - Len(Part) - (IF whole THEN Delimiter ELSE 0)
          /\ req' = IF rest' = <<>> THEN [changed EXCEPT !.state = "complete"] ELSE changed
          /\ result' = IF piece' = 0 THEN req'.state ELSE result
    /\ UNCHANGED sent

(* The callbacks.  Without a letter of it in the data there is none for a  *)
(* url, a name or a body.                                                  *)
OnUrl == Parsed("url", [req EXCEPT !.url = @ \o Part])

(* A bug the checks must see: every piece begins a name.                   *)
MutIsNewField == TRUE

(* A name begins with the first header, and behind a value.                *)
IsNewField == req.header_fields = <<>> \/ Last(req.header_fields).value # <<>>

OnHeaderField ==
    Parsed("name",
           IF Part = <<>> THEN req
           ELSE IF IsNewField
           THEN [req EXCEPT !.header_fields = Append(@, Header(Part, <<>>))]
           ELSE [req EXCEPT !.header_fields[Len(req.header_fields)].name = @ \o Part])

OnHeaderValue ==
    Parsed("value", [req EXCEPT !.header_fields[Len(req.header_fields)].value = @ \o Part])

OnBody == Parsed("body", [req EXCEPT !.body = @ \o Part])

-----------------------------------------------------------------------------
(* on_headers_complete: the url is complete                                *)

decode_uri_escape_sequences(text) ==
    [i \in DOMAIN text |-> IF text[i] = "%26" THEN "&" ELSE text[i]]

Decoded(kv) == Header(decode_uri_escape_sequences(kv.name),
                      decode_uri_escape_sequences(kv.value))

(* A bug the checks must see: the query is decoded before it is taken      *)
(* apart.                                                                  *)
MutQueryOf(url) == decode_uri_escape_sequences(SubSeq(url, 3, Len(url)))

(* Before a "=" stands the name, ...                                       *)
EndOfName(p) == [p EXCEPT !.kv.name = p.text, !.text = <<>>]

(* ... before a "&", and at the end, the value.  kv is used again for the  *)
(* next parameter.                                                         *)
EndOfValue(p) ==
    LET kv == Decoded([p.kv EXCEPT !.value = p.text])
    IN  [kv |-> kv, text |-> <<>>, parameters |-> Append(p.parameters, kv)]

Cursor(p, unit) == IF unit = "=" THEN EndOfName(p)
                   ELSE IF unit = "&" THEN EndOfValue(p)
                   ELSE [p EXCEPT !.text = Append(@, unit)]

NewCursor == [kv |-> Header(<<>>, <<>>), text |-> <<>>, parameters |-> <<>>]

QueryParameters(query) ==
    LET after[i \in 0 .. Len(query)] ==
            IF i = 0 THEN NewCursor ELSE Cursor(after[i - 1], query[i])
    IN  EndOfValue(after[Len(query)]).parameters

(* http_parser_parse_url                                                   *)
QueryOf(url) == SubSeq(url, SelectInSeq(url, LAMBDA u : u = "?") + 1, Len(url))

OnHeadersComplete ==
    Parsed("end",
           IF Contains(req.url, "?")
           THEN [req EXCEPT !.path = <<"/">>, !.query_parameters = QueryParameters(QueryOf(req.url))]
           ELSE [req EXCEPT !.path = req.url])

(* The parser stops: read_from answers an error, again and again, and the  *)
(* state of the request stays incomplete.                                  *)
OnError ==
    /\ piece > 0 /\ rest # <<>> /\ Head(rest).kind = "bad"
    /\ piece' = 0 /\ result' = "error"
    /\ UNCHANGED <<sent, rest, req>>

RequestNext == \/ \E n \in Pieces : ReadFrom(n)
               \/ OnUrl \/ OnHeaderField \/ OnHeaderValue \/ OnHeadersComplete
               \/ OnBody \/ OnError

RequestSpec == RequestInit /\ [][RequestNext]_requestVars

-----------------------------------------------------------------------------
(* Properties                                                              *)

(* "A request is build iteratively by calling HttpRequest::readFrom() with *)
(* whatever data chunk was read from the stream" (http_request.h:20): what *)
(* a handler sees does not depend on the chunks.  A header with an empty   *)
(* value swallows the name of the next one: the headers before the first   *)
(* such are exact, and all if only the last is one.                        *)
WithoutValue(hs) == {i \in DOMAIN hs : hs[i].value = <<>>}

RequestIsExact ==
    req.state = "complete" =>
        LET exact == Min({Len(sent.headers)} \cup WithoutValue(sent.headers))
            some == IF exact \in WithoutValue(sent.headers) /\ exact < Len(sent.headers)
                    THEN exact - 1 ELSE exact
        IN  /\ SubSeq(req.header_fields, 1, some) = SubSeq(sent.headers, 1, some)
            /\ some = Len(sent.headers) => Len(req.header_fields) = some
            /\ req.url = Url(sent.query) /\ req.body = sent.body /\ ~sent.bad

(* Where the texts between two "&" end.                                    *)
Ends(q) == {0, Len(q) + 1} \cup {i \in DOMAIN q : q[i] = "&"}

(* Two ends with none between, and the last.                               *)
Neighbours(ends, a, b) == a < b /\ \A c \in ends : c <= a \/ b <= c

LastOf(ends, a) == a \in ends /\ \A c \in ends : c <= a

(* The value stands behind the last "=", the name between it and the "="   *)
(* before.  A text without one is a value as a whole, and it is given the  *)
(* name of the parameter before.  Escaped "&" are included.                *)
IsParameter(text, inherited, kv) ==
    LET equals == {i \in DOMAIN text : text[i] = "="}
        marks == {0} \cup equals
    IN  /\ equals = {} => kv = Header(inherited, decode_uri_escape_sequences(text))
        /\ \A i \in equals, j \in marks :
              LastOf(marks, i) /\ Neighbours(marks, j, i) =>
                  kv = Decoded(Header(SubSeq(text, j + 1, i - 1),
                                      SubSeq(text, i + 1, Len(text))))

NameBefore(parameters, n) == IF n = 1 THEN <<>> ELSE parameters[n - 1].name

(* There is a parameter for each text between two "&", in their order, and *)
(* it has what its own text says.  Only a text without "=" gets something  *)
(* of another: http_request.cpp:75-97 uses one pair for all and sets its   *)
(* name at a "=".                                                          *)
QueryIsExact ==
    req.state = "complete" /\ sent.query # <<>> =>
        LET ends == Ends(sent.query) IN
        /\ Len(req.query_parameters) = Cardinality(ends) - 1
        /\ \A a \in ends, b \in ends :
              Neighbours(ends, a, b) =>
                  LET n == Cardinality({c \in ends : c <= a})
                  IN  IsParameter(SubSeq(sent.query, a + 1, b - 1),
                                  NameBefore(req.query_parameters, n),
                                  req.query_parameters[n])

=============================================================================
