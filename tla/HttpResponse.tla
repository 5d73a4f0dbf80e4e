----------------------------- MODULE HttpResponse -----------------------------
(***************************************************************************)
(* lib_http's responses as HttpServer reads them: a header and a payload,  *)
(* counted in units of data.  get_read_ptr offers what is left of the      *)
(* header and then of the payload; commit_read advances and says whether   *)
(* the response is complete.                                               *)
(*                                                                         *)
(* A response without a valid status code has no header, and nothing can   *)
(* be read from it.  A text is a PayloadJson or a PayloadTest.             *)
(***************************************************************************)
EXTENDS Naturals, FiniteSetsExt

CONSTANTS Bodies,      \* sizes of the payloads that are not empty
          PacketSize   \* what fits into a tcp packet

ASSUME ResponseAssumption == Bodies \subseteq Nat \ {0} /\ PacketSize \in Nat \ {0}

Response(header, kind, body) == [header |-> header, kind |-> kind, body |-> body, pos |-> 0]

(* Those of a handler, which may set no status and no payload; without a   *)
(* route (404), or for a bad request (400), there is no payload either.    *)
Responses == {Response(0, "empty", 0), Response(1, "empty", 0)}
             \cup {Response(1, kind, body) : kind \in {"text", "file"}, body \in Bodies}

Total(r) == r.header + r.body

-----------------------------------------------------------------------------
(* The payloads: what get_read_ptr offers of n units that are left         *)

EmptyOffers == {0}

(* All, or PayloadTest's 512 bytes again and again.                        *)
TextOffers(n) == {n}

(* What is in the buffer that the file's thread fills, which is asked      *)
(* without waiting.                                                        *)
FileOffers(n) == 0 .. n

Offers(kind, n) == CASE kind = "empty" -> EmptyOffers
                     [] kind = "text" -> TextOffers(n)
                     [] kind = "file" -> FileOffers(n)

(* What commit_read says when n units are left.  A file must have sent its *)
(* whole size.                                                             *)
TextComplete(n) == n = 0
FileComplete(n) == n = 0

PayloadComplete(kind, n) == CASE kind = "empty" -> TRUE
                              [] kind = "text" -> TextComplete(n)
                              [] kind = "file" -> FileComplete(n)

-----------------------------------------------------------------------------
HeaderLeft(r) == IF r.pos < r.header THEN r.header - r.pos ELSE 0

(* The units that may be put into one packet: the loop around get_read_ptr *)
(* and commit_read ends when the packet is full or nothing is offered.     *)
Chunks(r) ==
    IF r.header = 0 THEN {0}
    ELSE {Min({HeaderLeft(r) + n, PacketSize}) :
             n \in Offers(r.kind, Total(r) - r.pos - HeaderLeft(r))}

Committed(r, n) == [r EXCEPT !.pos = @ + n]

(* What the last commit_read of a packet with n units says.  A commit to   *)
(* the header never completes the response.                                *)
IsComplete(r, n) == /\ n > HeaderLeft(r)
                    /\ PayloadComplete(r.kind, Total(r) - r.pos - n)

=============================================================================
