----------------------------- MODULE GuardedGet -----------------------------
(***************************************************************************)
(* One download of a portal's file: _guarded_get and _get_capped_text of   *)
(* bank_api_parser/parsers/base_parser.py, and the two functions that      *)
(* repeat the capped read (alfabank_parser.py, tochka_parser.py).          *)
(*                                                                         *)
(* The portal answers what it likes at every address; a step is one answer *)
(* or one chunk of the body.  Decoding and the status of the final answer  *)
(* are left to the callers.                                                *)
(***************************************************************************)
EXTENDS Naturals, FiniteSets

CONSTANTS Urls,
          Origin,      \* Origin[u]: scheme is http or https, and the host; NoOrigin else
          NoOrigin,
          MaxHops,     \* _MAX_REDIRECT_HOPS
          MaxBytes,    \* MAX_RESPONSE_BYTES
          ChunkBytes   \* _CHUNK_BYTES

\* What is assumed of the constants.
DownloadAssumption ==
    /\ \E u \in Urls : Origin[u] # NoOrigin
    /\ MaxHops \in Nat /\ MaxBytes \in Nat /\ ChunkBytes \in Nat \ {0}

VARIABLES url,        \* the argument: a constant of this program, or a $ref of a spec
          current,    \* current_url
          hopCount,
          reading,    \* "asking", "body", or how the call ended
          size,       \* bytes of the chunks that are kept
          asked,      \* history variable: the addresses that were asked
          requests    \* history variable: how many requests

vars == <<url, current, hopCount, reading, size, asked, requests>>

Ends == {"text", "foreign", "redirects", "large", "network"}

TypeOK ==
    /\ url \in Urls /\ current \in Urls
    /\ hopCount \in 0..MaxHops
    /\ reading \in {"asking", "body"} \cup Ends
    /\ size \in Nat
    /\ asked \subseteq Urls
    /\ requests \in Nat

Init ==
    /\ url \in {u \in Urls : Origin[u] # NoOrigin}
    /\ current = url
    /\ hopCount = 0
    /\ reading = "asking"
    /\ size = 0
    /\ asked = {} /\ requests = 0

\* Not an http(s) address: no origin equals it.
SameOrigin(target) == Origin[target] # NoOrigin /\ Origin[target] = Origin[url]

Ask ==
    /\ asked' = asked \cup {current}
    /\ requests' = requests + 1

Stop(how) ==
    /\ reading' = how
    /\ UNCHANGED <<url, current, hopCount>>

TooMany == hopCount >= MaxHops

\* The answer is a redirect to target.
Redirect(target) ==
    /\ reading = "asking"
    /\ Ask
    /\ IF TooMany THEN Stop("redirects")
       ELSE IF ~SameOrigin(target) THEN Stop("foreign")
       ELSE /\ current' = target
            /\ hopCount' = hopCount + 1
            /\ UNCHANGED <<url, reading>>
    /\ UNCHANGED size

\* Another answer, or a redirect that names no target.
Answer ==
    /\ reading = "asking"
    /\ Ask
    /\ Stop("body")
    /\ UNCHANGED size

\* The chunks are as long as the portal likes, up to ChunkBytes.
Chunk(n) ==
    /\ reading = "body"
    /\ IF size + n > MaxBytes THEN Stop("large") /\ UNCHANGED size
       ELSE size' = size + n /\ Stop("body")
    /\ UNCHANGED <<asked, requests>>

EndOfBody ==
    /\ reading = "body"
    /\ Stop("text")
    /\ UNCHANGED <<size, asked, requests>>

NetworkError ==
    /\ reading \in {"asking", "body"}
    /\ Stop("network")
    /\ UNCHANGED <<size, asked, requests>>

Next ==
    \/ \E target \in Urls : Redirect(target)
    \/ Answer
    \/ \E n \in 1..ChunkBytes : Chunk(n)
    \/ EndOfBody \/ NetworkError

Spec == Init /\ [][Next]_vars

\* Every request and every read has a timeout.
FairSpec == Spec /\ WF_vars(Next)

-----------------------------------------------------------------------------
(* Properties *)

\* "A cross-origin or non-http(s) target raises before a request to it is ever
\* sent" (base_parser.py:222): however the redirects are chained, only the
\* host of the original address is asked.
AsksOneHost == \A u \in asked : Origin[u] = Origin[url]

\* A portal that redirects for ever, or answers without end, costs a bounded
\* number of requests, and a bounded body is kept.
Bounded == requests <= MaxHops + 1 /\ size <= MaxBytes

\* Whatever the portal answers, the call returns or raises.
DownloadEnds == reading = "asking" ~> reading \in Ends

=============================================================================
