----------------------------- MODULE LinkStore -----------------------------
(***************************************************************************)
(* What the shortener promises, without PostgreSQL, Redis or handlers: a   *)
(* code is given to one link for ever, and that link goes through          *)
(*                                                                         *)
(*            free -> live -> lingering -> gone                            *)
(*                                                                         *)
(* A deleted link lingers while copies of it are about, and may still be   *)
(* served; once gone it never comes back.  UrlService implements this.     *)
(***************************************************************************)
EXTENDS Integers

CONSTANTS Requests, Codes, Never

VARIABLES
  links,   \* the links ever created
  fate,    \* fate[c]: where the link under code c is in its life
  clock,   \* the clock
  asked,   \* asked[r]: the code r wants to resolve and when it came, as a set
  served   \* served[r]: the link r was answered with, as a set

store == <<links, fate, clock, asked, served>>

Init ==
  /\ links = {}
  /\ fate = [c \in Codes |-> "free"]
  /\ clock = 0
  /\ asked = [r \in Requests |-> {}]
  /\ served = [r \in Requests |-> {}]

\* The last copy of a deleted link may disappear with any step.
Fades(c) == fate'[c] = fate[c] \/ (fate[c] = "lingering" /\ fate'[c] = "gone")

Fading == \A c \in Codes : Fades(c)

\* A free code gets its link; no other step adds one.
Create(c) ==
  /\ fate[c] = "free" /\ fate'[c] = "live"
  /\ \A d \in Codes \ {c} : Fades(d)
  /\ \E l \in links' : l.short_code = c /\ links' = links \cup {l}
  /\ UNCHANGED <<clock, asked, served>>

Delete(c) ==
  /\ fate[c] = "live" /\ fate'[c] \in {"lingering", "gone"}
  /\ \A d \in Codes \ {c} : Fades(d)
  /\ UNCHANGED <<links, clock, asked, served>>

\* Request r is concerned with these, and no other request is.
Answer(r, question, link) ==
  /\ asked' = [asked EXCEPT ![r] = question]
  /\ served' = [served EXCEPT ![r] = link]
  /\ Fading
  /\ UNCHANGED <<links, clock>>

Ask(r, c) == Answer(r, {[short_code |-> c, at |-> clock]}, {})

\* The answer is the link of that code, alive or lingering, and not expired when
\* the request came.
Serve(r) ==
  \E a \in asked[r], l \in links :
    /\ fate[a.short_code] \in {"live", "lingering"}
    /\ l.short_code = a.short_code
    /\ l.expires_at = Never \/ l.expires_at >= a.at
    /\ Answer(r, {}, {l})

\* No link: an error, a crash, or the start of another kind of request.
Leave(r) == Answer(r, {}, {})

Pass ==
  /\ clock' \in {clock, clock + 1}
  /\ Fading
  /\ UNCHANGED <<links, asked, served>>

Next ==
  \/ \E c \in Codes : Create(c) \/ Delete(c)
  \/ \E r \in Requests : (\E c \in Codes : Ask(r, c)) \/ Serve(r) \/ Leave(r)
  \/ Pass

Spec == Init /\ [][Next]_store

=============================================================================
