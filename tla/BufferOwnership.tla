-------------------------- MODULE BufferOwnership --------------------------
(***************************************************************************)
(* What the compositor promises its clients about their buffers: whoever   *)
(* reads or writes the pixels owns the buffer, it changes hands only by a  *)
(* commit and by a wl_buffer.release, and the compositor keeps what a      *)
(* surface shows.                                                          *)
(***************************************************************************)
CONSTANTS Surfaces, Buffers, Null

VARIABLES
  owner,     \* of each buffer: "client", "compositor", or "nobody" (destroyed)
  content    \* what each surface shows

vars == <<owner, content>>

TypeOK ==
  /\ owner \in [Buffers -> {"client", "compositor", "nobody"}]
  /\ content \in [Surfaces -> Buffers \cup {Null}]

Shown(b) == \E s \in Surfaces : content[s] = b

Init ==
  /\ owner = [b \in Buffers |-> "nobody"]
  /\ content = [s \in Surfaces |-> Null]

Create(b) ==
  /\ owner[b] = "nobody" /\ ~Shown(b)
  /\ owner' = [owner EXCEPT ![b] = "client"]
  /\ UNCHANGED content

\* A client may destroy a buffer whoever owns it; the surface keeps its name.
Destroy(b) ==
  /\ owner' = [owner EXCEPT ![b] = "nobody"]
  /\ UNCHANGED content

\* Surface s shows c from now on; the buffers R that no surface shows any more
\* may go back to the client in the same step.
Commit(s, c, R) ==
  /\ content' = [content EXCEPT ![s] = c]
  /\ R \subseteq {b \in Buffers : owner[b] = "compositor"}
  /\ owner' = [b \in Buffers |-> IF b \in R THEN "client"
                                 ELSE IF b = c /\ owner[b] = "client" THEN "compositor"
                                 ELSE owner[b]]
  /\ \A b \in R : ~Shown(b)'

Release(R) ==
  /\ R \subseteq {b \in Buffers : owner[b] = "compositor" /\ ~Shown(b)}
  /\ owner' = [b \in Buffers |-> IF b \in R THEN "client" ELSE owner[b]]
  /\ UNCHANGED content

Next ==
  \/ \E b \in Buffers : Create(b) \/ Destroy(b)
  \/ \E s \in Surfaces, c \in Buffers \cup {Null}, R \in SUBSET Buffers : Commit(s, c, R)
  \/ \E R \in SUBSET Buffers : Release(R)

Spec == Init /\ [][Next]_vars
=============================================================================
