---------------------------- MODULE MCNormalizer ----------------------------
(***************************************************************************)
(* Responses for Normalizer, for TLC.                                      *)
(***************************************************************************)
EXTENDS Normalizer, TLC

CONSTANTS MaxContent, MaxEnds   \* bounds: lines of a response of either family

U(n) == << <<7, n, 3>> >>

\* Lines with content and the ways a response normally ends.
MCContent ==
  {Junk, Line("text-delta", "t", "", << >>, 0),
   Line("reasoning-delta", "r", "", << >>, 0), Line("tool-call", "c", "", << >>, 0),
   Line("tool-call", "d", "", << >>, 0),
   Line("finish", "", "pause_turn", U(2), 0), Line("error", "", "", << >>, 402)}

\* The ways a response ends, with and without usage.
MCEnds ==
  {Line("text-delta", "", "", << >>, 0)}
    \cup {Line(t, "", r, u, 0) : t \in {"finish-step", "finish"},
             r \in {"", "tool_use", "network-error"}, u \in {<< >>, U(0), U(2)}}
    \cup {Line("error", "", "", << >>, 503)}

UpTo(lines, n) == UNION {[1..k -> lines] : k \in 0..n}

MCScripts == UpTo(MCContent, MaxContent) \cup UpTo(MCEnds, MaxEnds)

=============================================================================
