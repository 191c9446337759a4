--------------------------- MODULE MCAuthRecords ---------------------------
(***************************************************************************)
(* Auth files and configurations for AuthRecords.                          *)
(***************************************************************************)
EXTENDS AuthRecords

Plain(key) == [key |-> key, priority |-> "", proxy |-> "", base |-> "", disabled |-> FALSE,
               cooling |-> ""]
NoFields == [keys |-> << >>, key |-> "", priority |-> "", proxy |-> "", base |-> "",
             disabled |-> FALSE, cooling |-> "", managed |-> FALSE]

\* A pool with one entry that sets everything, one that sets nothing and one that is
\* disabled; a pool under defaults of its file, with an entry without a key; single keys;
\* two pools of a disabled key.
MCPools ==
  { [NoFields EXCEPT !.keys =
       << [Plain("k1") EXCEPT !.proxy = "p1", !.base = "b1", !.cooling = "true"],
          Plain("k2"),
          [Plain("k3") EXCEPT !.disabled = TRUE, !.proxy = "p2", !.cooling = "false",
                              !.priority = "high"] >>],
    [NoFields EXCEPT !.keys = << Plain(""), Plain("k2"), [Plain("k1") EXCEPT !.proxy = "bad"] >>,
                     !.proxy = "p2", !.base = "b2", !.cooling = "false", !.key = "k4"],
    [NoFields EXCEPT !.key = "k1", !.proxy = "p1", !.priority = "low"],
    [NoFields EXCEPT !.key = "k2", !.disabled = TRUE],
    [NoFields EXCEPT !.keys = << Plain("k3") >>, !.disabled = TRUE],
    [NoFields EXCEPT !.keys = << [Plain("k3") EXCEPT !.disabled = TRUE] >>] }

NoConfig == [keys |-> << >>, key |-> "", proxy |-> "", priority |-> "", base |-> "b0",
             cooling |-> "", shared |-> TRUE]

\* Nothing configured; a pool with overrides, under defaults; one legacy key, unshared.
MCConfigs ==
  { NoConfig,
    [NoConfig EXCEPT !.keys = << [Plain("k1") EXCEPT !.cooling = "false", !.proxy = "p1"],
                                 Plain("k2"), [Plain("k3") EXCEPT !.disabled = TRUE] >>,
                     !.proxy = "p3", !.priority = "low", !.cooling = "true"],
    [NoConfig EXCEPT !.key = "k5", !.shared = FALSE] }

=============================================================================
