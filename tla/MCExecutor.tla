----------------------------- MODULE MCExecutor -----------------------------
(***************************************************************************)
(* An instance of Executor for TLC: r1 calls Execute and s1 ExecuteStream. *)
(* A call finds no key at all, a key listed twice with and without a       *)
(* proxy, or two keys of which one has a proxy_url that is rejected.       *)
(***************************************************************************)
EXTENDS Executor, TLC

CONSTANTS r1, s1, k1, k2, viaHost, viaProxy, rejected

Entry(key, proxy) == [key |-> key, proxy |-> proxy]

Entries   == {Entry(k1, viaHost), Entry(k1, viaProxy), Entry(k2, rejected)}
NoClients == {Entry(k2, rejected)}
Lists     == {<< >>,
              << Entry(k1, viaHost), Entry(k1, viaProxy) >>,
              << Entry(k1, viaHost), Entry(k2, rejected) >>}

=============================================================================
