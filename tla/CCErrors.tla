------------------------------ MODULE CCErrors ------------------------------
(***************************************************************************)
(* The status arithmetic shared by the executor and by the wire protocol:  *)
(* which upstream answers are worth another key of the pool, and which     *)
(* HTTP status a Command Code failure is reported under.                   *)
(***************************************************************************)
EXTENDS Integers

\* A 2xx answer (the test of executor.go:243 and executor.go:357).
Success(status) == status >= 200 /\ status < 300

\* retryable(status, nil); a transport error (err != nil) is always retryable.
retryable(status) == status \in {401, 429} \/ (status >= 500 /\ status <= 599)

\* The status half of ccStatusMap.
ccStatusMap ==
  [ s \in {400, 401, 402, 403, 404, 422, 429, 500, 502, 503} |->
      CASE s \in {400, 422} -> 400
        [] s \in {401, 403} -> 401
        [] s = 404          -> 404
        [] s \in {402, 429} -> 429
        [] s \in {500, 502} -> 502
        [] s = 503          -> 503 ]

mappedCCStatus(status) ==
  IF status \in DOMAIN ccStatusMap THEN ccStatusMap[status] ELSE 502

=============================================================================
