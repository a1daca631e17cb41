---------------------------- MODULE MCAdmission ----------------------------
\* Two callers: a write, a retried read with a foreign tenant in it, a probe
\* without a key, a REST call and bad arguments, with a key that is bound and
\* expires, and one of the bootstrap.
EXTENDS Admission, TLC

CONSTANTS default, acme, c1, c2

Key(n, t, perms, expires) == [name |-> n, tenant |-> t, perms |-> perms, expires |-> expires]
AcmeKey == Key(1, acme, {"read", "write"}, 1)
MCProvisioned == {{}, {AcmeKey}}
Ask(op, via, key, tenant, valid) ==
  [op |-> op, via |-> via, key |-> key, tenant |-> tenant, valid |-> valid]
MCRequests ==
  (c1 :> {Ask("remember", "grpc", AcmeKey, None, TRUE), Ask("get", "rest", AcmeKey, None, TRUE)})
  @@ (c2 :> {Ask("recall", "grpc", AcmeKey, default, TRUE), Ask("health", "grpc", None, acme, TRUE),
             Ask("reflect_commit", "rest", BootKey(1), None, TRUE),
             Ask("remember", "grpc", BootKey(1), acme, FALSE)})
Bound(time, crash, failure) == [time |-> time, crashes |-> crash, failures |-> failure]
MCBounds == {Bound(2, 0, 0), Bound(0, 1, 0), Bound(0, 0, 1)}
MCClasses == {"read", "write", "admin"}
MCBurst == [k \in MCClasses |-> 1]
MCRate == [k \in MCClasses |-> IF k = "read" THEN 5 ELSE 1]
============================================================================
