------------------------------- MODULE MC_Tenant -------------------------------
(* An instance of Tenant for TLC: a user with two tabs and another with one, and *)
(* slugs of two characters, so that "a b" is cut behind its dash.                *)
EXTENDS Tenant, TLC

CONSTANTS t1, t2, t3, none

Owners == [t \in {t1, t2, t3} |-> IF t = t3 THEN "bob" ELSE "alice"]
Titles == {<<"a">>, <<"b">>, <<"a", " ", "b">>, <<"n">>}
Alike == Permutations({t1, t2})
ReservedSlugs == {<<"n">>}

\* The arithmetic of the uptime windows, on every set of up to two checks: rows the
\* retention may have removed change no window, wider windows hold more checks, and
\* only a window without a check has no uptime.
U == INSTANCE Uptime WITH Windows <- {1, 2, 3}, Retention <- 3

Checks == [id : {1, 2}, age : 0..4, up : BOOLEAN]
Logs == {{}} \union {{a, b} : a \in Checks, b \in Checks}

UptimeIsSound(rows) ==
  \A w \in {1, 2, 3} :
    LET u == U!UptimeOf(rows, w)
    IN  /\ \A lost \in SUBSET U!Expired(rows) : U!UptimeOf(rows \ lost, w) = u
        /\ u.up + u.down = u.total
        /\ u.uptime = {} <=> {row \in rows : row.age <= w} = {}
        /\ \A p \in u.uptime : p \in 0..100000 /\ (p = 100000 <=> u.down = 0)
        /\ \A v \in 1..w : U!UptimeOf(rows, v).total <= u.total

ASSUME UptimeChecked == \A rows \in Logs : UptimeIsSound(rows)

\* The envelopes of utils/crypto.js: what is stored under a key is what a check sends
\* under that key; under another key, none, or after tampering a check sends no
\* headers, and never anybody else's.
C == INSTANCE Credentials WITH None <- none, Version <- "v1", Empty <- "{}"

Keys == {none, "k1", "k2"}
Headers == {none, "{}", "basic", "bearer"}
Envelopes ==
  {none} \union
  [version : {"v0", "v1"}, key : {"k1", "k2"}, plaintext : {"basic", "bearer"},
   intact : BOOLEAN]

ASSUME CredentialsChecked ==
  \A key, other \in Keys, old \in Envelopes, headers \in Headers :
    LET stored == C!Stored(key, old, TRUE, headers)
    IN  /\ C!hasCredentials(headers) /\ key # none =>
             /\ C!decryptAuthHeaders(key, stored) = headers
             /\ other # key => C!decryptAuthHeaders(other, stored) = "{}"
        /\ ~C!hasCredentials(headers) => C!decryptAuthHeaders(other, stored) = "{}"
        /\ C!Stored(key, old, FALSE, headers) = old
        /\ old # none =>
             C!decryptAuthHeaders(key, old) \in {"{}", old.plaintext}
================================================================================
