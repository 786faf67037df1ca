----------------------------- MODULE Credentials -----------------------------
(***************************************************************************)
(* utils/crypto.js: the envelopes that hold the outbound credentials of a  *)
(* monitor.  The cipher is abstract: an envelope opens under the key that  *)
(* sealed it, if nobody has touched it since, and no other way.            *)
(***************************************************************************)
EXTENDS Integers

CONSTANTS None,     \* null; also no CREDENTIALS_ENCRYPTION_KEY
          Version,  \* VERSION, the only one decryptSecret() knows
          Empty     \* no headers at all

\* What encryptSecret() makes of a plaintext; without a key it throws, which is None.
encryptSecret(key, plaintext) ==
  IF key = None THEN None
  ELSE [version |-> Version, key |-> key, plaintext |-> plaintext, intact |-> TRUE]

\* decryptSecret(): null for anything that does not open, never an exception.
Opens(key, envelope) ==
  /\ key # None /\ envelope # None
  /\ envelope.version = Version /\ envelope.key = key /\ envelope.intact

decryptSecret(key, envelope) ==
  IF Opens(key, envelope) THEN envelope.plaintext ELSE None

\* The headers a check is made with: none where they cannot be read.
decryptAuthHeaders(key, envelope) ==
  IF decryptSecret(key, envelope) = None THEN Empty ELSE decryptSecret(key, envelope)

\* pickWritableFields(): credentials that carry nothing unset the field, and a
\* request that does not mention them leaves it alone, as does one that fails
\* because there is no key to seal them with.
hasCredentials(headers) == headers \notin {None, Empty}

Stored(key, old, sent, headers) ==
  CASE ~sent                                     -> old
    [] sent /\ ~hasCredentials(headers)          -> None
    [] sent /\ hasCredentials(headers) /\ key = None -> old
    [] OTHER                                     -> encryptSecret(key, headers)
===============================================================================
