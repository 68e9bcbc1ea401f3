-------------------------------- MODULE MCAccess --------------------------------
(* Small instances of Access for TLC.                                         *)
EXTENDS Access

RowOf(perms, key) == [status |-> "active", perms |-> ToMask(perms), key |-> key, api |-> 0]

(* Two administrators.                                                        *)
MCRows == <<RowOf(DefaultSet \union AdminSet, "k1"), RowOf(DefaultSet \union AdminSet, "k2")>>

Token(key, skew) == [kind |-> "token", key |-> key, skew |-> skew, form |-> "right"]
ApiKey(g) == [kind |-> "apikey", key |-> g]
Ask(endpoint, cred, body) == [endpoint |-> endpoint, cred |-> cred, body |-> body]

Change(i, status, mask, perms, apikey) ==
  [id |-> i, status |-> status, mask |-> mask, perms |-> perms, apikey |-> apikey]

Disable(i) == Change(i, "disabled", "", {}, "")
Strip(i) == Change(i, "", "given", DefaultSet, "")
KeyFor(i, k) == Change(i, "", "", {}, k)

NewKey == [form |-> "right", perms |-> DefaultSet \union ManifestSet, key |-> "k3"]

ActionOf(sigs, ops) == [form |-> "right", from |-> 0, until |-> 2, sigs |-> sigs, ops |-> ops]

(* What the two administrators do to each other and to themselves, new        *)
(* investigators, actions with different signatures, and reads.               *)
MCRequests ==
  {Ask("updateInvestigator", Token("k1", 0), ch) :
     ch \in {Disable(2), Strip(2), Strip(1), KeyFor(2, "active"), KeyFor(2, "disabled"),
            Change(2, "active", "given", DefaultSet \union AdminSet, "other"),
            Change(9, "disabled", "invalid", {}, "")}}
  \union {Ask("updateInvestigator", Token("k2", 0), ch) : ch \in {Strip(1), Change(1, "gone", "", {}, "")}}
  \union {Ask("createInvestigator", Token("k1", 0), b) : b \in {NewKey, [NewKey EXCEPT !.form = "wrong"]}}
  \union {Ask("createAction", Token("k2", 0), ActionOf(sg, ops)) :
            <<sg, ops>> \in {<<<<"k1", "k2">>, <<"file", "ping">>>>, <<<<"k1", "k1">>, <<"file">>>>,
                           <<<<"k1", "forged">>, <<"file">>>>}}
  \union {Ask("statusManifest", Token("k3", 0), [id |-> 1]), Ask("getAction", Token("k2", 2), [id |-> 1])}
  \union {Ask("getAction", ApiKey(1), [id |-> 1]), Ask("getDashboard", ApiKey(1), [id |-> 1]),
          Ask("getCommand", ApiKey(1), [id |-> 1]), Ask("getAgent", ApiKey(1), [id |-> Never]),
          Ask("getInvestigator", ApiKey(1), [id |-> 0])}
  \union {Ask("getInvestigator", [kind |-> "none"], [id |-> 1])}

SlotSymmetry == Permutations(Slots)

(* Two signatures are needed for file, one of k2 for anything else.           *)
MCAcl == [m \in {"file", "default"} |->
            IF m = "file" THEN [min |-> 2, weight |-> [k \in {"k1", "k2"} |-> 1]]
            ELSE [min |-> 1, weight |-> [k \in {"k2"} |-> 1]]]
================================================================================
