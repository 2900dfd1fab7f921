----------------------------- MODULE JsonHandler -----------------------------
(***************************************************************************)
(* What the service makes of the JSON text of a request.  A text is empty,  *)
(* malformed, or stands for a root; a root is a function from the names of  *)
(* its members to their values, with no member for null, {} and [].  jsoncpp *)
(* asserts that a root with members is an object, so no other root is here. *)
(***************************************************************************)

\* No value.  A whole number is of kind int and not double.
nullValue == [kind |-> "null", val |-> 0]

empty(root) == DOMAIN root = {}

\* Json::Value::get: the member, or the default.
get(root, param) == IF param \in DOMAIN root THEN root[param] ELSE nullValue

\* The parsed root is jsonMsg, Json::nullValue when nothing was parsed.
ParseJsonString(text) ==
  [ok |-> text.wellFormed,
   root |-> IF text.wellFormed THEN text.root ELSE << >>]

\* The six validations, which differ in the kind; that of an array hands out no
\* value.  isParamValid first holds empty() and is what is returned if the
\* message is empty; the value is handed out only if it is of the kind asked for.
Validate(kind, param, root, out) ==
  LET v  == get(root, param)
      ok == v.kind # "null" /\ v.kind = kind
  IN  IF empty(root) THEN [ok |-> TRUE, out |-> out]
      ELSE [ok |-> ok, out |-> IF ok THEN v.val ELSE out]

\* The one that the program calls.
ValidateJsonDouble(param, root, out) == Validate("double", param, root, out)
=============================================================================
