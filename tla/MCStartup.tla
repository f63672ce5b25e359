----------------------------- MODULE MCStartup ------------------------------
(* Two calls, on what they assemble or on a module. *)
EXTENDS Db2Module, TLC

\* A JWT token that passes, and one for each way to fail.
Good == [parts |-> 3, json |-> TRUE, alg |-> "HS256", signed |-> TRUE,
         expired |-> FALSE, named |-> TRUE]
SomeTokens ==
  {Good, [Good EXCEPT !.parts = 2], [Good EXCEPT !.json = FALSE],
   [Good EXCEPT !.alg = "none"], [Good EXCEPT !.signed = FALSE],
   [Good EXCEPT !.expired = TRUE], [Good EXCEPT !.named = FALSE]}

\* What each strategy asks for, with migrations for a module; and too little.
SomeCredentials ==
  [password |-> {{"host"}, {"host", "migration"}, {}},
   jwt      |-> {{"host", "jwtToken", "jwtSecret"}, {"host", "jwtToken"}},
   kerberos |-> {{"host", "krbServiceName", "username", "validName"} \cup options :
                   options \in SUBSET {"krbKeytab", "password"}}
                \cup {{"host", "krbServiceName", "username", "password"}, {"host"}},
   ldap     |-> {{"host", "ldapUrl", "username", "password"}, {"host"}}]

\* User names for which a length of the request is 128, and short and long ones.
Of(n) == [i \in 1..n |-> 65]
SomeNames == {Of(3), Of(115), Of(120), Of(250)}

\* Accepted and refused, in the short form; of length 10; in the long form; and
\* another response, in the envelope every message of the protocol has.
SomeAnswers ==
  {<<97, 7, 10, 1, 0, 4, 0, 4, 0>>, <<97, 7, 10, 1, 49, 4, 0, 4, 0>>,
   <<97, 10, 10, 1, 0, 4, 0, 4, 3, 1, 1, 1>>,
   <<97, 129, 128, 10, 1, 0, 4, 0, 4, 123>> \o Of(121),
   <<48, 12, 2, 1, 1, 120, 7, 10, 1, 0, 4, 0, 4, 0>>}

\* What the theorems about the verdicts ask of the answers.
ASSUME SomeAnswersArePlain ==
  \A answer \in SomeAnswers : LegibleHeader(answer) /\ PlainHeader(answer)

\* Two entities, one with two keys.
TwoEntities ==
  <<[columns |-> <<[propertyKey |-> "id", type |-> "int"],
                   [propertyKey |-> "name", type |-> "varchar"]>>,
     primaryKeys |-> <<[propertyKey |-> "id"], [propertyKey |-> "name"]>>],
    [columns |-> <<[propertyKey |-> "id", type |-> "int"]>>, primaryKeys |-> <<>>]>>
=============================================================================
