---------------------------- MODULE RegisterClaims ----------------------------
(***************************************************************************)
(* A statement of the repository about the register that behaviours of     *)
(* ConsentRegister violate; the README here tells the story.               *)
(***************************************************************************)
EXTENDS ConsentRegister

\* README invariant 6: "If the person withdrew after the form was signed [...]
\* the withdrawal stands", so no live consent rests on a form that one of the
\* person's withdrawals came after.  Of two withdrawals a merge keeps the
\* earliest, and a form signed after that one and before the other brings the
\* consent back.
FormNeverResurrects ==
  \A p \in Persons, u \in Purposes :
    record[p][u].status = "active" =>
      \A w \in StopsOf(p, u) : ~ (record[p][u].givenOn < w.on)
===============================================================================
