----------------------------- MODULE MCApproval -----------------------------
(* Small instances of Approval: texts in C and Python and a hardware       *)
(* language, with the lines that the templates look for.                   *)
EXTENDS Approval

\* The rules in their order; those of Python and the hardware languages are
\* for high-risk CWEs.
MCRules == <<[cwe |-> "416", hits |-> {"free(s)", "free(p)"}, gated |-> FALSE],
             [cwe |-> "190", hits |-> {"malloc(a*b)"}, gated |-> FALSE],
             [cwe |-> "798", hits |-> {"secret", "secret_"}, gated |-> TRUE],
             [cwe |-> "1191", hits |-> {"debug"}, gated |-> TRUE]>>

MCOpens == ("drop(" :> "drop") @@ ("alloc(" :> "alloc") @@ ("logout(s)" :> "logout")
             @@ ("logout(*s)" :> "logout") @@ ("main(" :> "main")

\* CWE-416 rewrites session_logout() and its call, both one line shorter;
\* CWE-190 adds a line below an #include and one to the product.
MCHeuristics ==
    {[cwes     |-> {"416"},
      triggers |-> {"logout(s)", "logout(*s)"},
      edits    |-> <<[old |-> <<"logout(s)", "free(s)", "note">>,
                      new |-> <<"logout(*s)", "free(*s)">>],
                     [old |-> <<"call(s)", "touch">>, new |-> <<"call(&s)">>]>>],
     [cwes     |-> {"190"},
      triggers |-> {"total"},
      edits    |-> <<[old |-> <<"total">>, new |-> <<"size_t", "check">>],
                     [old |-> <<"include">>, new |-> <<"include", "define">>]>>]}

MCFixes ==
    (<<"416", "free(p)">> :> [new |-> <<"free(p)", "p=NULL">>, unless |-> {"p=NULL"}])
      @@ (<<"416", "free(s)">> :> [new |-> <<"free(s)", "s=NULL">>, unless |-> {"s=NULL"}])
      @@ (<<"190", "malloc(a*b)">> :>
             [new |-> <<"decl", "check", "malloc(total)">>, unless |-> {}])
      @@ (<<"798", "secret">> :> [new |-> <<"environ">>, unless |-> {}])
      @@ (<<"798", "secret_">> :> [new |-> <<"environ">>, unless |-> {}])
      @@ (<<"1191", "debug">> :> [new |-> <<"fuse", "wired">>, unless |-> {}])

MCUnended == {"selected_", "secret_", "}_"}

MCBlank == <<>>

MCPlaceholder == <<"selected_">>

Generics == <<"drop(", "free(p)", "free(p)", "p=NULL", "malloc(a*b)">>

\* What is pasted is trimmed: its last line has no line ending.
Secret == <<"secret_">>

Secrets == <<"secret", "secret_">>

\* To readlines(), the second line is one with the third.
SecretFile == <<"secret", "page", "plain">>

Hardware == <<"debug", "--note">>

\* A free() that nobody gates, and session_logout(), which is gated.
Session == <<"drop(", "free(p)", "logout(s)", "free(s)", "note",
             "main(", "create", "print", "call(s)", "touch", "}_">>

\* The product of frame_alloc(), and a finding above and below it.
Frame == <<"include", "drop(", "free(p)", "alloc(", "total", "malloc(a*b)", "}_">>

MCTexts == {MCBlank, MCPlaceholder, Secrets}

MCTextsUnended == {MCBlank, MCPlaceholder, Secret}

MCTextsC == {MCBlank, MCPlaceholder, Session, Frame}

\* Files of one name, one with a comma in its name, and plain ones.
MCSelections ==
    {<<[name |-> "x", text |-> SecretFile], [name |-> "a,x", text |-> SecretFile],
       [name |-> "x", text |-> Generics]>>,
     <<[name |-> "x", text |-> Session], [name |-> "y", text |-> Hardware]>>}

MCSelectionsC == {<<[name |-> "x", text |-> Session]>>}

MCPasted == [t \in MCTexts \cup MCTextsUnended \cup MCTextsC |->
                IF t \in {Secret, Secrets} THEN "uploaded.py"
                ELSE "uploaded.c"]

MCAfterCommas == [n \in {"uploaded.c", "uploaded.py", "x", "y", "a,x"} |->
                     IF n = "a,x" THEN "x" ELSE n]

=============================================================================
