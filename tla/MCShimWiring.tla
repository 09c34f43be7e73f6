---------------------------- MODULE MCShimWiring ----------------------------
(***************************************************************************)
(* Dockerfiles for ShimWiring: each part in the forms the images have.     *)
(***************************************************************************)
EXTENDS ShimWiring

MCVocabulary == STRING

From == {<<Is("FROM", Exec(<<base>>)), Is("EXPOSE", Exec(<<"8080">>))>> : base \in {"scratch", "wolfi"}}
User == {<<>>, <<NonrootUser>>}
Health == {<<>>,
           <<Is("HEALTHCHECK", Exec(<<"probe">>))>>,
           <<LineOf("HEALTHCHECK", <<>>, TRUE), Is("CMD", Exec(<<"probe">>))>>,
           <<LineOf("HEALTHCHECK", <<>>, TRUE), Is("blank", <<>>), Is("CMD", Exec(<<"probe">>))>>}
Env == {<<>>, <<LineOf("ENV", Exec(<<"SHIM_METRICS_ENABLED">>), TRUE), Is("var", Exec(<<"DATADIR">>))>>}
Entry == {Exec(<<"/app">>), Exec(<<"app", "serve">>)}
Cmd == {<<>>, <<Is("CMD", Exec(<<"arg">>))>>}

ArgsOf(cmd) == IF cmd = <<>> THEN <<>> ELSE WordsIn(cmd[1].args)

Written(from, first, user, env, health, entry, cmd) ==
    from \o (IF first THEN health \o user \o env ELSE user \o env \o health)
         \o <<Is("ENTRYPOINT", entry)>> \o cmd
Services ==
    {[file |-> Written(from, first, user, <<>>, health, entry, cmd),
      known |-> Image({}, names, WordsIn(entry), ArgsOf(cmd))] :
        from \in From, first \in BOOLEAN, user \in User, health \in Health, entry \in Entry,
        cmd \in Cmd, names \in BOOLEAN}
Databases ==
    {[file |-> Written(from, first, user, env, health, Exec(<<"/app">>), cmd),
      known |-> Image({"db"}, TRUE, <<"/app">>, ArgsOf(cmd))] :
        from \in From, first \in BOOLEAN, user \in User, env \in Env, health \in Health, cmd \in Cmd}

Repack(label, user, health, cmd) ==
    <<Is("FROM", Exec(<<"health-shim">>)), Is("FROM", Exec(<<"upstream">>)), CopyShim,
      Is("EXPOSE", Exec(<<"8080">>))>> \o user \o health \o label \o cmd
Repacks ==
    {[file |-> Repack(label, user, health, cmd),
      known |-> Image(tables, TRUE, <<"entry", "app">>, ArgsOf(cmd))] :
        label \in {<<>>, <<Is("LABEL", Exec(<<"repack-upstream-init">>))>>},
        user \in User, health \in Health, cmd \in Cmd, tables \in {{"stub"}, {"stub", "db"}}}

\* Wired by hand before the shim had its present path.
Old == {[file |-> <<Is("FROM", Exec(<<"health-shim">>)), Is("FROM", Exec(<<"scratch">>)),
                    Is("COPY", Exec(<<"shim", Deprecated>>)), Is("EXPOSE", Exec(<<"8080">>)),
                    LineOf("HEALTHCHECK", <<>>, TRUE), Is("CMD", Exec(<<Deprecated, "healthcheck">>)),
                    Is("ENTRYPOINT", Exec(<<Deprecated, "run">>)),
                    Is("CMD", Exec(<<"-c", "/app", "--", "arg">>))>>,
          known |-> Image({}, names, <<"/app">>, <<"arg">>)] : names \in BOOLEAN}

MCOriginals == Services \cup Databases \cup Repacks \cup Old
=============================================================================
