------------------------------- MODULE Wizard -------------------------------
(***************************************************************************)
(* The configuration wizard (cli/config_wizard.py): it reads the .env file *)
(* once, makes every setting explicit in a draft, takes the person through *)
(* the sections, of which those with any value in the file may be skipped, *)
(* and writes the draft over the file at the end.                          *)
(***************************************************************************)
EXTENDS Settings, Naturals, FiniteSets

CONSTANTS EnvFiles,   \* the files there may be at first
          MaxSaves,   \* how often the wizard is gone through
          MaxAsked,   \* sections updated in a pass
          Fragile,    \* values that read differently once they are written
          Reread      \* what each of them reads as

\* A key has a word the program knows or any other, none is a key for Yahoo or Reddit.
OwnWord ==
    {absent, "", "true", "false", "none", "new", "default", "openai", "azure_openai"}
    \cup Broker \cup Environments \cup {Provider[s] : s \in Sources}
Word == OwnWord \cup STRING
EnvFile ==
    [llm : Word, openaiKey : Word, azure : Word, azureAccess : Word, broker : Word,
     environment : [Broker -> Word], own : [Broker -> [Accounts -> [Part -> Word]]],
     live : Word, token : Word, chat : Word, provider : [Sources -> Word],
     enabled : [Sources -> Word], access : [Sources -> Word], database : Word]
Keyless == {"market_data", "community"}

ASSUME WizardAssumption ==
    /\ MaxSaves \in Nat /\ MaxAsked \in Nat
    /\ Fragile \subseteq Word \ OwnWord /\ Reread \in [Fragile -> Word \ {absent}]
    /\ \A f \in EnvFiles : f \in EnvFile /\ \A s \in Keyless : f.access[s] = absent

VARIABLES env,        \* the .env file
          draft,      \* updates: what is going to be written
          section,    \* the next section of the wizard, "" when it is not running
          asked,      \* the sections updated
          typed,      \* the credentials entered, as <<broker, environment, kind>>
          saves       \* times the file has been written

wizardVars == <<env, draft, section, asked, typed, saves>>

Given(v, w) == IF v = absent THEN w ELSE v
Flag(b) == IF b THEN "true" ELSE "false"

WizardInit ==
    /\ env \in EnvFiles
    /\ draft = env /\ section = "" /\ asked = {} /\ typed = {} /\ saves = 0

\* For mutation testing: what went by an old switch or a key alone is forgotten.
SelectedByName(s) == Given(env.provider[s], "none")

Selected(s) == ResolveSource(env, s)

\* Every value that is resolved from others becomes a value of its own; the old
\* keys move to the environment in use, unless that has some, and stay as well.
ManagedValues ==
    LET moved(b, e, k) ==
           IF e = Environment(env, b) THEN Given(env.own[b]["legacy"][k], "") ELSE ""
    IN  [env EXCEPT
           !.llm = ResolveLlm(env),
           !.openaiKey = Given(@, ""),
           !.azure = Given(@, Flag(ResolveLlm(env) = "azure_openai")),
           !.azureAccess = Given(@, ""),
           !.broker = ResolveBroker(env),
           !.environment = [b \in Broker |-> Given(@[b], "practice")],
           !.own = [b \in Broker |->
                      [a \in Accounts |->
                         [k \in Part |->
                            IF a = "legacy" THEN @[b][a][k]
                            ELSE Given(@[b][a][k], moved(b, a, k))]]],
           !.live = Given(@, "false"),
           !.token = Given(@, ""), !.chat = Given(@, ""),
           !.provider = [s \in Sources |-> Selected(s)],
           !.enabled = [s \in Sources |->
                          IF s \in {"disclosure", "community"} THEN absent
                          ELSE Flag(Selected(s) = Provider[s])],
           !.access = [s \in Sources |->
                         IF s \in Keyless THEN absent ELSE Given(@[s], "")],
           !.database = Given(@, "default")]

Configure ==
    /\ section = "" /\ saves < MaxSaves
    /\ draft' = ManagedValues /\ section' = "llm"
    /\ UNCHANGED <<env, asked, typed, saves>>

\* _section_has_existing_values: the file says something the section is about.
Credentials(b) == {env.own[b][a][k] : a \in Accounts, k \in Part}
HasValues(s) ==
    LET source(x) == {env.provider[x], env.enabled[x], env.access[x]}
        alpaca == {env.environment["alpaca"]} \cup Credentials("alpaca")
        values ==
           CASE s = "llm" -> {env.llm, env.openaiKey, env.azure, env.azureAccess}
             [] s = "broker" ->
                   {env.broker, env.environment["trading212"], env.live}
                   \cup Credentials("trading212") \cup alpaca
             [] s = "telegram" -> {env.token, env.chat}
             [] s = "market_data" -> source(s) \cup alpaca
             [] s = "storage" -> {env.database}
             [] OTHER -> source(s)
    IN  values # {absent}

Following ==
    [llm |-> "broker", broker |-> "telegram", telegram |-> "market_data",
     market_data |-> "market_intelligence", market_intelligence |-> "symbol_reference",
     symbol_reference |-> "disclosure", disclosure |-> "storage", storage |-> "review"]

Skip ==
    /\ section \in DOMAIN Following /\ HasValues(section)
    /\ section' = Following[section]
    /\ UNCHANGED <<env, draft, asked, typed, saves>>

\* A section is updated: the draft becomes d, with the credentials of ks entered.
Updated(d, ks) ==
    /\ Cardinality(asked) < MaxAsked
    /\ draft' = d /\ asked' = asked \cup {section} /\ typed' = typed \cup ks
    /\ section' = Following[section]
    /\ UNCHANGED <<env, saves>>

\* A prompt keeps its default when nothing is entered.
Entered(default) == {default, "new"}

AskLlm ==
    /\ section = "llm"
    /\ \/ \E key \in Entered(draft.openaiKey) :
             Updated([draft EXCEPT !.llm = "openai", !.azure = "false",
                                   !.openaiKey = key], {})
       \/ \E key \in Entered(draft.azureAccess) :
             Updated([draft EXCEPT !.llm = "azure_openai", !.azure = "true",
                                   !.azureAccess = key], {})
       \/ Updated([draft EXCEPT !.llm = "none", !.azure = "false"], {})

\* _prompt_trading212_credentials and _prompt_alpaca_credentials: the key and the
\* secret of the environment chosen, either of which may be left as it is.
Prompted(d, b, ks) ==
    LET e == Environment(d, b)
    IN  [d EXCEPT !.own[b][e] = [k \in Part |-> IF k \in ks THEN "new" ELSE @[k]]]
EnteredFor(d, b, ks) == {<<b, Environment(d, b), k>> : k \in ks}

AskBroker ==
    /\ section = "broker"
    /\ \/ Updated([draft EXCEPT !.broker = "none"], {})
       \/ \E e \in Environments, ks \in SUBSET Part, allow \in BOOLEAN :
             LET d == [draft EXCEPT !.broker = "trading212",
                                    !.environment["trading212"] = e,
                                    !.live = Flag(e = "live" /\ allow)]
             IN  Updated(Prompted(d, "trading212", ks), EnteredFor(d, "trading212", ks))
       \/ \E e \in Environments, ks \in SUBSET Part :
             LET d == [draft EXCEPT !.broker = "alpaca", !.environment["alpaca"] = e]
             IN  Updated(Prompted(d, "alpaca", ks), EnteredFor(d, "alpaca", ks))

AskTelegram ==
    /\ section = "telegram"
    /\ \/ Updated(draft, {})
       \/ \E token \in Entered(draft.token), chat \in Entered(draft.chat) :
             Updated([draft EXCEPT !.token = token, !.chat = chat], {})

\* The question whether to use Alpaca, its broker, for market data as well leads to
\* the same choices.  Its credentials are asked for unless the broker section did.
AskMarketData ==
    /\ section = "market_data"
    /\ \E p \in ValidProviders(section), e \in Environments, ks \in SUBSET Part :
          LET chosen == [draft EXCEPT !.provider[section] = p,
                                      !.enabled[section] = Flag(p = "yahoo")]
              d == [chosen EXCEPT !.environment["alpaca"] = e]
          IN  IF p = "alpaca" /\ draft.broker # "alpaca"
              THEN Updated(Prompted(d, "alpaca", ks), EnteredFor(d, "alpaca", ks))
              ELSE Updated(chosen, {})

AskSource ==
    /\ section \in {"market_intelligence", "symbol_reference", "disclosure"}
    /\ LET flag(b) == IF section = "disclosure" THEN draft.enabled[section] ELSE Flag(b)
       IN  \/ Updated([draft EXCEPT !.provider[section] = "none",
                                    !.enabled[section] = flag(FALSE)], {})
           \/ \E key \in Entered(draft.access[section]) :
                 Updated([draft EXCEPT !.provider[section] = Provider[section],
                                       !.enabled[section] = flag(TRUE),
                                       !.access[section] = key], {})

AskStorage ==
    /\ section = "storage"
    /\ \E url \in Entered(draft.database) : Updated([draft EXCEPT !.database = url], {})

\* Credentials of environments not in use are not written as empty values.
ActiveCredential(b, a) ==
    /\ a = Environment(draft, b)
    /\ draft.broker = b \/ (b = "alpaca" /\ draft.provider["market_data"] = "alpaca")
Dropped(b, a, k) ==
    a # "legacy" /\ ~ActiveCredential(b, a) /\ Blank(env.own[b][a][k])
    /\ Blank(draft.own[b][a][k])

\* _format_env_value puts quotes about a value with a space or a # in it, and a \
\* before each \ and " of it; _clean_env_value takes the quotes off, of any value that
\* has some at both ends, and leaves every \ where it is. So a value of the one sort
\* has more of them each time it is written, and one of the other loses its quotes.
Saved(v) == IF v \in Fragile THEN Reread[v] ELSE v
SavedAll(values) == [x \in DOMAIN values |-> Saved(values[x])]

\* update_env_file writes the draft's values and leaves every other line alone, those
\* of the old keys among them.
Written ==
    [llm |-> Saved(draft.llm), openaiKey |-> Saved(draft.openaiKey),
     azure |-> Saved(draft.azure), azureAccess |-> Saved(draft.azureAccess),
     broker |-> Saved(draft.broker), environment |-> SavedAll(draft.environment),
     own |-> [b \in Broker |->
                [a \in Accounts |->
                   [k \in Part |->
                      IF a = "legacy" THEN draft.own[b][a][k]
                      ELSE IF Dropped(b, a, k) THEN env.own[b][a][k]
                      ELSE Saved(draft.own[b][a][k])]]],
     live |-> Saved(draft.live), token |-> Saved(draft.token), chat |-> Saved(draft.chat),
     provider |-> SavedAll(draft.provider), enabled |-> SavedAll(draft.enabled),
     access |-> SavedAll(draft.access), database |-> Saved(draft.database)]

Leave == section' = "" /\ draft' = env' /\ asked' = {} /\ typed' = {}

Save == section = "review" /\ env' = Written /\ saves' = saves + 1 /\ Leave
Abort == section = "review" /\ UNCHANGED <<env, saves>> /\ Leave

WizardNext ==
    \/ Configure \/ Skip \/ Save \/ Abort
    \/ AskLlm \/ AskBroker \/ AskTelegram \/ AskMarketData \/ AskSource \/ AskStorage

WizardSpec == WizardInit /\ [][WizardNext]_wizardVars

-----------------------------------------------------------------------------
\* The settings a section is about.
About(s) ==
    CASE s = "llm" -> {"llm", "azure", "openaiKey", "azureAccess"}
      [] s = "broker" -> {"broker", "environment", "credential", "live"}
      [] s = "telegram" -> {"token", "chat"}
      [] s = "market_data" -> {"source", "environment", "credential"}
      [] s = "storage" -> {"database"}
      [] OTHER -> {"source", "access"}

\* A setting of the file rests on a value that will not be read as it was written.
Odd(f, x) ==
    LET s == ResolvedSettings(f) IN
    CASE x \in {"llm", "openaiKey", "azureAccess", "broker"} -> s[x] \in Fragile
      [] x = "azure" -> s.llm \in Fragile \/ f.azure \in Fragile
      [] x = "environment" -> \E b \in Broker : f.environment[b] \in Fragile
      [] x = "credential" ->
            \E b \in Broker :
               \/ f.environment[b] \in Fragile
               \/ \E e \in Environments, k \in Part :
                     ResolveCredential(f, b, e, k) \in Fragile
      [] x = "source" -> \E y \in Sources : s.source[y] \in Fragile
      [] x = "access" -> \E y \in Sources : s.access[y] \in Fragile
      [] OTHER -> f[x] \in Fragile

\* Saving changes what the program reads from its file in the sections the person
\* updated only, however the file said it before: by a selector, by an old switch or
\* by a key alone.  And whichever environment is chosen later, its credentials are
\* those it would have had before, unless the person entered others: the keys written
\* before there were two environments are moved, kept and fallen back to
\* (build_managed_env_values, _drop_new_empty_inactive_broker_credentials). What may
\* change unasked rests on a value that does not survive being written.
SavesOnlyWhatWasAsked ==
    [][saves' # saves =>
         LET old == ResolvedSettings(env)
             new == ResolvedSettings(env')
         IN  /\ \A x \in DOMAIN old :
                   old[x] # new[x] => Odd(env, x) \/ \E s \in asked : x \in About(s)
             /\ \A s \in Sources \ asked :
                   old.source[s] # new.source[s] => old.source[s] \in Fragile
             /\ \A b \in Broker, e \in Environments, k \in Part :
                   LET was == ResolveCredential(env, b, e, k)
                   IN  ResolveCredential(env', b, e, k) # was
                         => was \in Fragile \/ <<b, e, k>> \in typed]_wizardVars

=============================================================================
