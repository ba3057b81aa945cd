-------------------------------- MODULE Variables --------------------------------
(***************************************************************************)
(* The variables of a resource: what its project, its environment and it      *)
(* itself define, as a deploy resolves them (db/queries.ts, env/interpolate.ts), *)
(* the tabs they are edited in (routes/app.ts), and the secrets musdash         *)
(* generates for the names a stack's Compose file references                  *)
(* (routes/compose-form.ts, compose/env.ts).                                  *)
(*                                                                          *)
(* A value is a sequence of pieces: text, a reference ${NAME}, the escape $$,   *)
(* or a secret that was made.  Parsing, encryption and the order of the lines    *)
(* are left out, and so are the placeholders of a host, which are made once, at   *)
(* the creation.                                                             *)
(***************************************************************************)
EXTENDS Naturals, Sequences, SequencesExt, FiniteSets

CONSTANTS
  Names,      \* names of variables
  Generated,  \* those that are a secret placeholder: SERVICE_PASSWORD_DB
  Reserved,   \* those that would steer the docker CLI: PATH, COMPOSE_FILE
  Texts,      \* what a user types as a value
  MaxSaves    \* bound: forms saved

VARIABLES
  kind,    \* the resource is a stack, "compose", or not
  levels,  \* the variables each level defines: of each name, its text and scope
  form,    \* a Variables tab that is open: its level and what it was drawn with
  file,    \* the names the saved Compose file references with no default
  used,    \* history: the secret the first deploy gave the stack, << >> for none
  edited,  \* history: the names whose variable the user changed on the resource
  stale,   \* history: those a tab drawn before they were made left out
  saves    \* forms saved

vars == <<kind, levels, form, file, used, edited, stale, saves>>

Lowest == <<"project", "environment", "resource">> \* in the order they are merged
Level == Range(Lowest)
None == "none"

Text(word) == [kind |-> "text", of |-> word]
Ref(name) == [kind |-> "ref", of |-> name]
Secret(number) == [kind |-> "secret", of |-> number]
Escape == [kind |-> "escape", of |-> "$$"]

Scope == {"runtime", "build", "both"}
Variable == [text : Texts \cup {<<Secret(n)>> : n \in 1..MaxSaves}, scope : Scope]
NoForm == [level |-> None, vars |-> << >>]

VariablesTypeOK ==
  /\ kind \in {"image", "compose"} /\ file \subseteq Names /\ saves \in 0..MaxSaves
  /\ \A l \in Level : DOMAIN levels[l] \subseteq Names /\ \A n \in DOMAIN levels[l] : levels[l][n] \in Variable
  /\ form.level \in Level \cup {None} /\ DOMAIN form.vars \subseteq Names
  /\ edited \subseteq Names /\ stale \subseteq Names /\ DOMAIN used = Generated

Init ==
  /\ kind \in {"image", "compose"}
  /\ levels = [l \in Level |-> << >>] /\ form = NoForm /\ file = {}
  /\ used = [s \in Generated |-> << >>] /\ edited = {} /\ stale = {} /\ saves = 0

-----------------------------------------------------------------------------
(* What a deploy resolves.                                                 *)

\* A later level displaces an earlier one, which it remembers.
MergeLevel(merged, l) ==
  [n \in DOMAIN merged \cup DOMAIN levels[l] |->
     IF n \notin DOMAIN levels[l] THEN merged[n]
     ELSE [text |-> levels[l][n].text, scope |-> levels[l][n].scope, origin |-> l,
           overrides |-> IF n \in DOMAIN merged THEN Append(merged[n].overrides, merged[n].origin)
                         ELSE << >>]]

MergeLevels == FoldLeft(MergeLevel, << >>, Lowest)

\* A value that refers to itself or to a name no level defines throws.
Refers(text) == {text[i].of : i \in {j \in DOMAIN text : text[j].kind = "ref"}}
Throws(flat) == \E n \in DOMAIN flat : \E r \in Refers(flat[n]) : r = n \/ r \notin DOMAIN flat

\* One pass: what a reference stands for is the text as it was typed.
Expand(flat, piece) ==
  CASE piece.kind = "ref" -> flat[piece.of]
    [] piece.kind = "escape" -> <<Text("$")>>
    [] OTHER -> <<piece>>
Interpolate(flat) ==
  [n \in DOMAIN flat |-> FlattenSeq([i \in DOMAIN flat[n] |-> Expand(flat, flat[n][i])])]

\* Scopes play no part in the merge and the interpolation, only in what is delivered.
ResolveEnvVars ==
  LET merged == MergeLevels
      flat == [n \in DOMAIN merged |-> merged[n].text]
      expanded == IF Throws(flat) THEN << >> ELSE Interpolate(flat)
      Of(scopes) == [n \in {m \in DOMAIN expanded : merged[m].scope \in scopes} |-> expanded[n]]
  IN  [ok |-> ~Throws(flat), runtime |-> Of({"runtime", "both"}), build |-> Of({"build", "both"}),
       secrets |-> Range(expanded)]

\* The table on the page, which decrypts nothing.
ResolveEnvKeys == [n \in DOMAIN MergeLevels |-> [f \in {"scope", "origin", "overrides"} |-> MergeLevels[n][f]]]

\* Of a stack's variables, what Compose interpolates the file with, and what is missing.
InterpolationEnv(runtime) ==
  LET env == [n \in (DOMAIN runtime \cap file) \ Reserved |-> runtime[n]]
  IN  [env |-> env, missing |-> file \ DOMAIN env]

-----------------------------------------------------------------------------
(* The forms.                                                              *)

DrawTab ==
  /\ saves < MaxSaves
  /\ \E l \in Level : form' = [level |-> l, vars |-> levels[l]]
  /\ UNCHANGED <<kind, levels, file, used, edited, stale, saves>>

\* The boxes the form posts: as the tab was drawn, but for one name.  A stack has
\* one box, which is posted as runtime.
Typed(l, text, scope) == [text |-> text, scope |-> IF kind = "compose" /\ l = "resource" THEN "runtime" ELSE scope]
Posted(l, drawn) == [n \in DOMAIN drawn |-> Typed(l, drawn[n].text, drawn[n].scope)]
Without(drawn, name) == [n \in DOMAIN drawn \ {name} |-> drawn[n]]
With(drawn, name, variable) == [n \in DOMAIN drawn \cup {name} |-> IF n = name THEN variable ELSE drawn[n]]

\* The whole set is replaced, whatever was added to it since the tab was drawn.
SetEnvVars(posted) == levels' = [levels EXCEPT !["resource"] = posted]
SetSharedEnvVars(owner, posted) == levels' = [levels EXCEPT ![owner] = posted]

Save(l, drawn) ==
  IF l = "resource" THEN SetEnvVars(Posted(l, drawn)) ELSE SetSharedEnvVars(l, Posted(l, drawn))

SaveVariables ==
  /\ form.level # None /\ saves < MaxSaves
  /\ \E name \in Names :
       /\ \/ Save(form.level, Without(form.vars, name))
          \/ \E text \in Texts, scope \in Scope :
               Save(form.level, With(form.vars, name, [text |-> text, scope |-> scope]))
       /\ IF form.level # "resource" THEN UNCHANGED <<edited, stale>>
          ELSE /\ edited' = edited \cup {name}
               /\ stale' = stale \cup (DOMAIN levels["resource"] \ DOMAIN form.vars)
  /\ form' = [form EXCEPT !.vars = levels'[form.level]]
  /\ saves' = saves + 1
  /\ UNCHANGED <<kind, file, used>>

AddResourceEnvVars_slip(new) == levels' = [levels EXCEPT !["resource"] = new]

\* A name the resource has already is left alone.
AddResourceEnvVars(new) ==
  levels' = [levels EXCEPT !["resource"] = [n \in DOMAIN @ \cup DOMAIN new |-> IF n \in DOMAIN @ THEN @[n] ELSE new[n]]]

\* The placeholders nothing resolves yet, each with a fresh secret.
PlaceholderVars(references) == (references \cap Generated) \ DOMAIN ResolveEnvKeys

GeneratePlaceholders(references) ==
  AddResourceEnvVars([s \in PlaceholderVars(references) |->
                        [text |-> <<Secret(saves + 1)>>, scope |-> "runtime"]])

SaveComposeFile ==
  /\ kind = "compose" /\ saves < MaxSaves
  /\ \E names \in SUBSET Names : file' = names /\ GeneratePlaceholders(names)
  /\ saves' = saves + 1
  /\ UNCHANGED <<kind, form, used, edited, stale>>

\* A stack's deploy that gets past its variables; one that does not changes nothing.
Deploy ==
  LET resolved == ResolveEnvVars
      interp == InterpolationEnv(resolved.runtime)
      Made(s) == s \in DOMAIN interp.env /\ s \in DOMAIN levels["resource"] /\ s \notin edited \cup stale
  IN  /\ kind = "compose" /\ resolved.ok /\ interp.missing = {}
      /\ used' = [s \in Generated |-> IF used[s] = << >> /\ Made(s) THEN interp.env[s] ELSE used[s]]
      /\ UNCHANGED <<kind, levels, form, file, edited, stale, saves>>

Next == DrawTab \/ SaveVariables \/ SaveComposeFile \/ Deploy

Spec == Init /\ [][Next]_vars

-----------------------------------------------------------------------------
(* Properties.                                                             *)

Defined == UNION {DOMAIN levels[l] : l \in Level}
Rank(l) == CHOOSE i \in DOMAIN Lowest : Lowest[i] = l
Winner(n) == CHOOSE l \in Level : n \in DOMAIN levels[l] /\ \A m \in Level : n \in DOMAIN levels[m] => Rank(m) <= Rank(l)
Winning(n) == levels[Winner(n)][n]
Declared(n) ==
  LET text == Winning(n).text
      Part(piece) == IF piece.kind = "ref" THEN Winning(piece.of).text
                     ELSE IF piece.kind = "escape" THEN <<Text("$")>> ELSE <<piece>>
  IN  FlattenSeq([i \in DOMAIN text |-> Part(text[i])])

\* A deploy delivers what the highest level that defines a name says, under that
\* level's scope and no wider; references give the winning text, in a build the
\* runtime's too; all it delivers is redacted; and the page names the same levels
\* (db/queries.ts, mergeLevels and resolveEnvVars).
DeliveredAsDeclared ==
  LET resolved == ResolveEnvVars
      keys == ResolveEnvKeys
  IN  /\ DOMAIN keys = Defined
      /\ \A n \in Defined :
           /\ keys[n].origin = Winner(n) /\ keys[n].scope = Winning(n).scope
           /\ Range(keys[n].overrides) = {l \in Level : n \in DOMAIN levels[l]} \ {Winner(n)}
      /\ resolved.ok => /\ \A n \in Defined : Refers(Winning(n).text) \subseteq Defined \ {n}
                        /\ DOMAIN resolved.runtime = {n \in Defined : Winning(n).scope # "build"}
                        /\ DOMAIN resolved.build = {n \in Defined : Winning(n).scope # "runtime"}
                        /\ \A n \in DOMAIN resolved.runtime : resolved.runtime[n] = Declared(n)
                        /\ \A n \in DOMAIN resolved.build : resolved.build[n] = Declared(n)
                        /\ Range(resolved.runtime) \cup Range(resolved.build) \subseteq resolved.secrets

\* The secret a stack's first deploy gave it is the one every later deploy gives,
\* until the user edits it or saves a tab that was drawn before it was made
\* (compose/placeholders.ts, routes/compose-form.ts).
SecretsLast ==
  \A s \in Generated \ (edited \cup stale) :
    used[s] # << >> => s \in DOMAIN levels["resource"] /\ levels["resource"][s].text = used[s]

\* The same without the second exception: the save of a tab drawn earlier takes the
\* secret away, and the next save of the file makes another (db/queries.ts, setEnvVars).
\* Refuted: README, section 3.
SecretsAlwaysLast ==
  \A s \in Generated \ edited :
    used[s] # << >> => s \in DOMAIN levels["resource"] /\ levels["resource"][s].text = used[s]

\* A placeholder the saved file references is there for the deploy, unless the user
\* edited it: not when a shared variable of that name is for builds only, for then none
\* is made, nor once that variable is gone (routes/compose-form.ts).
\* Refuted: README, section 3.
PlaceholdersSuffice ==
  kind = "compose" /\ ResolveEnvVars.ok =>
    (file \cap Generated) \ (edited \cup stale) \subseteq DOMAIN ResolveEnvVars.runtime
================================================================================
