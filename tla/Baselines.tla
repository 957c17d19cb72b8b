----------------------------- MODULE Baselines -----------------------------
(***************************************************************************)
(* The two reference mappers that models are compared with: authored once  *)
(* from sealed DEV labels, then answering from names and samples alone     *)
(* (packages/evals/src/lexical-baseline-vocabulary.ts,                     *)
(* lexical-mapping-baseline.ts, strong-mapping-baseline.ts,                *)
(* strong-baseline-dev.ts; dialectMappingInput of schema-dialects-v2.ts).  *)
(*                                                                         *)
(* A name is what the two normalizations make of it.  A sample is the kind *)
(* of its text.  An answer is <<targetField, transform>>.                  *)
(***************************************************************************)
EXTENDS Integers, Sequences, FiniteSets, FiniteSetsExt, Functions, SequencesExt

CONSTANTS
    None,               \* no key, no tokens, no answer
    Names,              \* name -> [lexical, strong: key or None, tokens: sequence or None]
    Labels,             \* the decisions a DEV column may carry: an answer, or None
    Samples,            \* what a column may hold, row by row
    RuleTemplates,      \* set of [answer, slots: sequence of sets of tokens]
    Required,           \* targets without which an answer is rejected
    FirstLabels,        \* DEV labels there from the start: <<name, label>>
    MaxLabels,          \* bound: DEV labels added
    MaxColumns          \* bound: columns of the input

\* Labels and rules are finitely many, names and rules are lists of tokens, and
\* a name that the first normalization reads has the same key in the second
\* (names longer than 256 characters, which the second refuses, left aside).
ASSUME BaselineAssumption ==
    /\ IsFiniteSet(FirstLabels) /\ IsFiniteSet(RuleTemplates)
    /\ \A l \in FirstLabels : l[1] \in DOMAIN Names
    /\ \A name \in DOMAIN Names :
          /\ Names[name].lexical # None => Names[name].strong = Names[name].lexical
          /\ Names[name].tokens # None
                => DOMAIN Names[name].tokens = 1 .. Len(Names[name].tokens)
    /\ \A r \in RuleTemplates : DOMAIN r.slots = 1 .. Len(r.slots)

VARIABLES
    dev,                \* labels of DEV: <<name, label>>
    named               \* columns, in order: [name, samples]

baselineVars == <<dev, named>>

-----------------------------------------------------------------------------
(* Authoring.                                                              *)

\* The decisions of the columns that normalize to a key.
Decisions(key, Key(_)) == {l[2] : l \in {x \in dev : Key(x[1]) = key}}

Keys(Key(_)) == {Key(l[1]) : l \in dev} \ {None}

lexicalKey(name) == Names[name].lexical
strongNameKey(name) == Names[name].strong
strongNameTokens(name) == Names[name].tokens

\* Keys that always meant one thing.
buildLexicalVocabulary ==
    LET One(key) ==
            Cardinality(Decisions(key, lexicalKey)) = 1 /\ None \notin Decisions(key, lexicalKey)
    IN  [key \in {k \in Keys(lexicalKey) : One(k)} |->
            CHOOSE answer \in Decisions(key, lexicalKey) : TRUE]

\* The second baseline knows three transforms; another is a label of nothing.
Answer(label) ==
    IF label # None /\ label[2] \in {"IDENTITY", "ISO_DATETIME", "DECIMAL_STRING"} THEN label
    ELSE None

StrongDecisions(key) == {Answer(l) : l \in Decisions(key, strongNameKey)}

Blocked == {k \in Keys(strongNameKey) :
                Cardinality(StrongDecisions(k)) # 1 \/ None \in StrongDecisions(k)}

Fills(rule, tokens) ==
    /\ tokens # None /\ Len(tokens) = Len(rule.slots)
    /\ \A n \in DOMAIN tokens : tokens[n] \in rule.slots[n]

Witnesses(rule) ==
    {l[1] : l \in {x \in dev :
        /\ strongNameKey(x[1]) # None /\ strongNameKey(x[1]) \notin Blocked
        /\ Answer(x[2]) = rule.answer
        /\ Fills(rule, strongNameTokens(x[1]))}}

Witnessed(rule) ==
    \A n \in DOMAIN rule.slots : \A token \in rule.slots[n] :
        \E w \in Witnesses(rule) : strongNameTokens(w)[n] = token

\* None where the authoring throws: a token of a rule has no witness.
buildStrongBaselineConfig ==
    IF \A rule \in RuleTemplates : Witnessed(rule)
    THEN [entries |-> [k \in Keys(strongNameKey) \ Blocked |->
                          CHOOSE a \in StrongDecisions(k) : TRUE],
          blocked |-> Blocked]
    ELSE None

-----------------------------------------------------------------------------
(* Answering.                                                              *)

Rows == Max({0} \cup {Len(c.samples) : c \in Range(named)})

sampleFits(transform, sample) ==
    CASE transform = "IDENTITY" -> sample # "empty"
      [] transform = "DECIMAL_STRING" -> sample = "decimal"
      [] transform = "ISO_DATETIME" -> sample = "time"
      [] OTHER -> FALSE

\* A shorter column leaves its last rows without a sample.
EverySampleFits(column, answer) ==
    /\ Rows > 0 /\ Len(column.samples) = Rows
    /\ \A n \in 1 .. Rows : sampleFits(answer[2], column.samples[n])

Offer(column, answers) ==
    IF Cardinality(answers) = 1 /\ \A a \in answers : EverySampleFits(column, a)
    THEN CHOOSE a \in answers : TRUE
    ELSE None

\* Mutant of Uncontested: the targets are counted again as they are cleared, so
\* the last of the competing columns stays.
LastOneStays(offers) ==
    [n \in DOMAIN offers |->
        IF offers[n] # None /\ \E k \in (n + 1) .. Len(offers) :
                                   offers[k] # None /\ offers[k][1] = offers[n][1]
        THEN None ELSE offers[n]]

\* Competing columns get no arbitrary winner.
Uncontested(offers) ==
    [n \in DOMAIN offers |->
        IF offers[n] # None /\ \E k \in DOMAIN offers \ {n} :
                                   offers[k] # None /\ offers[k][1] = offers[n][1]
        THEN None ELSE offers[n]]

LexicalAnswers(name, vocabulary) ==
    {vocabulary[k] : k \in {lexicalKey(name)} \cap DOMAIN vocabulary}

proposeLexicalMapping(columns, vocabulary) ==
    Uncontested([n \in DOMAIN columns |->
                    Offer(columns[n], LexicalAnswers(columns[n].name, vocabulary))])

StrongAnswers(name, config) ==
    LET key == strongNameKey(name)
    IN  IF key = None \/ key \in config.blocked THEN {}
        ELSE {config.entries[k] : k \in {key} \cap DOMAIN config.entries}
             \cup {r.answer : r \in {t \in RuleTemplates : Fills(t, strongNameTokens(name))}}

proposeStrongMapping(columns, config) ==
    Uncontested([n \in DOMAIN columns |->
                    Offer(columns[n], StrongAnswers(columns[n].name, config))])

\* The record of a proposal; what every mapping answer must cover decides it.
Outcome(fields) ==
    IF Rows > 0 /\ Required \subseteq {f[1] : f \in Range(fields) \ {None}} THEN "VALID"
    ELSE "CONTRACT_REJECTED"

-----------------------------------------------------------------------------
BaselineInit == dev = FirstLabels /\ named = <<>>

\* A column of DEV; one dialect may label a name otherwise than another.
Label ==
    /\ named = <<>> /\ Cardinality(dev) < Cardinality(FirstLabels) + MaxLabels
    /\ \E name \in DOMAIN Names, label \in Labels : dev' = dev \cup {<<name, label>>}
    /\ UNCHANGED named

AddColumn ==
    /\ Len(named) < MaxColumns
    /\ \E name \in DOMAIN Names \ {c.name : c \in Range(named)}, samples \in Samples :
          named' = Append(named, [name |-> name, samples |-> samples])
    /\ UNCHANGED dev

BaselineNext == Label \/ AddColumn

BaselineSpec == BaselineInit /\ [][BaselineNext]_baselineVars

-----------------------------------------------------------------------------
(* Properties.                                                             *)

\* What is proposed is what every DEV column of that name meant, it fits every
\* sample, and no other column has its target.
NothingIsGuessed(fields, Key(_)) ==
    \A n \in DOMAIN fields : fields[n] # None =>
        /\ Key(named[n].name) # None
        /\ \A l \in dev : Key(l[1]) = Key(named[n].name) => l[2] = fields[n]
        /\ EverySampleFits(named[n], fields[n])
        /\ \A k \in DOMAIN fields \ {n} : fields[k] # None => fields[k][1] # fields[n][1]

\* A name DEV never held is answered only from parts that DEV did hold, each at
\* its place and with that meaning.
RulesHaveWitnesses(strong) ==
    \A n \in DOMAIN named :
        LET tokens == strongNameTokens(named[n].name)
        IN  (strong[n] # None /\
             ~\E l \in dev : strongNameKey(l[1]) = strongNameKey(named[n].name)) =>
            \A i \in DOMAIN tokens : \E l \in dev :
                /\ l[2] = strong[n]
                /\ strongNameTokens(l[1]) # None /\ strongNameTokens(l[1])[i] = tokens[i]

\* The second baseline does not contradict the first.
BaselinesAgree(lexical, strong) ==
    \A n \in DOMAIN named : (lexical[n] # None /\ strong[n] # None) => lexical[n] = strong[n]

\* No column owes its answer to its place.
OrderDecidesNothing(fields, Propose(_)) == Propose(Reverse(named)) = Reverse(fields)

\* A record that counts as valid covers what is required, each target once.
ValidCovers(fields) ==
    Outcome(fields) = "VALID" =>
        \A t \in Required :
            Cardinality({n \in DOMAIN fields : fields[n] # None /\ fields[n][1] = t}) = 1

\* A baseline answers only from labels and witnessed rules that leave no
\* choice, and the order in which columns come decides none of it.
BaselinesNeverGuess ==
    LET vocabulary == buildLexicalVocabulary
        config == buildStrongBaselineConfig
        lexical == proposeLexicalMapping(named, vocabulary)
        strong == proposeStrongMapping(named, config)
    IN  /\ NothingIsGuessed(lexical, lexicalKey)
        /\ OrderDecidesNothing(lexical, LAMBDA c : proposeLexicalMapping(c, vocabulary))
        /\ ValidCovers(lexical)
        /\ config # None =>
            /\ NothingIsGuessed(strong, strongNameKey) /\ RulesHaveWitnesses(strong)
            /\ OrderDecidesNothing(strong, LAMBDA c : proposeStrongMapping(c, config))
            /\ ValidCovers(strong)
            /\ BaselinesAgree(lexical, strong)
=============================================================================
