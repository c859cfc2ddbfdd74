--------------------------- MODULE LaunchOptions ---------------------------
(***************************************************************************)
(* The resource options of a request that starts a job: ParamValidator     *)
(* compares them with the "parameters" of the configuration, and           *)
(* translate_options gives those that parameter_mapping names to the       *)
(* resource under its own names.  The Slurm resource adds a partition with *)
(* GPUs.  The loops over options are sets here: their order has no effect. *)
(***************************************************************************)
EXTENDS Integers

CONSTANTS
    Options,      \* names of options in requests
    MaxValue,     \* options and bounds are in -MaxValue .. MaxValue
    Declarations, \* the "parameters" configurations to check, see Declared
    Mapped        \* the options that parameter_mapping names

Numbers == -MaxValue .. MaxValue
Unset == MaxValue + 1   \* a bound that the configuration does not give

\* An option is of Python's type int, bool (1 is True) or str; a request may
\* leave it out.
Values == [type : {"int"}, n : Numbers] \union [type : {"bool"}, n : {0, 1}] \union [type : {"str"}, n : {0}]
Absent == [type |-> "absent", n |-> 0]

\* The validation of a parameter; type "any" if there is none.
Validations == [required : BOOLEAN, type : {"any", "int", "bool"},
                low : Numbers \union {Unset}, high : Numbers \union {Unset}]
Undeclared == [required |-> FALSE, type |-> "absent", low |-> Unset, high |-> Unset]

ASSUME OptionsAssumption ==
    /\ "gpu_enabled" \in Options
    /\ MaxValue \in Nat \ {0}
    /\ Declarations \subseteq [Options -> Validations \union {Undeclared}]
    /\ Mapped \subseteq Options

VARIABLES
    declared,  \* the configuration
    options,   \* the options of the request
    launch     \* the request: step, and the options given to the resource

optionVars == <<declared, options, launch>>

LaunchSteps == {"idle", "validate", "translate", "refused", "raised", "launched"}

OptionsTypeOK ==
    /\ declared \in Declarations
    /\ options \in [Options -> Values \union {Absent}]
    /\ launch \in [pc : LaunchSteps, sent : SUBSET Options, gpu : BOOLEAN]

NoOptions == [o \in Options |-> Absent]

OptionsInit ==
    /\ declared \in Declarations
    /\ options = NoOptions
    /\ launch = [pc |-> "idle", sent |-> {}, gpu |-> FALSE]

-----------------------------------------------------------------------------
IsDeclared(o) == declared[o].type # "absent"
Given(o) == options[o].type # "absent"

Missing == {o \in Options : declared[o].required /\ ~Given(o)}

\* Options that are not declared are ignored.
Checked == {o \in Options : IsDeclared(o) /\ Given(o)}
Mistyped == {o \in Checked : declared[o].type # "any" /\ options[o].type # declared[o].type}

\* A bound of 0 is as good as none.
Bounds(o) == {declared[o].low, declared[o].high} \ {0, Unset}

\* Comparing a text with a number raises.
Incomparable == {o \in Checked \ Mistyped : options[o].type = "str" /\ Bounds(o) # {}}

TooLow == {o \in Checked \ Mistyped :
              declared[o].low \in Bounds(o) /\ options[o].n < declared[o].low}
\* Slip: a value at its upper bound is refused.
TooHighOrEqual == {o \in Checked \ Mistyped :
              declared[o].high \in Bounds(o) /\ options[o].n >= declared[o].high}

TooHigh == {o \in Checked \ Mistyped :
              declared[o].high \in Bounds(o) /\ options[o].n > declared[o].high}

\* Slip: a value of a wrong type is not an error, and is not compared.
ErrorsUntyped == Missing \union TooLow \union TooHigh

Errors == Missing \union Mistyped \union TooLow \union TooHigh

Request ==
    /\ launch.pc = "idle"
    /\ options' \in [Options -> Values \union {Absent}] /\ launch' = [launch EXCEPT !.pc = "validate"]
    /\ UNCHANGED declared

\* validate_options raises for any error.
Validate ==
    /\ launch.pc = "validate"
    /\ launch' = [launch EXCEPT !.pc = IF Incomparable # {} THEN "raised"
                                       ELSE IF Errors # {} THEN "refused" ELSE "translate"]
    /\ UNCHANGED <<declared, options>>

\* translate_options: "gpu_enabled" has no mapping of its own; bool is checked
\* again, since it need not be declared.
Translate ==
    /\ launch.pc = "translate"
    /\ launch' = [pc |-> "launched", sent |-> {o \in Mapped : Given(o)},
                  gpu |-> LET v == options["gpu_enabled"] IN v.type = "bool" /\ v.n # 0]
    /\ UNCHANGED <<declared, options>>

OptionsNext ==
    \/ Request
    \/ Validate
    \/ Translate

-----------------------------------------------------------------------------
(* What the configuration says of a value, read without the code.          *)
Fits(o) ==
    LET v == declared[o] IN
    /\ v.required => Given(o)
    /\ Given(o) => /\ v.type \in {"any", options[o].type}
                   /\ v.low # Unset => options[o].n >= v.low
                   /\ v.high # Unset => options[o].n <= v.high

\* A bound that the code takes for none.
ZeroBound(o) == 0 \in {declared[o].low, declared[o].high}

\* What reaches the resource fits its declaration, although options that are
\* not declared are passed over, a type that does not match ends the checks
\* of its option only, and the translation starts from the request again.
\* It takes a parameter_mapping without other options, or they would not be
\* "stripped in the translation step", and bounds that are not 0; a partition
\* with GPUs takes a "gpu_enabled" that may be true (ParamValidator,
\* translate_options).
SentFits ==
    launch.pc = "launched" =>
        /\ \A o \in Options : IsDeclared(o) => Fits(o) \/ ZeroBound(o)
        /\ (\A o \in Mapped : IsDeclared(o)) => \A o \in launch.sent : IsDeclared(o)
        /\ launch.gpu /\ IsDeclared("gpu_enabled") => declared["gpu_enabled"].type \in {"any", "bool"}

\* Nobody is refused options that all fit (ParamValidator.validate).
RefusedForReason ==
    launch.pc = "refused" => \E o \in Options : IsDeclared(o) /\ ~Fits(o)
=============================================================================
