-------------------------------- MODULE Hooks --------------------------------
(***************************************************************************)
(* Hookable (src/src/plugin/hooks.ts) and the hooks that compile() and     *)
(* transformResult() of one Sumak instance call (src/src/sumak.ts).        *)
(*                                                                         *)
(* compile() is synchronous, but the handlers it calls are the program's:  *)
(* callHook is one step per handler, and a handler may register and remove *)
(* handlers while the loop over them runs.                                 *)
(***************************************************************************)
EXTENDS Integers, SequencesExt

CONSTANT Handlers   \* hook handlers the program may register

BeforeHooks == {"select:before", "query:before"}
HookNames == BeforeHooks \cup {"query:after", "result:transform"}

VARIABLES
    hooks,      \* Hookable._hooks: [HookNames -> Seq(Handlers)]
    stage,      \* "building", the name of the hook being called, or "ready"
    loop,       \* the callHook() loop of that hook
    marks       \* what the handlers called so far have made of the query

hookVars == <<hooks, stage, loop, marks>>

----------------------------------------------------------------------------
(* Registering. *)

Registered(name, h) == h \in ToSet(hooks[name])

\* hook(): the program registers a function once under a name.
Register(name, h) ==
    /\ stage \notin HookNames
    /\ ~Registered(name, h)
    /\ hooks' = [hooks EXCEPT ![name] = Append(@, h)]
    /\ UNCHANGED <<stage, loop, marks>>

\* The function hook() returns takes the handler out: indexOf() and splice().
RemoveHandler(handlers, h) ==
    IF h \in ToSet(handlers) THEN RemoveAt(handlers, CHOOSE i \in DOMAIN handlers : handlers[i] = h)
    ELSE handlers

----------------------------------------------------------------------------
(* callHook().  array is the array the loop iterates over: the live one,   *)
(* until removeHook() drops that from the map (attached = FALSE).  context *)
(* is what the handlers are given; marks stand for what they add to it.    *)
(* due, ran, spoke, spliced, added and dropped are kept for the property.  *)

NoLoop == [array |-> <<>>, at |-> 1, attached |-> TRUE, context |-> <<>>, result |-> <<>>,
           due |-> <<>>, ran |-> <<>>, spoke |-> <<>>, spliced |-> FALSE, added |-> FALSE, dropped |-> {}]

StartLoop(name, given) ==
    [NoLoop EXCEPT !.array = hooks[name], !.context = given, !.due = hooks[name]]

\* A mutant of Chains: each handler is given the original node.
ChainsNone(name) == FALSE

\* The context's node is replaced by what the handler returned, the rows are
\* not: neither is ctx.query, which handlers of query:after read.
Chains(name) == name \in BeforeHooks

\* The handler returns nothing, or what it was given with its mark added.
Answers(name, h, l, speaks) ==
    LET ret == Append(l.context, h)
    IN  IF ~speaks THEN l
        ELSE [l EXCEPT !.result = <<ret>>,
                       !.context = IF Chains(name) THEN ret ELSE @,
                       !.spoke = Append(@, h)]

\* What a handler may do to the hook it is called by: nothing, remove g,
\* register g, or removeHook().
HookEdits == {<<"none">>, <<"clear">>}
             \cup {<<kind, g>> : kind \in {"remove", "register"}, g \in Handlers}

Edited(handlers, edit) ==
    CASE edit[1] = "none" -> handlers
      [] edit[1] = "remove" -> RemoveHandler(handlers, edit[2])
      [] edit[1] = "register" -> Append(handlers, edit[2])
      [] edit[1] = "clear" -> <<>>

\* Whether the edit takes out a handler the loop has already passed.
Splices(edit) ==
    /\ edit[1] = "remove" /\ loop.attached
    /\ \E i \in DOMAIN loop.array : i <= loop.at /\ loop.array[i] = edit[2]

\* What the loop is left with by a handler that makes an edit: removeHook()
\* leaves it the array.
Advanced(edit) ==
    [loop EXCEPT !.at = @ + 1,
                 !.ran = Append(@, loop.array[loop.at]),
                 !.attached = @ /\ edit[1] # "clear",
                 !.array = IF loop.attached /\ edit[1] # "clear" THEN Edited(@, edit) ELSE @,
                 !.spliced = @ \/ Splices(edit),
                 !.added = @ \/ edit[1] = "register",
                 !.dropped = IF ~loop.attached THEN @
                             ELSE CASE edit[1] = "remove" -> @ \cup {edit[2]}
                                    [] edit[1] = "register" -> @ \ {edit[2]}
                                    [] OTHER -> @]

CallHandler(edit, speaks) ==
    /\ stage \in HookNames
    /\ loop.at <= Len(loop.array)
    /\ edit[1] = "register" => ~Registered(stage, edit[2])
    /\ edit[1] = "remove" => Registered(stage, edit[2])
    /\ hooks' = [hooks EXCEPT ![stage] = Edited(@, edit)]
    /\ loop' = Answers(stage, loop.array[loop.at], Advanced(edit), speaks)
    /\ UNCHANGED <<stage, marks>>

LoopEnded == stage \in HookNames /\ loop.at > Len(loop.array)

\* if (result) ast = result
Outcome(given) == IF loop.result = <<>> THEN given ELSE loop.result[1]

----------------------------------------------------------------------------
(* Which hooks are called, one after the other. *)

\* The rows of result:transform carry no marks yet.
Given(name, m) == IF name = "result:transform" THEN <<>> ELSE m

Starts(name) ==
    /\ stage' = name
    /\ loop' = StartLoop(name, Given(name, marks'))
    /\ UNCHANGED hooks

\* compile() calls its first hook.
FirstHook ==
    /\ stage = "building"
    /\ marks' = <<>>
    /\ Starts("select:before")

\* One hook is done, the next one is called with what came of it.
HookAfter(name, following) ==
    /\ LoopEnded /\ stage = name
    /\ marks' = Outcome(marks)
    /\ Starts(following)

Idle ==
    /\ stage' = "ready"
    /\ loop' = NoLoop
    /\ UNCHANGED hooks

LastHook ==
    /\ LoopEnded /\ stage = "query:after"
    /\ marks' = Outcome(marks)
    /\ Idle

\* transformResult(); without handlers callHook() returns at once.
TransformHook ==
    /\ stage = "ready"
    /\ hooks["result:transform"] # <<>>
    /\ UNCHANGED marks
    /\ Starts("result:transform")

TransformDone ==
    /\ LoopEnded /\ stage = "result:transform"
    /\ UNCHANGED marks
    /\ Idle

HookInit ==
    /\ hooks = [name \in HookNames |-> <<>>]
    /\ stage = "building"
    /\ loop = NoLoop
    /\ marks = <<>>

HookNext ==
    \/ \E name \in HookNames, h \in Handlers : Register(name, h)
    \/ \E edit \in HookEdits, speaks \in BOOLEAN : CallHandler(edit, speaks)
    \/ FirstHook
    \/ HookAfter("select:before", "query:before")
    \/ HookAfter("query:before", "query:after")
    \/ LastHook
    \/ TransformHook
    \/ TransformDone

HookSpec == HookInit /\ [][HookNext]_hookVars

----------------------------------------------------------------------------

\* A handler removed while the loop runs shifts the ones after it.
SkippedBySplice == loop.spliced
\* A handler registered while the loop runs is called by it.
ExtendedWhileRunning == loop.added

\* The elements of s are elements of t, in the order of t.
InOrder(s, t) ==
    /\ ToSet(s) \subseteq ToSet(t)
    /\ \A i, j \in DOMAIN s : i < j => \E a, b \in DOMAIN t : a < b /\ t[a] = s[i] /\ t[b] = s[j]

\* HandlersCompose: when callHook() is done, every handler that was registered
\* when it began and that nobody has taken out since has been called, though
\* removeHook() was, in order, none was called twice, and the result carries what
\* each of them returned.  Of the handlers of query:after and of
\* result:transform only the last one's result counts.
HandlersCompose ==
    LoopEnded =>
        /\ ~SkippedBySplice => ToSet(loop.due) \ loop.dropped \subseteq ToSet(loop.ran)
        /\ ~ExtendedWhileRunning => IsInjective(loop.ran) /\ InOrder(loop.ran, loop.due)
        /\ LET begun == Given(stage, marks)
               kept == IF stage \in BeforeHooks \/ loop.spoke = <<>> THEN loop.spoke
                       ELSE <<loop.spoke[Len(loop.spoke)]>>
           IN  Outcome(begun) = begun \o kept

----------------------------------------------------------------------------
(* Why handlers compose: the inductive invariant behind HandlersCompose.     *)

Loops == [array : Seq(Handlers), at : Nat \ {0}, attached : BOOLEAN, context : Seq(Handlers),
          result : Seq(Seq(Handlers)), due : Seq(Handlers), ran : Seq(Handlers), spoke : Seq(Handlers),
          spliced : BOOLEAN, added : BOOLEAN, dropped : SUBSET Handlers]

HookTypes ==
    /\ hooks \in [HookNames -> Seq(Handlers)]
    /\ stage \in {"building", "ready"} \cup HookNames
    /\ loop \in Loops
    /\ marks \in Seq(Handlers)

OneEach == \A name \in HookNames : IsInjective(hooks[name])

LiveArray == loop.attached => loop.array = hooks[stage]

\* Where nobody spliced, what ran is the front of the array.
RanPrefix ==
    ~loop.spliced =>
        /\ Len(loop.ran) = loop.at - 1 /\ Len(loop.ran) <= Len(loop.array)
        /\ \A i \in DOMAIN loop.ran : loop.ran[i] = loop.array[i]

StillThere == ToSet(loop.due) \ loop.dropped \subseteq ToSet(loop.array)

Before(g, h, s) == \E a, b \in DOMAIN s : a < b /\ s[a] = g /\ s[b] = h

\* What ran and what is left follow the order the loop began with.
Ordered ==
    /\ IsInjective(loop.due)
    /\ ~loop.added =>
        /\ ToSet(loop.ran) \cup ToSet(loop.array) \subseteq ToSet(loop.due)
        /\ \A i, j \in DOMAIN loop.ran : i < j => Before(loop.ran[i], loop.ran[j], loop.due)
        /\ \A i, j \in DOMAIN loop.array : i < j => Before(loop.array[i], loop.array[j], loop.due)
        /\ \A i \in DOMAIN loop.ran, j \in DOMAIN loop.array :
              j >= loop.at => Before(loop.ran[i], loop.array[j], loop.due)

Composed ==
    LET begun == Given(stage, marks)
        spoke == loop.spoke
    IN  /\ loop.context = IF Chains(stage) THEN begun \o spoke ELSE begun
        /\ loop.result = IF spoke = <<>> THEN <<>>
                         ELSE IF Chains(stage) THEN <<begun \o spoke>> ELSE <<Append(begun, spoke[Len(spoke)])>>

HookInv ==
    /\ HookTypes /\ OneEach
    /\ stage \in HookNames => LiveArray /\ RanPrefix /\ StillThere /\ Ordered /\ Composed

=============================================================================
