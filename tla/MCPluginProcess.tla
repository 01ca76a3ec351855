----------------------------- MODULE MCPluginProcess -----------------------------
(***************************************************************************)
(* Small instances of PluginProcess: one credentials module, one storage   *)
(* module, one step of each kind; requirements that differ in one part.    *)
(***************************************************************************)
EXTENDS PluginProcess, TLC

CONSTANTS me, you, here, there

C(source, who, keys, arn, region) ==
  [source |-> source, who |-> who, keys |-> keys, arn |-> arn, region |-> region]

\* Keys, half a key, a role, a role without an ARN, a profile beside keys.
FiveInputs ==
  {C("static", me, TRUE, FALSE, here), C("static", me, FALSE, FALSE, None),
   C("role_arn", me, TRUE, TRUE, None), C("role_arn", you, FALSE, FALSE, here),
   C("profile", you, TRUE, FALSE, there)}

\* A reference with and without a region of its own, a block of a role, nothing.
FourConfigs ==
  {[inline |-> None, ref |-> "creds", region |-> None],
   [inline |-> None, ref |-> "creds", region |-> there],
   [inline |-> C("role_arn", me, TRUE, TRUE, here), ref |-> "creds", region |-> here],
   [inline |-> None, ref |-> None, region |-> here]}

OnePartAtATime ==
  {[p \in Parts |-> IF p = "modules" THEN 6 ELSE 0],
   [p \in Parts |-> IF p = "state" THEN 8 ELSE 0],
   [p \in Parts |-> IF p = "mapper" THEN 1 ELSE 0]}

Plain == [kind |-> "observability", hint |-> Unspecified, runtimes |-> {}, modes |-> {},
          signals |-> {}, backends |-> {}]

\* All signals with all backends, also those of a later protocol, and requirements of
\* other kinds.
Requirements ==
  {[Plain EXCEPT !.signals = {s}, !.backends = {b}] :
     s \in Signals \cup {Unspecified, "later"}, b \in Backends \cup {Unspecified, "later"}}
    \cup {Plain, [Plain EXCEPT !.signals = Signals], [Plain EXCEPT !.backends = Backends],
          [Plain EXCEPT !.kind = "messaging"], [Plain EXCEPT !.hint = "infra.database"],
          [Plain EXCEPT !.hint = CollectorType], [Plain EXCEPT !.runtimes = {"ecs", "other"}],
          [Plain EXCEPT !.runtimes = {"other"}], [Plain EXCEPT !.modes = {"daemonset"}],
          [Plain EXCEPT !.modes = {"daemonset", "managed"}]}

UpToTwo == {{p, q} : p, q \in Requirements} \cup {{}}
=============================================================================
