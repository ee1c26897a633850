--------------------------- MODULE VariogramFitting ---------------------------
(***************************************************************************)
(* VariogramFitting in one, two and three dimensions.  Threads of the      *)
(* optimizer evaluate the residuals of all variograms at a point, and at   *)
(* points beside it for the derivatives: central differences, which move   *)
(* each coordinate of each block of parameters both ways, whatever its     *)
(* bounds.  Each evaluation makes a model of its own from the one          *)
(* template.  The points that the optimizer tries are arbitrary, within    *)
(* the bounds it was given.  At the end model() makes the model of the     *)
(* last point accepted, or of the start, which may be out of its bounds.   *)
(***************************************************************************)
EXTENDS Models

CONSTANTS
  Problems,   \* records: dim, variograms (how many), asked (fit_anisotropy), model,
              \* tries (points to go to), beside (coordinates to differentiate by)
  MaxIterations,
  EvalThread, \* of the optimizer
  NotYet      \* what is not known yet

Template == "template"
Owners == {Template} \cup EvalThread

VARIABLES
  fit, fitPc,
  objects,       \* the rbfs that the template and the copies of threads point to
  members,       \* params_, r_, inv_major_ and inv_minor_
  here, accepted, \* the point under evaluation, the last accepted one
  failed, iterations,
  basis,         \* for each variogram, the model of the residuals of the accepted point
  todo,          \* variograms to be evaluated here
  evalPc, task, copy, \* of the threads; a task: a variogram, a coordinate moved, those left
  of,            \* for each variogram, the model whose residuals were evaluated last
  model          \* what model() returns
fittingVars == <<fit, fitPc, objects, members, here, accepted, failed, iterations,
                 basis, todo, evalPc, task, copy, of, model>>

\* Powers of ten.
MajorBounds == -2..0
MinorBounds == 0..2

NumRbfs == Len(fit.model.rbfs)
Variograms == 1..fit.variograms
FitsAnisotropy(x) == x.asked /\ x.dim >= 2 /\ x.variograms >= x.dim
fit_anisotropy_ == FitsAnisotropy(fit)

Ones(x) == [i \in DOMAIN x.model.rbfs |-> 0]
StartPoint(x) == [params |-> parameters(x.model), rot |-> 1, inv_major |-> Ones(x), inv_minor |-> Ones(x)]

\* Two bounds for each parameter, and two scalings of each rbf.
Points(x) == [params : [1..num_parameters(x.model.rbfs) -> Int], rot : Int,
              inv_major : [DOMAIN x.model.rbfs -> Int], inv_minor : [DOMAIN x.model.rbfs -> Int]]
InBounds(x, p) ==
  /\ p \in Points(x)
  /\ \A i \in DOMAIN p.params :
       p.params[i] \in parameter_lower_bounds(x.model.rbfs)[i]..parameter_upper_bounds(x.model.rbfs)[i]
  /\ \A i \in DOMAIN x.model.rbfs : p.inv_major[i] \in MajorBounds /\ p.inv_minor[i] \in MinorBounds

\* The coordinates of all blocks, each moved both ways: a step of one stands for a small
\* one.  A quaternion has four of them.
Coordinates(x) ==
  {"params"} \X (1..num_parameters(x.model.rbfs)) \X {-1, 1}
  \cup (IF FitsAnisotropy(x)
        THEN {"rot"} \X (IF x.dim = 3 THEN 1..4 ELSE {1}) \X {-1, 1}
             \cup (IF x.dim = 3 THEN {"inv_major", "inv_minor"} ELSE {"inv_minor"})
                  \X (DOMAIN x.model.rbfs) \X {-1, 1}
        ELSE {})

\* Parameters of rbfs may be out of their bounds: only the nugget is checked when it is set.
ASSUME FittingAssumption ==
  /\ MaxIterations \in Nat /\ Template \notin EvalThread
  /\ \A x \in Problems :
    /\ x.dim \in 1..3 /\ x.variograms \in Nat \ {0}
    /\ x.model.rbfs \in Seq(Rbfs(x.dim)) /\ Accepted(x.model.rbfs, x.model.poly_degree)
    /\ x.model.nugget \in Nat /\ StartPoint(x) # NotYet
    /\ x.beside \subseteq Coordinates(x)
    /\ \A p \in x.tries : InBounds(x, p) /\ p # NotYet

\* The rotation is a random one at first.  The optimizer gives up at once if it is to start
\* out of bounds.
FittingInit ==
  /\ fit \in Problems
  /\ fitPc = IF InBounds(fit, StartPoint(fit)) THEN "evaluate" ELSE "solved"
  /\ objects = [o \in Owners |->
       IF o = Template THEN set_anisotropies(fit.model.rbfs, [i \in 1..NumRbfs |-> Identity(fit.dim)]) ELSE <<>>]
  /\ members = StartPoint(fit) /\ here = StartPoint(fit) /\ accepted = NotYet /\ failed = FALSE /\ iterations = 0
  /\ todo = Variograms
  /\ evalPc = [t \in EvalThread |-> "idle"] /\ task = [t \in EvalThread |-> NotYet]
  /\ copy = [t \in EvalThread |-> NotYet]
  /\ of = [v \in Variograms |-> NotYet] /\ basis = of /\ model = NotYet

-----------------------------------------------------------------------------
\* No coordinate is moved.
Here == <<"params", 1, 0>>

Moved(block, c, name) == IF c[1] = name THEN [block EXCEPT ![c[2]] = @ + c[3]] ELSE block
Asked(c) ==
  [params |-> Moved(here.params, c, "params"),
   rot |-> IF c[1] = "rot" THEN here.rot + c[2] * c[3] ELSE here.rot,
   inv_major |-> Moved(here.inv_major, c, "inv_major"),
   inv_minor |-> Moved(here.inv_minor, c, "inv_minor")]
At(t) == Asked(task[t][2])

\* As clamp_parameters, with upper bounds alone.
clamp_parametersAbove(params) ==
  [i \in DOMAIN params |-> Min({params[i], parameter_upper_bounds(fit.model.rbfs)[i]})]

clamp_parameters(params) ==
  [i \in DOMAIN params |->
    Min({Max({params[i], parameter_lower_bounds(fit.model.rbfs)[i]}),
         parameter_upper_bounds(fit.model.rbfs)[i]})]

\* At an accepted point derivatives are wanted too.  Nothing more is begun after a failure.
TakeTask(t, v) ==
  /\ fitPc = "evaluate" /\ evalPc[t] = "idle" /\ v \in todo /\ ~failed
  /\ todo' = todo \ {v}
  /\ task' = [task EXCEPT ![t] = <<v, Here, IF accepted = here THEN fit.beside ELSE {}>>]
  /\ evalPc' = [evalPc EXCEPT ![t] = "copy"]
  /\ UNCHANGED <<fit, fitPc, objects, members, here, accepted, basis, failed, iterations, copy, of, model>>

\* The copy has its nugget, and points to rbfs: Rbf's copy constructor clones them.
CopyTo(t, owner) ==
  /\ evalPc[t] = "copy"
  /\ objects' = [objects EXCEPT ![owner] = objects[Template]]
  /\ copy' = [copy EXCEPT ![t] = [nugget |-> fit.model.nugget, rbfs |-> owner]]
  /\ evalPc' = [evalPc EXCEPT ![t] = "parameters"]
  /\ UNCHANGED <<fit, fitPc, members, here, accepted, basis, failed, iterations, todo, task, of, model>>
CopyModelShallow(t) == CopyTo(t, Template)
CopyModel(t) == CopyTo(t, t)

SetParameters(t) ==
  LET clamped_params == clamp_parameters(At(t).params)
  IN /\ evalPc[t] = "parameters"
     /\ evalPc' = [evalPc EXCEPT ![t] = IF NuggetAccepted(clamped_params) THEN "anisotropy" ELSE "thrown"]
     /\ copy' = [copy EXCEPT ![t].nugget = clamped_params[1]]
     /\ objects' = [objects EXCEPT ![copy[t].rbfs] = set_parameters(@, clamped_params)]
     /\ UNCHANGED <<fit, fitPc, members, here, accepted, basis, failed, iterations, todo, task, of, model>>

\* The scalings of a point in the order of the axes.
InvScale(p, i) ==
  CASE fit.dim = 2 -> <<0, p.inv_minor[i]>>
    [] fit.dim = 3 -> <<p.inv_major[i], 0, p.inv_minor[i]>>
Anisotropy(p, i) == [scale |-> InvScale(p, i), rot |-> p.rot]

SetAnisotropies(t) ==
  /\ evalPc[t] = "anisotropy"
  /\ IF fit_anisotropy_
     THEN objects' = [objects EXCEPT ![copy[t].rbfs] = set_anisotropies(@, [i \in 1..NumRbfs |-> Anisotropy(At(t), i)])]
     ELSE UNCHANGED objects
  /\ evalPc' = [evalPc EXCEPT ![t] = "compute"]
  /\ UNCHANGED <<fit, fitPc, members, here, accepted, basis, failed, iterations, todo, task, copy, of, model>>

ModelOf(nugget, rbfs) == [rbfs |-> rbfs, nugget |-> nugget, poly_degree |-> fit.model.poly_degree]

\* compute_residuals fails for a range of zero.  Else the next coordinate is moved, in an
\* order that does not matter.
Compute(t) ==
  LET made == ModelOf(copy[t].nugget, objects[copy[t].rbfs])
      fails == \E i \in DOMAIN made.rbfs : made.rbfs[i].params[2] = 0
      left == task[t][3]
      following == CHOOSE c \in left : TRUE
  IN /\ evalPc[t] = "compute"
     /\ failed' = (failed \/ fails)
     /\ of' = IF task[t][2] = Here THEN [of EXCEPT ![task[t][1]] = made] ELSE of
     /\ IF fails \/ left = {}
        THEN evalPc' = [evalPc EXCEPT ![t] = "idle"] /\ UNCHANGED task
        ELSE /\ evalPc' = [evalPc EXCEPT ![t] = "copy"]
             /\ task' = [task EXCEPT ![t] = <<task[t][1], following, left \ {following}>>]
     /\ UNCHANGED <<fit, fitPc, objects, members, here, accepted, basis, iterations, todo, copy, model>>

-----------------------------------------------------------------------------
\* The optimizer, which is external.
Evaluated == fitPc = "evaluate" /\ (todo = {} \/ failed) /\ \A t \in EvalThread : evalPc[t] = "idle"

\* The point is the best one so far, and derivatives are wanted.
Accept ==
  /\ Evaluated /\ ~failed /\ accepted # here
  /\ accepted' = here /\ basis' = of
  /\ todo' = Variograms
  /\ UNCHANGED <<fit, fitPc, objects, members, here, failed, iterations, evalPc, task, copy, of, model>>

\* The step that leads here is not taken, for its residuals or for their failure;
\* or it was, and the derivatives are known.
Try(p) ==
  /\ Evaluated /\ accepted # NotYet /\ (failed => accepted # here)
  /\ iterations < MaxIterations /\ p # accepted
  /\ here' = p /\ failed' = FALSE /\ iterations' = iterations + 1
  /\ todo' = Variograms
  /\ UNCHANGED <<fit, fitPc, objects, members, accepted, basis, evalPc, task, copy, of, model>>

\* Without a usable solution the parameters stay.
Solved ==
  /\ Evaluated /\ (failed \/ accepted # NotYet)
  /\ fitPc' = "solved"
  /\ members' \in {accepted, members} \ {NotYet}
  /\ UNCHANGED <<fit, objects, here, accepted, basis, failed, iterations, todo, evalPc, task, copy, of, model>>

\* As MemberInvScale, always of the first rbf.
MemberInvScaleOfFirst(i) ==
  CASE fit.dim = 2 -> <<0, members.inv_minor[1]>>
    [] fit.dim = 3 -> <<members.inv_major[1], 0, members.inv_minor[1]>>

\* model(), which builds the anisotropies for itself.
MemberInvScale(i) ==
  CASE fit.dim = 2 -> <<0, members.inv_minor[i]>>
    [] fit.dim = 3 -> <<members.inv_major[i], 0, members.inv_minor[i]>>
GetModel ==
  LET rbfs == set_parameters(objects[Template], members.params)
      member_anisos == [i \in 1..NumRbfs |-> [scale |-> MemberInvScale(i), rot |-> members.rot]]
  IN /\ fitPc = "solved"
     /\ model' = ModelOf(members.params[1],
                   IF fit_anisotropy_ THEN set_anisotropies(rbfs, member_anisos) ELSE rbfs)
     /\ fitPc' = "done"
     /\ UNCHANGED <<fit, objects, members, here, accepted, basis, failed, iterations, todo, evalPc, task, copy, of>>

FittingNext ==
  \/ \E t \in EvalThread :
       \/ \E v \in todo : TakeTask(t, v)
       \/ CopyModel(t) \/ SetParameters(t) \/ SetAnisotropies(t) \/ Compute(t)
  \/ Accept \/ Solved \/ GetModel
  \/ \E p \in fit.tries : Try(p)
FittingSpec == FittingInit /\ [][FittingNext]_fittingVars

-----------------------------------------------------------------------------
\* The types of the variables.
FittingTypeOK ==
  /\ fitPc \in {"evaluate", "solved", "done"}
  /\ evalPc \in [EvalThread -> {"idle", "copy", "parameters", "anisotropy", "compute", "thrown"}]
  /\ todo \subseteq Variograms
  /\ failed \in BOOLEAN /\ iterations \in 0..MaxIterations

\* A model has the parameters of a point, and each rbf is scaled along the first axis in
\* three dimensions and along the last, after one rotation.
IsModelOf(made, p) ==
  /\ parameters(made) = p.params
  /\ \A i \in DOMAIN made.rbfs :
       LET aniso == made.rbfs[i].aniso
       IN IF fit_anisotropy_
          THEN /\ aniso.rot = p.rot /\ aniso.scale[fit.dim] = p.inv_minor[i]
               /\ aniso.scale[fit.dim - 1] = 0
               /\ fit.dim = 3 => aniso.scale[1] = p.inv_major[i]
          ELSE aniso = Identity(fit.dim)

\* It is longest along the first axis and shortest along the last.
LongestFirst(made) ==
  \A i \in DOMAIN made.rbfs : \A a \in 1..(fit.dim - 1) :
    made.rbfs[i].aniso.scale[a] <= made.rbfs[i].aniso.scale[a + 1]

\* Whatever the threads do at the same time, residuals are those of the point asked for,
\* its parameters brought within their bounds, no evaluation throws, and model() is the
\* very model whose residuals of all variograms were accepted, or that of the start, with
\* its axes in order although those of points evaluated for derivatives may not be.
FitsWhatItEvaluates ==
  /\ \A t \in EvalThread :
       /\ evalPc[t] # "thrown"
       /\ evalPc[t] = "compute" =>
            IsModelOf(ModelOf(copy[t].nugget, objects[copy[t].rbfs]),
                      [At(t) EXCEPT !.params = clamp_parameters(@)])
  /\ model # NotYet =>
       /\ IsModelOf(model, members) /\ LongestFirst(model)
       /\ members = accepted => \A v \in Variograms : model = basis[v]

\* The optimizer stops, and the fitted model can be asked for.
FittingTerminates == <>(fitPc = "done")
===============================================================================
