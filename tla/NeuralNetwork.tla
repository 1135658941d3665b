---------------------------- MODULE NeuralNetwork ----------------------------
(***************************************************************************)
(* src/nnet: the feedforward network, its objective function and the two   *)
(* ways of training it.  Hidden neurons use the activation of HTangent.hh, *)
(* output neurons that of Identity.hh.  The sum of a hidden neuron is      *)
(* measured in units of ln 2, weights are rounded to integers, and what    *)
(* the hidden and the output neurons yield to 1 / Unit.  The learning rate *)
(* is one, and the line search of ConjugateGradient.hh a choice of a rate. *)
(***************************************************************************)
EXTENDS Integers, Sequences, FiniteSetsExt, SequencesExt

CONSTANTS
    NumInputs, NumHidden, NumOutputs,
    InitialWeights,   \* what the draws of the constructor may yield, as a flat array
    Momentum,         \* nn_momentum
    Window,           \* nn_window
    TrainingRates,    \* what the line search may find
    Betas             \* what the Polak-Ribiere parameter may be, within 0 .. 1

Unit == 3

\* HTangent.hh: tanh(x / 2), here Unit * (2^x - 1) / (2^x + 1), rounded.
activate(x) ==
    LET level(n) == IF n >= 4 THEN 3 ELSE IF n >= 2 THEN 2 ELSE n
    IN  IF x < 0 THEN -level(-x) ELSE level(x)

\* HTangent.hh: the derivative of tanh(x), not of tanh(x / 2), here
\* Unit * (2 / (2^x + 2^-x))^2, rounded but for its tail, which is never zero.
deriv(x) == CASE x = 0 -> 3 [] x \in {-1, 1} -> 2 [] OTHER -> 1

\* Identity.hh
activateOutput(x) == x
derivOutput(x) == 1

\* The last neuron of a layer is its bias.
InputBias == NumInputs + 1
HiddenBias == NumHidden + 1
InputHidden == {"IH"} \X (1 .. InputBias) \X (1 .. NumHidden)
HiddenOutput == {"HO"} \X (1 .. HiddenBias) \X (1 .. NumOutputs)
Weights == InputHidden \cup HiddenOutput

\* The place of a weight in a flat array, as getWeights lists them.
Place(s) == IF s[1] = "IH" THEN (s[3] - 1) * InputBias + s[2]
                          ELSE NumHidden * InputBias + (s[3] - 1) * HiddenBias + s[2]

NumFree == NumHidden + NumOutputs + NumInputs * NumHidden + NumHidden * NumOutputs

ASSUME LayersAssumption == {NumInputs, NumHidden, NumOutputs} \subseteq Nat \ {0}
ASSUME TrainingAssumption ==
    /\ TrainingRates \subseteq Int /\ 0 \in TrainingRates
    /\ \A w \in InitialWeights : w \in Seq(Int) /\ Len(w) = NumFree
    /\ Betas \subseteq 0 .. 1 /\ Window \in Nat \ {0} /\ Momentum \in Int

\* The sum a neuron activates: hidden neuron j, output neuron k.
HiddenNet(net, j) == SumFunction([i \in 1 .. InputBias |-> net.inputs[i] * net.weights[<<"IH", i, j>>]])
OutputNet(net, k) == SumFunction([j \in 1 .. HiddenBias |-> net.hidden[j] * net.weights[<<"HO", j, k>>]])

Present(net, p_inputs) ==
    LET fed == [net EXCEPT !.inputs = Append(p_inputs, 1)]
        hid == [fed EXCEPT !.hidden = Append([j \in 1 .. NumHidden |-> activate(HiddenNet(fed, j))], Unit)]
    IN  [hid EXCEPT !.outputs = [k \in 1 .. NumOutputs |-> activateOutput(OutputNet(hid, k))]]

getInputNeurons(net) == SubSeq(net.inputs, 1, NumInputs)

\* FeedforwardNetwork, with the state its training and its loss policy keep.
NewNets ==
    [inputs : {Append([i \in 1 .. NumInputs |-> 0], 1)},
     weights : {[s \in Weights |-> w[Place(s)]] : w \in InitialWeights},
     hidden : {Append([j \in 1 .. NumHidden |-> 0], Unit)},
     outputs : {[k \in 1 .. NumOutputs |-> 0]},
     losses : {<<>>},                         \* squared errors of the samples
     corrections : {[s \in Weights |-> 0]},   \* Backpropagation
     isFirst : {TRUE},                        \* ConjugateGradient
     direction : {[s \in Weights |-> 0]},
     rate : {1}]

SquaredError(net, p_targets) ==
    SumFunction([k \in 1 .. NumOutputs |-> (p_targets[k] - net.outputs[k]) * (p_targets[k] - net.outputs[k])])

\* addError: the default policy sums up all samples, the other the last ones.
AddError(net, p_targets, sliding) ==
    LET all == Append(net.losses, SquaredError(net, p_targets))
    IN  [net EXCEPT !.losses =
            IF sliding THEN SubSeq(all, IF Len(all) > Window THEN 2 ELSE 1, Len(all))
                       ELSE <<SumFunction(all)>>]

\* Below the error tolerance, 1e-6, of integers: all errors are zero.
Learnt(net) == \A n \in DOMAIN net.losses : net.losses[n] = 0

OutputDelta(net, p_targets, k) == derivOutput(OutputNet(net, k)) * (p_targets[k] - net.outputs[k])

\* A hidden neuron that blames the output it has just produced, not its weight.
HiddenDeltaOfValue(net, p_targets, j) ==
    deriv(HiddenNet(net, j))
    * SumFunction([k \in 1 .. NumOutputs |-> net.hidden[j] * OutputDelta(net, p_targets, k)])

HiddenDelta(net, p_targets, j) ==
    deriv(HiddenNet(net, j))
    * SumFunction([k \in 1 .. NumOutputs |-> net.weights[<<"HO", j, k>>] * OutputDelta(net, p_targets, k)])

\* calc_gradient, in units of 1 / Unit^2.
Gradient(net, p_targets) ==
    [s \in Weights |->
        IF s[1] = "HO" THEN OutputDelta(net, p_targets, s[3]) * net.hidden[s[2]]
                       ELSE HiddenDelta(net, p_targets, s[3]) * net.inputs[s[2]]]

\* A number of units of 1 / Unit^2, as the nearest integer.
Rounded(n) == (2 * n + Unit * Unit) \div (2 * Unit * Unit)

Shifted(net, factor, step) ==
    [net EXCEPT !.weights = [s \in Weights |-> @[s] + Rounded(factor * step[s])]]

\* Backpropagation::train
Backpropagate(net, p_targets) ==
    LET g == Gradient(net, p_targets)
        c == [s \in Weights |-> g[s] + Momentum * net.corrections[s]]
    IN  {[Shifted(net, 1, c) EXCEPT !.corrections = c]}

Dot(u, v) == SumFunction([s \in Weights |-> u[s] * v[s]])

\* The direction of the next search: Polak-Ribiere, unless it is the first one,
\* and straight along the gradient when it does not lead downwards.
Directions(net, g) ==
    LET straight == [s \in Weights |-> -g[s]]
        ribiere(b) == [s \in Weights |-> b * net.direction[s] - g[s]]
    IN  IF net.isFirst THEN {straight}
        ELSE {IF Dot(g, ribiere(b)) >= 0 THEN straight ELSE ribiere(b) : b \in Betas}

\* MSE::potentialError: other weights are tried, and leave their values in the neurons.
Tried(net, factor, step) ==
    [Present(Shifted(net, factor, step), getInputNeurons(net)) EXCEPT !.weights = net.weights]

\* The line search starts from the last rate: from zero it ends at zero.  The
\* last rate it tries need not be the one it returns.
Searches(net) == IF net.rate = 0 THEN {<<0, 0>>} ELSE TrainingRates \X TrainingRates

\* A search along d that returns rate s[1], and tries s[2] last.
Searched(net, d, s) ==
    LET left == [Tried(net, s[2], d) EXCEPT !.direction = d, !.rate = s[1]]
    IN  IF s[1] = 0 THEN left ELSE [Shifted(left, s[1], d) EXCEPT !.isFirst = FALSE]

\* ConjugateGradient::train
Conjugate(net, p_targets) ==
    {Searched(net, d, s) : d \in Directions(net, Gradient(net, p_targets)), s \in Searches(net)}

Train(net, p_targets, sliding, nn_cg) ==
    LET sampled == AddError(net, p_targets, sliding)
    IN  IF Learnt(sampled) THEN {sampled}
        ELSE IF nn_cg THEN Conjugate(sampled, p_targets)
        ELSE Backpropagate(sampled, p_targets)

\* The gradient has the direction of the error: a weight that brings the outputs
\* nearer to the targets as it grows is made to grow, one that takes them further
\* away to shrink.  How far is left open: HTangent.hh differentiates another
\* function than it activates with.
IsDescent(net, p_targets) ==
    LET fresh == Present(net, getInputNeurons(net))
        moved(s) == Present([net EXCEPT !.weights[s] = @ + 1], getInputNeurons(net))
        nearer(s) == SumFunction([k \in 1 .. NumOutputs |->
            (p_targets[k] - fresh.outputs[k]) * (moved(s).outputs[k] - fresh.outputs[k])])
    IN  \A s \in Weights :
            /\ nearer(s) > 0 => Gradient(fresh, p_targets)[s] > 0
            /\ nearer(s) < 0 => Gradient(fresh, p_targets)[s] < 0
==============================================================================
