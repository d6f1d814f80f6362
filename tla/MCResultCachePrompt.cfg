CONSTANTS
    s1 = s1
    s2 = s2
    s3 = s3
    Steps <- MCTwoSteps
    Node = "edit"
    ImagePorts = {"image"}
    Prompts = {"cat", "dog"}
    Files = {"picture"}
    Contents = {1, 2}
    MaxVersion = 0
    Nothing = Nothing
SPECIFICATION Spec
SYMMETRY MCSymmetry
INVARIANTS
    HitSameInputs
