CONSTANTS
    s1 = s1
    s2 = s2
    s3 = s3
    Steps <- MCThreeSteps
    Node = "upscale"
    ImagePorts = {"image"}
    Prompts = {"none"}
    Files = {"picture"}
    Contents = {1, 2}
    MaxVersion = 1
    Nothing = Nothing
SPECIFICATION Spec
SYMMETRY MCSymmetry
INVARIANTS
    HitCurrentModel
