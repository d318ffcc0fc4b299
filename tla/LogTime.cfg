SPECIFICATION Spec
CONSTANTS
  Lines = {l1, l2, l3}
  Nobody = Nobody
INVARIANT TimeIsOwnOrOverlapped
